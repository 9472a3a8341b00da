---------------------------- MODULE AutoResetEvent ----------------------------
(***************************************************************************)
(* What an event gives its users: one bit that set raises and reset clears, *)
(* atomically.  A wait ends by taking the bit (clearing it unless the event *)
(* is reset by hand); or, out of time or refused, it leaves the bit alone.  *)
(* The result is 0 for the first two of these and -1 for the third: it does *)
(* not tell a wait that took the bit from one that timed out.               *)
(***************************************************************************)
EXTENDS Integers

CONSTANTS Waiters, ManualReset

VARIABLES signaled,
          outcome,    \* waiter -> "waiting", or how its last wait ended
          result      \* waiter -> what its last wait returned

Init ==
  /\ signaled = FALSE
  /\ outcome = [w \in Waiters |-> "taken"] /\ result = [w \in Waiters |-> 0]

Begin(w) ==
  /\ outcome[w] # "waiting"
  /\ outcome' = [outcome EXCEPT ![w] = "waiting"]
  /\ UNCHANGED <<signaled, result>>

Ends(w, how, value) ==
  /\ outcome[w] = "waiting"
  /\ outcome' = [outcome EXCEPT ![w] = how]
  /\ result' = [result EXCEPT ![w] = value]

Take(w)     == Ends(w, "taken", 0) /\ signaled /\ signaled' = ManualReset
TimesOut(w) == Ends(w, "late", 0) /\ UNCHANGED signaled
Fails(w)    == Ends(w, "failed", -1) /\ UNCHANGED signaled

Set   == signaled' = TRUE  /\ UNCHANGED <<outcome, result>>
Reset == signaled' = FALSE /\ UNCHANGED <<outcome, result>>

Next ==
  \/ Set \/ Reset
  \/ \E w \in Waiters : Begin(w) \/ Take(w) \/ TimesOut(w) \/ Fails(w)

Spec == Init /\ [][Next]_<<signaled, outcome, result>>
===============================================================================

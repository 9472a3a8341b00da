----------------------------- MODULE ExpressEvent -----------------------------
(***************************************************************************)
(* The POSIX implementation of events (express_event.c): a bit guarded by  *)
(* a mutex, and a condition variable.  Everything that sleeps in           *)
(* teleport-express sleeps in wait_event.                                  *)
(*                                                                         *)
(* Time is abstracted to the sub-second part of the deadline: a wait is    *)
(* called at tv_usec, for milliseconds; the two are added without a carry  *)
(* into the seconds, and pthread_cond_timedwait refuses (EINVAL) a         *)
(* deadline whose tv_nsec is a second or more.                             *)
(***************************************************************************)
EXTENDS EventConstants, EventBit

VARIABLES owner,                    \* the event's mutex
          asleep,                   \* waiters inside the condition variable
          wpc, valid, timeout, ret, \* per waiter
          spc                       \* per setter

wvars == <<wpc, valid, timeout, ret>>
evars == <<owner, asleep, wvars, spc>>
posixvars == <<signal_state, evars>>

EventTypeOK ==
  /\ signal_state \in BOOLEAN
  /\ owner \in Waiters \cup Setters \cup {NOBODY}
  /\ asleep \in SUBSET Waiters
  /\ wpc \in [Waiters -> {"idle", "lock", "test", "sleep", "relock", "take", "fail"}]
  /\ valid \in [Waiters -> BOOLEAN] /\ timeout \in [Waiters -> BOOLEAN]
  /\ ret \in [Waiters -> -1 .. 1]
  /\ spc \in [Setters -> {"idle", "set", "reset", "unlock"}]

(* create_event                                                            *)
EventInit ==
  /\ signal_state = FALSE /\ owner = NOBODY /\ asleep = {}
  /\ wpc = [w \in Waiters |-> "idle"]
  /\ valid = [w \in Waiters |-> TRUE]
  /\ timeout = [w \in Waiters |-> FALSE]
  /\ ret = [w \in Waiters |-> 0]
  /\ spc = [s \in Setters |-> "idle"]

-------------------------------------------------------------------------------
(* wait_event                                                              *)
tv_nsec(usec, ms) == usec * 1000 + (ms % 1000) * 1000000
valid_deadline(usec, ms) == tv_nsec(usec, ms) < 1000000000

W_Call(w) ==
  /\ wpc[w] = "idle"
  /\ \E usec \in Micros, ms \in Millis :
       valid' = [valid EXCEPT ![w] = valid_deadline(usec, ms)]
  /\ timeout' = [timeout EXCEPT ![w] = FALSE]
  /\ wpc' = [wpc EXCEPT ![w] = "lock"]
  /\ UNCHANGED <<signal_state, owner, asleep, ret, spc>>

W_Lock(w) ==
  /\ wpc[w] = "lock" /\ owner = NOBODY
  /\ owner' = w
  /\ wpc' = [wpc EXCEPT ![w] = "test"]
  /\ UNCHANGED <<signal_state, asleep, valid, timeout, ret, spc>>

(* The loop: leave it with the bit set, or let the mutex go and sleep.     *)
W_Test(w) ==
  /\ wpc[w] = "test"
  /\ IF signal_state
     THEN wpc' = [wpc EXCEPT ![w] = "take"] /\ UNCHANGED <<owner, asleep>>
     ELSE IF valid[w]
     THEN /\ wpc' = [wpc EXCEPT ![w] = "sleep"]
          /\ asleep' = asleep \cup {w}
          /\ owner' = NOBODY
     ELSE wpc' = [wpc EXCEPT ![w] = "fail"] /\ UNCHANGED <<owner, asleep>>
  /\ UNCHANGED <<signal_state, valid, timeout, ret, spc>>

(* Woken up, or out of time.                                               *)
W_Wake(w) ==
  /\ wpc[w] = "sleep" /\ w \notin asleep
  /\ wpc' = [wpc EXCEPT ![w] = "relock"]
  /\ UNCHANGED <<signal_state, owner, asleep, valid, timeout, ret, spc>>

W_Timeout(w) ==
  /\ wpc[w] = "sleep" /\ w \in asleep
  /\ asleep' = asleep \ {w}
  /\ timeout' = [timeout EXCEPT ![w] = TRUE]
  /\ wpc' = [wpc EXCEPT ![w] = "relock"]
  /\ UNCHANGED <<signal_state, owner, valid, ret, spc>>

W_Relock(w) ==
  /\ wpc[w] = "relock" /\ owner = NOBODY
  /\ owner' = w
  /\ wpc' = [wpc EXCEPT ![w] = IF timeout[w] THEN "take" ELSE "test"]
  /\ UNCHANGED <<signal_state, asleep, valid, timeout, ret, spc>>

(* Mutant: a wait that timed out clears the bit as well.                   *)
W_TakeAlways(w) ==
  /\ wpc[w] = "take"
  /\ signal_state' = (signal_state /\ ManualReset)
  /\ ret' = [ret EXCEPT ![w] = 0]
  /\ owner' = NOBODY
  /\ wpc' = [wpc EXCEPT ![w] = "idle"]
  /\ UNCHANGED <<asleep, valid, timeout, spc>>

(* Take the bit unless the wait timed out; the result is 0 either way.     *)
W_Take(w) ==
  /\ wpc[w] = "take"
  /\ signal_state' = (signal_state /\ (timeout[w] \/ ManualReset))
  /\ ret' = [ret EXCEPT ![w] = 0]
  /\ owner' = NOBODY
  /\ wpc' = [wpc EXCEPT ![w] = "idle"]
  /\ UNCHANGED <<asleep, valid, timeout, spc>>

W_Fail(w) ==
  /\ wpc[w] = "fail"
  /\ ret' = [ret EXCEPT ![w] = -1]
  /\ owner' = NOBODY
  /\ wpc' = [wpc EXCEPT ![w] = "idle"]
  /\ UNCHANGED <<signal_state, asleep, valid, timeout, spc>>

wait_event(w) ==
  W_Lock(w) \/ W_Test(w) \/ W_Wake(w) \/ W_Relock(w) \/ W_Take(w) \/ W_Fail(w)

-------------------------------------------------------------------------------
(* set_event and reset_event; both wake up a sleeper, or all of them when  *)
(* the event is reset by hand.                                             *)
S_Lock(s, op) ==
  /\ spc[s] = "idle" /\ owner = NOBODY
  /\ owner' = s
  /\ spc' = [spc EXCEPT ![s] = op]
  /\ UNCHANGED <<signal_state, asleep, wvars>>

(* Mutant: the sleepers are not woken.                                     *)
S_StoreSilent(s) ==
  /\ spc[s] \in {"set", "reset"}
  /\ signal_state' = (spc[s] = "set")
  /\ spc' = [spc EXCEPT ![s] = "unlock"]
  /\ UNCHANGED <<asleep, owner, wvars>>

S_Store(s) ==
  /\ spc[s] \in {"set", "reset"}
  /\ signal_state' = (spc[s] = "set")
  /\ IF asleep = {} \/ ManualReset
     THEN asleep' = {}
     ELSE \E w \in asleep : asleep' = asleep \ {w}
  /\ spc' = [spc EXCEPT ![s] = "unlock"]
  /\ UNCHANGED <<owner, wvars>>

S_Unlock(s) ==
  /\ spc[s] = "unlock"
  /\ owner' = NOBODY
  /\ spc' = [spc EXCEPT ![s] = "idle"]
  /\ UNCHANGED <<signal_state, asleep, wvars>>

set_event(s)   == S_Lock(s, "set")
reset_event(s) == S_Lock(s, "reset")

EventNext ==
  \/ \E w \in Waiters : W_Call(w) \/ W_Timeout(w) \/ wait_event(w)
  \/ \E s \in Setters : set_event(s) \/ reset_event(s) \/ S_Store(s) \/ S_Unlock(s)

EventSpec == EventInit /\ [][EventNext]_posixvars

-------------------------------------------------------------------------------
InWait(w) == wpc[w] # "idle"

(* Mutex, condition variable and bit together are an atomic event: exactly *)
(* one wait takes the bit of one set, and a wait that times out or fails   *)
(* leaves it to the others.  A wait that returns 0 took the bit or timed   *)
(* out, and its caller cannot tell which.                                  *)
Outcome(w) ==
  IF InWait(w) THEN "waiting"
  ELSE IF ret[w] = -1 THEN "failed" ELSE IF timeout[w] THEN "late" ELSE "taken"
Event == INSTANCE AutoResetEvent
           WITH signaled <- signal_state, outcome <- [w \in Waiters |-> Outcome(w)], result <- ret
ImplementsEvent == Event!Spec

(* What the comment on wait_event says of its result: 0 for a wait that    *)
(* succeeded, 1 for one that ran out of time (express_event.c:50).         *)
ResultTellsTimeout == \A w \in Waiters : ~InWait(w) => (timeout[w] <=> ret[w] = 1)

(* Only the thread that owns the mutex is between lock and unlock, so the  *)
(* bit is read and written by one thread at a time.                        *)
Critical(x) ==
  IF x \in Waiters THEN wpc[x] \in {"test", "take", "fail"} ELSE spc[x] \in {"set", "reset", "unlock"}
OwnerIsInside == \A x \in Waiters \cup Setters : Critical(x) <=> owner = x

(* A raised bit does not stay while somebody waits for it: set_event wakes *)
(* a sleeper up, and one that comes late sees the bit before it sleeps.    *)
SomebodyWaits == \E w \in Waiters : InWait(w) /\ valid[w]
SignalIsTaken == []<>(~signal_state \/ ~SomebodyWaits)
===============================================================================

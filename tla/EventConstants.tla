---------------------------- MODULE EventConstants ----------------------------
(***************************************************************************)
(* The parameters of an event (express_event.c): who waits for it and who  *)
(* sets it, how it was created, and when and for how long it is waited for. *)
(* A thread that does both has a name in each set.                         *)
(***************************************************************************)
EXTENDS Integers

CONSTANTS Waiters, Setters, NOBODY,
          ManualReset,       \* of create_event
          Micros, Millis     \* tv_usec at the call, and milliseconds

ASSUME ThreadsAssumption == Waiters \cap Setters = {} /\ NOBODY \notin Waiters \cup Setters
ASSUME ManualAssumption == ManualReset \in BOOLEAN
ASSUME TimesAssumption == \A usec \in Micros, ms \in Millis : {usec, ms} \subseteq Nat /\ usec < 1000000
===============================================================================

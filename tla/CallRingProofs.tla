---------------------------- MODULE CallRingProofs ----------------------------
(***************************************************************************)
(* Proofs about the ring of calls and the event its threads sleep on.      *)
(*                                                                         *)
(* The POSIX event (ExpressEvent) implements the atomic event, for any     *)
(* number of waiting and setting threads and any deadlines, on its own and *)
(* under the ring's use of it (CallRingEvent).                             *)
(*                                                                         *)
(* The call ring (CallRing), for every ring size and every set of calls:   *)
(* type correctness, the two "never happens" messages of call_push and     *)
(* call_pop, and that the ring is a bounded first-in first-out queue, also *)
(* when its events are those of express_event.c.                           *)
(***************************************************************************)
EXTENDS CallRingEvent, TLAPS

(* A thread that is about to take the bit and has not timed out finds it   *)
(* set: it holds the mutex since it tested the bit.                        *)
TakerSeesBit == \A w \in Waiters : wpc[w] = "take" /\ ~timeout[w] => signal_state

EventInv == EventTypeOK /\ OwnerIsInside /\ TakerSeesBit

(* The assumptions on the threads, in the form the steps use.              *)
LEMMA Distinct == /\ \A w \in Waiters : w \notin Setters /\ w # NOBODY
                  /\ \A s \in Setters : s \notin Waiters /\ s # NOBODY
BY ThreadsAssumption

(* create_event establishes the invariant.                                 *)
LEMMA InitEventInv == EventInit => EventInv
<1> SUFFICES ASSUME EventInit PROVE EventInv  OBVIOUS
<1>1. signal_state \in BOOLEAN  BY Zenon DEF EventInit
<1>2. valid \in [Waiters -> BOOLEAN] /\ timeout \in [Waiters -> BOOLEAN]  BY Zenon DEF EventInit
<1>3. asleep \in SUBSET Waiters  BY Zenon DEF EventInit
<1>4. EventTypeOK  BY <1>1, <1>2, <1>3 DEF EventInit, EventTypeOK
<1>5. OwnerIsInside  BY Distinct DEF EventInit, OwnerIsInside, Critical
<1>6. TakerSeesBit  BY DEF EventInit, TakerSeesBit
<1> QED  BY <1>4, <1>5, <1>6 DEF EventInv

(* Every step of a waiter keeps the types.                                 *)
LEMMA WaiterType ==
  ASSUME EventTypeOK, NEW w \in Waiters, W_Call(w) \/ W_Timeout(w) \/ wait_event(w)
  PROVE  EventTypeOK'
<1> USE DEF EventTypeOK
<1>1. CASE W_Call(w)
  <2>1. PICK usec \in Micros, ms \in Millis :
          valid' = [valid EXCEPT ![w] = valid_deadline(usec, ms)]
    BY <1>1, Zenon DEF W_Call
  <2>2. valid_deadline(usec, ms) \in BOOLEAN  BY SMT DEF valid_deadline
  <2>3. valid' \in [Waiters -> BOOLEAN]  BY <2>1, <2>2, Zenon
  <2>4. timeout' \in [Waiters -> BOOLEAN]  BY <1>1, Zenon DEF W_Call
  <2> QED  BY <1>1, <2>3, <2>4 DEF W_Call
<1>2. CASE W_Lock(w)     BY <1>2 DEF W_Lock
<1>3. CASE W_Test(w)     BY <1>3 DEF W_Test
<1>4. CASE W_Wake(w)     BY <1>4 DEF W_Wake
<1>5. CASE W_Timeout(w)
  <2>1. timeout' \in [Waiters -> BOOLEAN]  BY <1>5, Zenon DEF W_Timeout
  <2> QED  BY <1>5, <2>1 DEF W_Timeout
<1>6. CASE W_Relock(w)   BY <1>6 DEF W_Relock
<1>7. CASE W_Take(w)
  <2>1. signal_state' \in BOOLEAN  BY <1>7, Zenon DEF W_Take
  <2> QED  BY <1>7, <2>1 DEF W_Take
<1>8. CASE W_Fail(w)     BY <1>8 DEF W_Fail
<1> QED  BY <1>1, <1>2, <1>3, <1>4, <1>5, <1>6, <1>7, <1>8 DEF wait_event

(* ... and so does every step of a setter.                                 *)
LEMMA SetterType ==
  ASSUME EventTypeOK, NEW s \in Setters, set_event(s) \/ reset_event(s) \/ S_Store(s) \/ S_Unlock(s)
  PROVE  EventTypeOK'
<1> USE DEF EventTypeOK
<1>1. CASE set_event(s) \/ reset_event(s)  BY <1>1 DEF set_event, reset_event, S_Lock, wvars
<1>2. CASE S_Store(s)
  <2>1. signal_state' \in BOOLEAN  BY <1>2, Zenon DEF S_Store
  <2> QED  BY <1>2, <2>1 DEF S_Store, wvars
<1>3. CASE S_Unlock(s)  BY <1>3 DEF S_Unlock, wvars
<1> QED  BY <1>1, <1>2, <1>3

(* The mutex: whoever is between lock and unlock owns it.                  *)
LEMMA NextOwner == EventInv /\ [EventNext]_posixvars => OwnerIsInside'
<1> SUFFICES ASSUME EventInv, [EventNext]_posixvars PROVE OwnerIsInside'  OBVIOUS
<1> USE Distinct DEF EventInv, EventTypeOK, OwnerIsInside, Critical
<1>1. ASSUME NEW w \in Waiters, W_Call(w) \/ W_Timeout(w) \/ wait_event(w) PROVE OwnerIsInside'
  <2>1. CASE W_Call(w)     BY <2>1 DEF W_Call
  <2>2. CASE W_Lock(w)     BY <2>2 DEF W_Lock
  <2>3. CASE W_Test(w)     BY <2>3 DEF W_Test
  <2>4. CASE W_Wake(w)     BY <2>4 DEF W_Wake
  <2>5. CASE W_Timeout(w)  BY <2>5 DEF W_Timeout
  <2>6. CASE W_Relock(w)   BY <2>6 DEF W_Relock
  <2>7. CASE W_Take(w)     BY <2>7 DEF W_Take
  <2>8. CASE W_Fail(w)     BY <2>8 DEF W_Fail
  <2> QED  BY <1>1, <2>1, <2>2, <2>3, <2>4, <2>5, <2>6, <2>7, <2>8 DEF wait_event
<1>2. ASSUME NEW s \in Setters, set_event(s) \/ reset_event(s) \/ S_Store(s) \/ S_Unlock(s)
      PROVE  OwnerIsInside'
  <2>1. CASE set_event(s) \/ reset_event(s)  BY <2>1 DEF set_event, reset_event, S_Lock, wvars
  <2>2. CASE S_Store(s)   BY <2>2 DEF S_Store, wvars
  <2>3. CASE S_Unlock(s)  BY <2>3 DEF S_Unlock, wvars
  <2> QED  BY <1>2, <2>1, <2>2, <2>3
<1>3. CASE UNCHANGED posixvars  BY <1>3 DEF posixvars, evars, wvars
<1> QED  BY <1>1, <1>2, <1>3 DEF EventNext

(* The bit does not change between the test and the take.                  *)
LEMMA NextTaker == EventInv /\ [EventNext]_posixvars => TakerSeesBit'
<1> SUFFICES ASSUME EventInv, [EventNext]_posixvars PROVE TakerSeesBit'  OBVIOUS
<1> USE Distinct DEF EventInv, EventTypeOK, TakerSeesBit, OwnerIsInside, Critical
<1>1. ASSUME NEW w \in Waiters, W_Call(w) \/ W_Timeout(w) \/ wait_event(w) PROVE TakerSeesBit'
  <2>1. CASE W_Call(w)     BY <2>1 DEF W_Call
  <2>2. CASE W_Lock(w)     BY <2>2 DEF W_Lock
  <2>3. CASE W_Test(w)     BY <2>3 DEF W_Test
  <2>4. CASE W_Wake(w)     BY <2>4 DEF W_Wake
  <2>5. CASE W_Timeout(w)  BY <2>5 DEF W_Timeout
  <2>6. CASE W_Relock(w)   BY <2>6 DEF W_Relock
  <2>7. CASE W_Take(w)     BY <2>7 DEF W_Take
  <2>8. CASE W_Fail(w)     BY <2>8 DEF W_Fail
  <2> QED  BY <1>1, <2>1, <2>2, <2>3, <2>4, <2>5, <2>6, <2>7, <2>8 DEF wait_event
<1>2. ASSUME NEW s \in Setters, set_event(s) \/ reset_event(s) \/ S_Store(s) \/ S_Unlock(s)
      PROVE  TakerSeesBit'
  <2>1. CASE set_event(s) \/ reset_event(s)  BY <2>1 DEF set_event, reset_event, S_Lock, wvars
  <2>2. CASE S_Store(s)   BY <2>2 DEF S_Store, wvars
  <2>3. CASE S_Unlock(s)  BY <2>3 DEF S_Unlock, wvars
  <2> QED  BY <1>2, <2>1, <2>2, <2>3
<1>3. CASE UNCHANGED posixvars  BY <1>3 DEF posixvars, evars, wvars
<1> QED  BY <1>1, <1>2, <1>3 DEF EventNext

(* EventInv is inductive.                                                  *)
LEMMA NextEventInv == EventInv /\ [EventNext]_posixvars => EventInv'
<1> SUFFICES ASSUME EventInv, [EventNext]_posixvars PROVE EventTypeOK'
  BY NextOwner, NextTaker DEF EventInv
<1>1. CASE UNCHANGED posixvars  BY <1>1 DEF EventInv, EventTypeOK, posixvars, evars, wvars
<1>2. CASE EventNext  BY <1>2, WaiterType, SetterType DEF EventNext, EventInv
<1> QED  BY <1>1, <1>2

(* All variables of the event keep their types, and the mutex excludes,    *)
(* for any number of threads.                                              *)
THEOREM EventSafe == EventSpec => [](EventTypeOK /\ OwnerIsInside)
<1>1. EventInv => EventTypeOK /\ OwnerIsInside  BY DEF EventInv
<1> QED  BY <1>1, InitEventInv, NextEventInv, PTL DEF EventSpec

-------------------------------------------------------------------------------
(* The refinement.  One waiter's variables change at a time: the mapped    *)
(* outcome is changed at that waiter, or not at all.                       *)
Outcomes == [w \in Waiters |-> Outcome(w)]

LEMMA OneOutcome ==
  ASSUME NEW w \in Waiters, NEW o,
         \A v \in Waiters \ {w} : Outcome(v)' = Outcome(v),
         Outcome(w)' = o
  PROVE  Outcomes' = [Outcomes EXCEPT ![w] = o]
BY Zenon DEF Outcomes

LEMMA SameOutcome ==
  ASSUME \A v \in Waiters : Outcome(v)' = Outcome(v)
  PROVE  Outcomes' = Outcomes
BY DEF Outcomes

(* W_Call begins a wait, W_Take and W_Fail end it, the others do nothing   *)
(* the user of the event can see.                                          *)
LEMMA WaiterRefines ==
  ASSUME EventInv, NEW w \in Waiters, W_Call(w) \/ W_Timeout(w) \/ wait_event(w)
  PROVE  [Event!Next]_<<signal_state, Outcomes, ret>>
<1> USE DEF EventInv, EventTypeOK
<1>1. CASE W_Call(w)
  <2>1. \A v \in Waiters \ {w} : Outcome(v)' = Outcome(v)  BY <1>1 DEF W_Call, Outcome, InWait
  <2>2. Outcome(w)' = "waiting" /\ Outcome(w) # "waiting"  BY <1>1 DEF W_Call, Outcome, InWait
  <2>3. Outcomes' = [Outcomes EXCEPT ![w] = "waiting"]  BY <2>1, <2>2, OneOutcome
  <2>4. Event!Begin(w)  BY <1>1, <2>2, <2>3 DEF W_Call, Event!Begin, Outcomes
  <2> QED  BY <2>4 DEF Event!Next
<1>2. CASE W_Take(w)
  <2>1. \A v \in Waiters \ {w} : Outcome(v)' = Outcome(v)  BY <1>2 DEF W_Take, Outcome, InWait
  <2>2. Outcome(w) = "waiting"  BY <1>2 DEF W_Take, Outcome, InWait
  <2>5. ret' = [ret EXCEPT ![w] = 0]  BY <1>2 DEF W_Take
  <2>3. CASE ~timeout[w]
    <3>1. Outcome(w)' = "taken"  BY <1>2, <2>3 DEF W_Take, Outcome, InWait
    <3>2. Outcomes' = [Outcomes EXCEPT ![w] = "taken"]  BY <2>1, <3>1, OneOutcome
    <3>3. signal_state  BY <1>2, <2>3 DEF W_Take, TakerSeesBit
    <3>4. signal_state' = ManualReset  BY <1>2, <2>3, <3>3, ManualAssumption, Zenon DEF W_Take
    <3>5. Event!Take(w)  BY <2>2, <2>5, <3>2, <3>3, <3>4 DEF Event!Take, Event!Ends, Outcomes
    <3> QED  BY <3>5 DEF Event!Next
  <2>4. CASE timeout[w]
    <3>1. Outcome(w)' = "late"  BY <1>2, <2>4 DEF W_Take, Outcome, InWait
    <3>2. Outcomes' = [Outcomes EXCEPT ![w] = "late"]  BY <2>1, <3>1, OneOutcome
    <3>3. signal_state' = signal_state  BY <1>2, <2>4, Zenon DEF W_Take
    <3>4. Event!TimesOut(w)  BY <2>2, <2>5, <3>2, <3>3 DEF Event!TimesOut, Event!Ends, Outcomes
    <3> QED  BY <3>4 DEF Event!Next
  <2> QED  BY <2>3, <2>4
<1>3. CASE W_Fail(w)
  <2>1. \A v \in Waiters \ {w} : Outcome(v)' = Outcome(v)  BY <1>3 DEF W_Fail, Outcome, InWait
  <2>2. Outcome(w) = "waiting" /\ Outcome(w)' = "failed"  BY <1>3 DEF W_Fail, Outcome, InWait
  <2>3. Outcomes' = [Outcomes EXCEPT ![w] = "failed"]  BY <2>1, <2>2, OneOutcome
  <2>4. Event!Fails(w)  BY <1>3, <2>2, <2>3 DEF W_Fail, Event!Fails, Event!Ends, Outcomes
  <2> QED  BY <2>4 DEF Event!Next
<1>4. CASE W_Lock(w) \/ W_Test(w) \/ W_Wake(w) \/ W_Timeout(w) \/ W_Relock(w)
  <2>2. UNCHANGED <<signal_state, ret>>  BY <1>4 DEF W_Lock, W_Test, W_Wake, W_Timeout, W_Relock
  <2>3. ASSUME NEW v \in Waiters PROVE InWait(v)' = InWait(v) /\ (InWait(v) \/ timeout[v]' = timeout[v])
    BY <1>4 DEF W_Lock, W_Test, W_Wake, W_Timeout, W_Relock, InWait
  <2>1. \A v \in Waiters : Outcome(v)' = Outcome(v)
    BY <2>2, <2>3 DEF Outcome
  <2> QED  BY <2>1, <2>2, SameOutcome
<1> QED  BY <1>1, <1>2, <1>3, <1>4 DEF wait_event

(* The store of set_event or reset_event is the atomic set or reset.       *)
LEMMA SetterRefines ==
  ASSUME EventInv, NEW s \in Setters, set_event(s) \/ reset_event(s) \/ S_Store(s) \/ S_Unlock(s)
  PROVE  [Event!Next]_<<signal_state, Outcomes, ret>>
<1>0. UNCHANGED <<wpc, timeout, ret>>
  BY DEF set_event, reset_event, S_Lock, S_Store, S_Unlock, wvars
<1>1. \A v \in Waiters : Outcome(v)' = Outcome(v)
  BY <1>0, Zenon DEF Outcome, InWait
<1>2. UNCHANGED <<Outcomes, ret>>
  BY <1>0, <1>1, SameOutcome
<1>3. CASE S_Store(s)
  <2>1. CASE spc[s] = "set"
    <3>1. signal_state' = TRUE  BY <1>3, <2>1, Zenon DEF S_Store
    <3>2. Event!Set  BY <3>1, <1>2 DEF Event!Set, Outcomes
    <3> QED  BY <3>2 DEF Event!Next
  <2>2. CASE spc[s] = "reset"
    <3>1. signal_state' = FALSE  BY <1>3, <2>2, Zenon DEF S_Store
    <3>2. Event!Reset  BY <3>1, <1>2 DEF Event!Reset, Outcomes
    <3> QED  BY <3>2 DEF Event!Next
  <2> QED  BY <1>3, <2>1, <2>2 DEF S_Store
<1>4. CASE set_event(s) \/ reset_event(s) \/ S_Unlock(s)
  <2>1. signal_state' = signal_state  BY <1>4 DEF set_event, reset_event, S_Lock, S_Unlock
  <2> QED  BY <2>1, <1>2
<1> QED  BY <1>3, <1>4

LEMMA InitRefines == EventInit => Event!Init
<1> SUFFICES ASSUME EventInit PROVE Event!Init  OBVIOUS
<1>1. \A w \in Waiters : Outcome(w) = "taken"  BY DEF EventInit, Outcome, InWait
<1> QED  BY <1>1 DEF EventInit, Event!Init

LEMMA NextRefines == EventInv /\ [EventNext]_posixvars => [Event!Next]_<<signal_state, Outcomes, ret>>
<1> SUFFICES ASSUME EventInv, [EventNext]_posixvars PROVE [Event!Next]_<<signal_state, Outcomes, ret>>  OBVIOUS
<1>1. CASE EventNext  BY <1>1, WaiterRefines, SetterRefines DEF EventNext
<1>2. CASE UNCHANGED posixvars
  <2>1. \A v \in Waiters : Outcome(v)' = Outcome(v)  BY <1>2 DEF posixvars, evars, wvars, Outcome, InWait
  <2> QED  BY <1>2, <2>1, SameOutcome DEF posixvars, evars, wvars
<1> QED  BY <1>1, <1>2

(* A mutex, a condition variable and a bit behave as one atomic bit for    *)
(* the users of wait_event, set_event and reset_event: no signal is taken  *)
(* twice, and none is swallowed by a wait that timed out (with result 0)   *)
(* or failed (with -1).                                                    *)
THEOREM EventIsAtomic == EventSpec => ImplementsEvent
BY InitEventInv, NextEventInv, InitRefines, NextRefines, PTL
   DEF EventSpec, ImplementsEvent, Event!Spec, Outcomes

(* Under the ring, a step of D or of H is a step of the event, or leaves   *)
(* it alone.                                                               *)
LEMMA EventSteps == [RingNext]_allvars => [EventNext]_posixvars
<1> SUFFICES ASSUME [RingNext]_allvars PROVE [EventNext]_posixvars
  OBVIOUS
<1>1. ASSUME NEW w \in Waiters, Waits(w) \/ Returns(w) \/ TimesOut(w) PROVE EventNext
  BY <1>1 DEF Waits, Returns, TimesOut, EventNext, wait_event
<1>2. ASSUME NEW s \in Setters, Sets(s) \/ S_Store(s) PROVE EventNext
  BY <1>2 DEF Sets, EventNext, set_event
<1>3. /\ "D" \in Waiters /\ "H" \in Waiters
      /\ "D_set" \in Setters /\ "H_set" \in Setters
  BY RolesAssumption
<1>4. CASE D_InWait \/ D_Returns \/ D_InSet \/ D_Stores
  BY <1>1, <1>2, <1>3, <1>4 DEF D_InWait, D_Returns, D_InSet, D_Stores
<1>5. CASE H_InWait \/ H_Returns \/ H_InSet \/ H_Stores
  BY <1>1, <1>2, <1>3, <1>5 DEF H_InWait, H_Returns, H_InSet, H_Stores
<1>6. CASE D_Step
  BY <1>6 DEF D_Step, D_Full, D_Stop, D_Store, D_Publish, posixvars
<1>7. CASE H_Step
  BY <1>7, Zenon DEF H_Step, H_Init, H_Loop, H_Empty, H_Stop, H_Take, H_Clear, H_Advance,
     H_Dispatch, H_Delete, H_Free, posixvars
<1>8. ASSUME NEW c \in Calls, NEW last \in BOOLEAN, D_Pushes(c, last) PROVE UNCHANGED posixvars
  BY <1>8 DEF D_Pushes, push_to_thread, posixvars
<1>9. ASSUME Shutdown, UNCHANGED evars PROVE UNCHANGED posixvars
  BY <1>9 DEF Shutdown, posixvars
<1>10. CASE UNCHANGED allvars
  BY <1>10 DEF allvars, vars, posixvars
<1> QED  BY <1>1, <1>4, <1>5, <1>6, <1>7, <1>8, <1>9, <1>10 DEF RingNext

(* wait_event and set_event act as one atomic bit also under the ring's    *)
(* use, in which D and H each wait for data_event and set it.              *)
THEOREM RingKeepsEvent == RingSpec => ImplementsEvent
<1>1. RingInit => EventInit
  BY DEF RingInit
<1>2. RingSpec => EventSpec
  BY <1>1, EventSteps, PTL DEF RingSpec, EventSpec
<1> QED  BY <1>2, EventIsAtomic

-------------------------------------------------------------------------------
(* The call ring.                                                          *)

(* The code's modular increment is After(l, 1): from here on the proofs    *)
(* need linear arithmetic only.                                            *)
LEMMA NextLoc ==
  ASSUME NEW l \in Locs
  PROVE  /\ (l + 1) % CallBufSize = After(l, 1)
         /\ After(l, 1) \in Locs
BY CallBufSizeAssumption DEF Locs, After

(* The slots between read_loc and write_loc.                               *)
Occupied(i) == Span(read_loc, i) < Span(read_loc, write_loc)

(* Which slots hold a call: the occupied ones, but for the one call_pop    *)
(* has cleared without advancing yet, and the one call_push has stored     *)
(* without publishing it yet.                                              *)
SlotsInv ==
  \A i \in Locs :
    call_buf[i] # NULL <=> \/ Occupied(i) /\ ~(hpc = "advance" /\ i = read_loc)
                           \/ dpc = "publish" /\ i = write_loc

(* What a thread has tested stays true until it acts on it: the other      *)
(* thread only ever moves its own index away.                              *)
TestsInv ==
  /\ dpc \in {"store", "publish"} => After(write_loc, 1) # read_loc
  /\ hpc \in {"take", "clear", "advance"} => write_loc # read_loc
  /\ dpc # "idle" => dcall \in Calls
  /\ dpc = "publish" => call_buf[write_loc] = dcall
  /\ hpc \in {"clear", "advance", "set", "dispatch"} => hcall \in Calls

Inv == TypeOK /\ SlotsInv /\ TestsInv

-------------------------------------------------------------------------------
LEMMA InitInv == Init => Inv
<1> SUFFICES ASSUME Init PROVE Inv
  OBVIOUS
<1>1. TypeOK
  <2>1. 0 \in Locs
    BY CallBufSizeAssumption DEF Locs
  <2>2. call_buf \in [Locs -> Calls \cup {NULL}]
    BY DEF Init
  <2>3. is_end \in SUBSET Calls /\ idle \in SUBSET Calls
    BY Zenon DEF Init
  <2>4. signal_state \in BOOLEAN /\ should_stop \in BOOLEAN /\ registered \in BOOLEAN
    BY Zenon DEF Init
  <2> QED
    BY <2>1, <2>2, <2>3, <2>4 DEF Init, TypeOK, DLocs, HLocs
<1>2. SlotsInv
  BY DEF Init, SlotsInv, Occupied, Span, Locs
<1>3. TestsInv
  BY DEF Init, TestsInv
<1> QED BY <1>1, <1>2, <1>3 DEF Inv

(* Type correctness: every step keeps both indices inside the ring.        *)
LEMMA NextTypeOK == TypeOK /\ TestsInv /\ [Next]_vars => TypeOK'
<1> SUFFICES ASSUME TypeOK, TestsInv, [Next]_vars PROVE TypeOK'
  OBVIOUS
<1> USE DEF TypeOK, DLocs, HLocs
<1>1. ASSUME NEW c \in Calls, NEW last \in BOOLEAN, push_to_thread(c, last) PROVE TypeOK'
  BY <1>1 DEF push_to_thread, ring, life, dvars, hvars
<1>2. CASE D_Full
  BY <1>2 DEF D_Full, ring, life, dvars, hvars
<1>3. CASE D_Wait \/ D_WaitFails
  BY <1>3, ZenonT(30) DEF D_Wait, D_WaitFails, TakesSignal, WaitFails, ring, life, dvars, hvars
<1>4. CASE D_Stop
  BY <1>4 DEF D_Stop, ring, life, dvars, hvars
<1>5. CASE D_Store
  BY <1>5 DEF D_Store, ring, life, dvars, hvars
<1>6. CASE D_Publish
  BY <1>6, NextLoc DEF D_Publish, ring, life, dvars, hvars
<1>7. CASE D_Set
  BY <1>7 DEF D_Set, ring, life, dvars, hvars
<1>8. CASE H_Init \/ H_Loop
  BY <1>8 DEF H_Init, H_Loop, ring, life, dvars, hvars
<1>9. CASE H_Empty \/ H_Stop
  BY <1>9 DEF H_Empty, H_Stop, ring, life, dvars, hvars
<1>10. CASE H_Wait \/ H_WaitFails
  BY <1>10, ZenonT(30) DEF H_Wait, H_WaitFails, TakesSignal, WaitFails, ring, life, dvars, hvars
<1>11. CASE H_Take
  BY <1>11 DEF H_Take, ring, life, dvars, hvars
<1>12. CASE H_Clear
  BY <1>12 DEF H_Clear, ring, life, dvars, hvars
<1>13. CASE H_Advance
  BY <1>13, NextLoc DEF H_Advance, ring, life, dvars, hvars
<1>14. CASE H_Set
  BY <1>14 DEF H_Set, ring, life, dvars, hvars
<1>15. CASE H_Dispatch
  BY <1>15 DEF H_Dispatch, TestsInv, ring, life, dvars, hvars
<1>16. CASE H_Delete \/ H_Free
  BY <1>16 DEF H_Delete, H_Free, ring, life, dvars, hvars
<1>17. CASE Shutdown
  BY <1>17 DEF Shutdown, ring, life, dvars, hvars
<1>18. CASE UNCHANGED vars
  BY <1>18, SMTT(20), Zenon DEF vars, ring, life, dvars, hvars
<1> QED
  BY <1>1, <1>2, <1>3, <1>4, <1>5, <1>6, <1>7, <1>8, <1>9, <1>10, <1>11, <1>12, <1>13,
     <1>14, <1>15, <1>16, <1>17, <1>18, Zenon DEF Next, call_push, call_pop, handle_thread_run
(* Only the steps that move an index or enter a tested state can disturb   *)
(* TestsInv.                                                               *)
LEMMA NextTestsInv == Inv /\ [Next]_vars => TestsInv'
<1> SUFFICES ASSUME Inv, [Next]_vars PROVE TestsInv'
  OBVIOUS
<1> USE DEF Inv, TypeOK, TestsInv
<1>1. ASSUME NEW c \in Calls, NEW last \in BOOLEAN, push_to_thread(c, last) PROVE TestsInv'
  BY <1>1 DEF push_to_thread, ring, hvars
<1>2. CASE D_Full
  BY <1>2, NextLoc DEF D_Full, IsFull, ring, hvars
<1>3. CASE D_Wait \/ D_WaitFails
  BY <1>3 DEF D_Wait, D_WaitFails, ring, hvars
<1>4. CASE D_Stop
  BY <1>4 DEF D_Stop, ring, hvars
<1>5. CASE D_Store
  BY <1>5 DEF D_Store, hvars
<1>6. CASE D_Publish
  BY <1>6, NextLoc, CallBufSizeAssumption DEF D_Publish, hvars, After, Locs
<1>7. CASE D_Set
  BY <1>7 DEF D_Set, ring, hvars
<1>8. CASE H_Init \/ H_Loop
  BY <1>8 DEF H_Init, H_Loop, ring, dvars
<1>9. CASE H_Empty \/ H_Stop
  BY <1>9 DEF H_Empty, IsEmpty, H_Stop, ring, dvars
<1>10. CASE H_Wait \/ H_WaitFails
  BY <1>10 DEF H_Wait, H_WaitFails, ring, dvars
<1>11. CASE H_Take
  BY <1>11 DEF H_Take, ring, dvars
<1>12. CASE H_Clear
  BY <1>12 DEF H_Clear, dvars
<1>13. CASE H_Advance
  BY <1>13, NextLoc, CallBufSizeAssumption DEF H_Advance, dvars, After, Locs
<1>14. CASE H_Set
  BY <1>14 DEF H_Set, ring, dvars
<1>15. CASE H_Dispatch
  BY <1>15 DEF H_Dispatch, ring, dvars
<1>16. CASE H_Delete \/ H_Free
  BY <1>16 DEF H_Delete, H_Free, ring, dvars
<1>17. CASE Shutdown
  BY <1>17 DEF Shutdown, ring, dvars, hvars
<1>18. CASE UNCHANGED vars
  BY <1>18 DEF vars, ring, dvars, hvars
<1> QED
  BY <1>1, <1>2, <1>3, <1>4, <1>5, <1>6, <1>7, <1>8, <1>9, <1>10, <1>11, <1>12, <1>13,
     <1>14, <1>15, <1>16, <1>17, <1>18, Zenon DEF Next, call_push, call_pop, handle_thread_run

(* SlotsInv changes with the two stores, the two moves of an index, and    *)
(* the two program counters it mentions.                                   *)
LEMMA NextSlotsInv == Inv /\ [Next]_vars => SlotsInv'
<1> SUFFICES ASSUME Inv, [Next]_vars PROVE SlotsInv'
  OBVIOUS
<1> USE DEF Inv, SlotsInv, Occupied
<1>1. ASSUME UNCHANGED ring, dpc' # "publish", dpc # "publish",
             hpc' # "advance", hpc # "advance"
      PROVE  SlotsInv'
  BY <1>1 DEF ring, Span
<1>2. ASSUME UNCHANGED ring, UNCHANGED dpc, hpc' # "advance", hpc # "advance"
      PROVE  SlotsInv'
  BY <1>2 DEF ring, Span
<1>3. ASSUME UNCHANGED ring, UNCHANGED hpc, dpc' # "publish", dpc # "publish"
      PROVE  SlotsInv'
  BY <1>3 DEF ring, Span
<1>4. CASE D_Store
  <2>1. ~Occupied(write_loc) /\ write_loc \in Locs
    BY <1>4, CallBufSizeAssumption DEF D_Store, TypeOK, Locs, Span
  <2> QED
    BY <1>4, <2>1, NullAssumption DEF D_Store, TypeOK, TestsInv, hvars, Locs, Span
<1>5. CASE D_Publish
  <2>1. write_loc' = After(write_loc, 1) /\ write_loc \in Locs /\ read_loc \in Locs
    BY <1>5, NextLoc DEF D_Publish, TypeOK
  <2>2. After(write_loc, 1) # read_loc
    BY <1>5 DEF D_Publish, TestsInv
  <2>3. \A i \in Locs : Occupied(i)' <=> Occupied(i) \/ i = write_loc
    BY <1>5, <2>1, <2>2, CallBufSizeAssumption DEF D_Publish, Locs, Span, After
  <2>4. write_loc = read_loc => hpc # "advance"
    BY DEF TestsInv
  <2> QED
    BY <1>5, <2>3, <2>4 DEF D_Publish, hvars
<1>6. CASE H_Clear
  <2>1. read_loc \in Locs /\ write_loc \in Locs /\ write_loc # read_loc
    BY <1>6 DEF H_Clear, TypeOK, TestsInv
  <2>2. Occupied(read_loc)
    BY <2>1, CallBufSizeAssumption DEF Locs, Span
  <2> QED
    BY <1>6, <2>1, <2>2 DEF H_Clear, TypeOK, dvars, Span
<1>7. CASE H_Advance
  <2>1. read_loc' = After(read_loc, 1) /\ write_loc \in Locs /\ read_loc \in Locs
    BY <1>7, NextLoc DEF H_Advance, TypeOK
  <2>2. write_loc # read_loc
    BY <1>7 DEF H_Advance, TestsInv
  <2>3. \A i \in Locs : Occupied(i)' <=> Occupied(i) /\ i # read_loc
    BY <1>7, <2>1, <2>2, CallBufSizeAssumption DEF H_Advance, Locs, Span, After
  <2> QED
    BY <1>7, <2>2, <2>3 DEF H_Advance, dvars
<1>8. ASSUME NEW c \in Calls, NEW last \in BOOLEAN, push_to_thread(c, last) PROVE SlotsInv'
  BY <1>3, <1>8 DEF push_to_thread, hvars
<1>9. CASE D_Full \/ D_Wait \/ D_WaitFails \/ D_Stop \/ D_Set
  BY <1>3, <1>9 DEF D_Full, D_Wait, D_WaitFails, D_Stop, D_Set, hvars
<1>10. CASE H_Init \/ H_Loop \/ H_Empty \/ H_Wait \/ H_WaitFails \/ H_Stop
  BY <1>2, <1>10 DEF H_Init, H_Loop, H_Empty, H_Wait, H_WaitFails, H_Stop, dvars
<1>11. CASE H_Take \/ H_Set \/ H_Dispatch \/ H_Delete \/ H_Free
  BY <1>2, <1>11 DEF H_Take, H_Set, H_Dispatch, H_Delete, H_Free, dvars
<1>12. CASE Shutdown \/ UNCHANGED vars
  BY <1>12 DEF Shutdown, vars, ring, dvars, hvars, Span
<1> QED
  BY <1>4, <1>5, <1>6, <1>7, <1>8, <1>9, <1>10, <1>11, <1>12
     DEF Next, call_push, call_pop, handle_thread_run

(* The inductive invariant.                                                *)
THEOREM Invariance == Spec => []Inv
<1>1. Init => Inv
  BY InitInv
<1>2. Inv /\ [Next]_vars => Inv'
  BY NextTypeOK, NextTestsInv, NextSlotsInv DEF Inv
<1> QED
  BY <1>1, <1>2, PTL DEF Spec

-------------------------------------------------------------------------------
(* TypeOK holds in every reachable state of CallRing.                      *)
THEOREM TypeCorrect == Spec => []TypeOK
<1>1. Inv => TypeOK
  BY DEF Inv
<1> QED
  BY <1>1, Invariance, PTL

(* call_push never overwrites a queued call.                               *)
THEOREM NoOverwrite == Spec => []PushFindsFreeSlot
<1>1. Inv => PushFindsFreeSlot
  BY CallBufSizeAssumption DEF Inv, TypeOK, SlotsInv, Occupied, Span, Locs, PushFindsFreeSlot
<1> QED
  BY <1>1, Invariance, PTL

(* call_pop never finds an empty slot in a ring that is not empty.         *)
THEOREM NoEmptyCall == Spec => []PopFindsCall
<1>1. Inv => PopFindsCall
  <2> SUFFICES ASSUME Inv, hpc = "take" PROVE call_buf[read_loc] # NULL
    BY DEF PopFindsCall
  <2>1. read_loc \in Locs /\ write_loc \in Locs /\ write_loc # read_loc
    BY DEF Inv, TypeOK, TestsInv
  <2>2. Occupied(read_loc)
    BY <2>1, CallBufSizeAssumption DEF Occupied, Span, Locs
  <2> QED
    BY <2>1, <2>2 DEF Inv, SlotsInv
<1> QED
  BY <1>1, Invariance, PTL

-------------------------------------------------------------------------------
(* The end of a context.  A call in flight is in one place: on its way     *)
(* into the ring, in one slot, or with H; only then can it not be issued   *)
(* again, and the is_end mark mean something.                              *)
Pushes == dpc \in {"full?", "wait", "stop?", "store"}
Holds  == hpc \in {"clear", "advance", "set", "dispatch"}

FlightInv ==
  /\ \A i \in Locs : call_buf[i] \notin idle
  /\ \A i, j \in Locs : call_buf[i] = call_buf[j] /\ call_buf[i] # NULL => i = j
  /\ Pushes => dcall \notin idle /\ \A i \in Locs : call_buf[i] # dcall
  /\ Holds => hcall \notin idle /\ \A i \in Locs : call_buf[i] = hcall => hpc = "clear" /\ i = read_loc
  /\ Pushes /\ Holds => dcall # hcall

(* The one is_end call is the last one: nothing is pushed or queued behind *)
(* it, and H has emptied the ring when it gets to it.                      *)
EndInv ==
  /\ registered => is_end = {}
  /\ \A c, d \in is_end : c = d
  /\ dpc # "idle" /\ ~registered => dcall \in is_end
  /\ \A i \in Locs : call_buf[i] \in is_end /\ dpc \in {"idle", "set"} => After(i, 1) = write_loc
  /\ hcall \in is_end =>
       /\ Holds => dpc \in {"idle", "set"}
       /\ hpc \in {"clear", "advance"} => After(read_loc, 1) = write_loc
       /\ hpc \in {"set", "dispatch"} => read_loc = write_loc
  /\ thread_run = 0 => /\ ~registered /\ read_loc = write_loc
                       /\ dpc \in {"idle", "set"}
                       /\ hpc \in {"loop", "delete", "free", "done"}
  /\ hpc \in {"delete", "free", "done"} \/ memory # "live" => thread_run = 0

(* Both hold at first: nothing is in flight and no call is marked.         *)
LEMMA InitEndInv == Init => FlightInv /\ EndInv
<1>1. Init => FlightInv
  BY NullAssumption DEF Init, FlightInv, Pushes, Holds
<1>2. Init => EndInv
  BY DEF Init, EndInv, Holds
<1> QED  BY <1>1, <1>2

(* A call changes its place in push_to_thread, D_Store, H_Take, H_Clear    *)
(* and H_Dispatch.                                                         *)
LEMMA NextFlightInv == Inv /\ FlightInv /\ [Next]_vars => FlightInv'
<1> SUFFICES ASSUME Inv, FlightInv, [Next]_vars PROVE FlightInv'
  OBVIOUS
<1> USE DEF FlightInv, Pushes, Holds
<1>t. /\ call_buf \in [Locs -> Calls \cup {NULL}] /\ idle \in SUBSET Calls
      /\ read_loc \in Locs /\ write_loc \in Locs
  BY DEF Inv, TypeOK
<1>1. ASSUME NEW c \in Calls, NEW last \in BOOLEAN, push_to_thread(c, last) PROVE FlightInv'
  BY <1>1, <1>t DEF push_to_thread, ring, hvars
<1>2. CASE D_Full \/ D_Wait \/ D_WaitFails \/ D_Stop
  BY <1>2 DEF D_Full, D_Wait, D_WaitFails, D_Stop, ring, hvars
<1>3. CASE D_Store
  BY <1>3, <1>t DEF D_Store, hvars
<1>4. CASE D_Publish \/ D_Set
  BY <1>4 DEF D_Publish, D_Set, ring, hvars
<1>5. CASE H_Init \/ H_Loop \/ H_Empty \/ H_Stop \/ H_Wait \/ H_WaitFails
  BY <1>5 DEF H_Init, H_Loop, H_Empty, H_Stop, H_Wait, H_WaitFails, ring, dvars
<1>6. CASE H_Take
  BY <1>6, <1>t DEF H_Take, ring, dvars
<1>7. CASE H_Clear
  <2>1. hcall # NULL
    BY <1>7, NullAssumption DEF H_Clear, Inv, TestsInv
  <2>2. Pushes => dcall # NULL
    BY NullAssumption DEF Inv, TestsInv
  <2> QED
    BY <1>7, <1>t, <2>1, <2>2, NullAssumption DEF H_Clear, dvars
<1>8. CASE H_Advance \/ H_Set
  BY <1>8 DEF H_Advance, H_Set, ring, dvars
<1>9. CASE H_Dispatch
  BY <1>9, <1>t DEF H_Dispatch, ring, dvars
<1>10. CASE H_Delete \/ H_Free \/ Shutdown \/ UNCHANGED vars
  BY <1>10 DEF H_Delete, H_Free, Shutdown, vars, ring, dvars, hvars
<1> QED
  BY <1>1, <1>2, <1>3, <1>4, <1>5, <1>6, <1>7, <1>8, <1>9, <1>10, Zenon
     DEF Next, call_push, call_pop, handle_thread_run

(* Once a call is marked nothing else is pushed, so that it stays the last *)
(* one from D to H.                                                        *)
LEMMA NextEndInv == Inv /\ FlightInv /\ EndInv /\ [Next]_vars => EndInv'
<1> SUFFICES ASSUME Inv, FlightInv, EndInv, [Next]_vars PROVE EndInv'
  OBVIOUS
<1> USE DEF EndInv, Holds
<1>t. /\ call_buf \in [Locs -> Calls \cup {NULL}] /\ idle \in SUBSET Calls
      /\ read_loc \in Locs /\ write_loc \in Locs /\ is_end \in SUBSET Calls
      /\ registered \in BOOLEAN
  BY DEF Inv, TypeOK
<1>s. dpc \in DLocs /\ hpc \in HLocs
  BY DEF Inv, TypeOK
<1>1. ASSUME NEW c \in Calls, NEW last \in BOOLEAN, push_to_thread(c, last) PROVE EndInv'
  <2>1. \A i \in Locs : call_buf[i] # c
    BY <1>1, <1>t DEF push_to_thread, FlightInv
  <2>2. Holds => hcall # c
    BY <1>1 DEF push_to_thread, FlightInv
  <2>3. CASE last
    BY <1>1, <2>1, <2>2, <2>3, Zenon DEF push_to_thread, ring, life, hvars
  <2>4. CASE ~last
    BY <1>1, <2>1, <2>2, <2>4, Zenon DEF push_to_thread, ring, life, hvars
  <2> QED  BY <2>3, <2>4
<1>2. CASE D_Full \/ D_Wait \/ D_WaitFails
  BY <1>2 DEF D_Full, D_Wait, D_WaitFails, ring, life, hvars
<1>3. CASE D_Stop
  <2>1. \A i \in Locs : call_buf[i] \notin is_end
    BY <1>3 DEF D_Stop, FlightInv, Pushes
  <2> QED
    BY <1>3, <2>1 DEF D_Stop, ring, life, hvars
<1>4. CASE D_Store
  BY <1>4 DEF D_Store, life, hvars
<1>5. CASE D_Publish
  <2>1. call_buf[write_loc] = dcall /\ dcall # NULL
    BY <1>5, NullAssumption DEF D_Publish, Inv, TestsInv
  <2>2. \A i \in Locs : call_buf[i] \in is_end => i = write_loc
    BY <1>5, <1>t, <2>1 DEF D_Publish, FlightInv
  <2>3. write_loc' = After(write_loc, 1)
    BY <1>5, <1>t, NextLoc DEF D_Publish
  <2> QED
    BY <1>5, <2>2, <2>3 DEF D_Publish, life, hvars
<1>6. CASE D_Set
  BY <1>6, SMTT(20) DEF D_Set, ring, life, hvars
<1>7. CASE H_Init \/ H_Loop \/ H_Empty \/ H_Stop \/ H_Wait \/ H_WaitFails
  <2>1. UNCHANGED <<ring, dvars>>
    BY <1>7, Zenon DEF H_Init, H_Loop, H_Empty, H_Stop, H_Wait, H_WaitFails
  <2>2. CASE H_Init \/ H_Loop \/ H_Empty
    BY <2>1, <2>2 DEF H_Init, H_Loop, H_Empty, ring, life, dvars
  <2>3. CASE H_Stop \/ H_Wait \/ H_WaitFails
    BY <2>1, <2>3 DEF H_Stop, H_Wait, H_WaitFails, ring, life, dvars
  <2> QED  BY <1>7, <2>2, <2>3
<1>8. CASE H_Take
  <2>1. call_buf[read_loc] \in is_end => dpc \in {"idle", "set"}
    <3>1. ASSUME call_buf[read_loc] \in is_end, dpc = "publish" PROVE FALSE
      <4>1. call_buf[write_loc] = dcall /\ dcall # NULL
        BY <3>1, NullAssumption DEF Inv, TestsInv
      <4>2. read_loc = write_loc
        BY <1>t, <3>1, <4>1 DEF FlightInv
      <4> QED
        BY <1>8, <4>2 DEF H_Take, Inv, TestsInv
    <3>2. ASSUME call_buf[read_loc] \in is_end, Pushes PROVE FALSE
      BY <1>t, <3>2 DEF FlightInv, Pushes
    <3> QED  BY <1>s, <3>1, <3>2 DEF DLocs, Pushes
  <2> QED
    BY <1>8, <1>t, <2>1 DEF H_Take, ring, life, dvars
<1>9. CASE H_Clear
  <2>1. NULL \notin is_end
    BY <1>t, NullAssumption
  <2> QED
    BY <1>9, <1>t, <2>1 DEF H_Clear, life, dvars
<1>10. CASE H_Advance
  <2>1. read_loc' = After(read_loc, 1)
    BY <1>10, <1>t, NextLoc DEF H_Advance
  <2> QED
    BY <1>10, <2>1 DEF H_Advance, life, dvars
<1>11. CASE H_Set
  BY <1>11 DEF H_Set, ring, life, dvars
<1>12. CASE H_Dispatch
  BY <1>12 DEF H_Dispatch, ring, dvars
<1>13. CASE H_Delete \/ H_Free
  BY <1>13 DEF H_Delete, H_Free, ring, life, dvars
<1>14. CASE Shutdown \/ UNCHANGED vars
  BY <1>14 DEF Shutdown, vars, ring, life, dvars, hvars
<1> QED
  BY <1>1, <1>2, <1>3, <1>4, <1>5, <1>6, <1>7, <1>8, <1>9, <1>10, <1>11, <1>12, <1>13, <1>14, Zenon
     DEF Next, call_push, call_pop, handle_thread_run

(* handle_thread_run frees a context only when its ring is empty and D has *)
(* nothing left to do with it but signal the event of the last push.       *)
THEOREM FreedIsDrained == Spec => []FreedContextIsDrained
<1>1. Inv /\ EndInv => FreedContextIsDrained
  BY DEF EndInv, FreedContextIsDrained, IsEmpty
<1>2. Inv /\ FlightInv /\ EndInv /\ [Next]_vars => FlightInv' /\ EndInv'
  BY NextFlightInv, NextEndInv
<1> QED
  BY <1>1, <1>2, InitEndInv, Invariance, PTL DEF Spec

-------------------------------------------------------------------------------
(* Sequences are determined by their length and their elements: what       *)
(* Append and Tail return.                                                 *)
LEMMA IsAppend ==
  ASSUME NEW S, NEW q \in Seq(S), NEW e \in S, NEW r \in Seq(S), Len(r) = Len(q) + 1,
         \A k \in 1 .. Len(q) : r[k] = q[k], r[Len(q) + 1] = e
  PROVE  r = Append(q, e)
OBVIOUS

LEMMA IsTail ==
  ASSUME NEW S, NEW q \in Seq(S), q # <<>>, NEW r \in Seq(S), Len(r) = Len(q) - 1,
         \A k \in 1 .. Len(r) : r[k] = q[k + 1]
  PROVE  r = Tail(q)
OBVIOUS

(* Two states whose queue starts at the same slot, ends at the same slot   *)
(* and holds the same calls in between represent the same queue.           *)
LEMMA SameQueue ==
  ASSUME Inv, UNCHANGED <<write_loc, QueueHead>>,
         \A i \in Locs : Span(QueueHead, i) < Span(QueueHead, write_loc) => call_buf'[i] = call_buf[i]
  PROVE  UNCHANGED QueuedCalls
<1> DEFINE n == Span(QueueHead, write_loc)
<1>1. QueueHead \in Locs /\ write_loc \in Locs
  BY NextLoc DEF Inv, TypeOK, QueueHead
<1>2. n \in Nat /\ n < CallBufSize
  BY <1>1, CallBufSizeAssumption DEF Locs, Span
<1>3. ASSUME NEW k \in 1 .. n
      PROVE  After(QueueHead, k - 1) \in Locs /\ Span(QueueHead, After(QueueHead, k - 1)) < n
  BY <1>1, <1>2, <1>3, CallBufSizeAssumption DEF Locs, Span, After
<1>4. \A k \in 1 .. n : call_buf'[After(QueueHead, k - 1)] = call_buf[After(QueueHead, k - 1)]
  BY <1>3
<1>5. n' = n
  BY DEF Span
<1>6. \A k \in 1 .. n : After(QueueHead, k - 1)' = After(QueueHead, k - 1)
  BY DEF After
<1> QED
  BY <1>4, <1>5, <1>6 DEF QueuedCalls

(* Publishing write_loc appends the stored call.                           *)
LEMMA PublishPushes ==
  ASSUME Inv, D_Publish
  PROVE  Fifo!Push(dcall)
<1> DEFINE n == Span(QueueHead, write_loc)
           m == Span(QueueHead, After(write_loc, 1))
<1>1. QueueHead \in Locs /\ write_loc \in Locs /\ read_loc \in Locs
  BY NextLoc DEF Inv, TypeOK, QueueHead
<1>2. After(write_loc, 1) # read_loc /\ (HeadTaken => write_loc # read_loc)
  BY DEF Inv, TestsInv, D_Publish, HeadTaken
<1> call_buf[write_loc] = dcall
  BY DEF Inv, TestsInv, D_Publish
<1>3. write_loc' = After(write_loc, 1) /\ QueueHead' = QueueHead /\ UNCHANGED <<call_buf, hcall>>
  BY <1>1, NextLoc, SMTT(20) DEF D_Publish, hvars, QueueHead, HeadTaken, After
<1>4. n \in Nat /\ m \in Nat /\ m = n + 1 /\ m < CallBufSize
  BY <1>1, <1>2, CallBufSizeAssumption, SMTT(20) DEF Locs, Span, After, QueueHead
<1>5. /\ \A k \in 1 .. m : After(QueueHead, k - 1) \in Locs
      /\ After(QueueHead, m - 1) = write_loc
  BY <1>1, <1>4, CallBufSizeAssumption DEF Locs, Span, After
<1>6. QueuedCalls = [k \in 1 .. n |-> call_buf[After(QueueHead, k - 1)]]
  BY DEF QueuedCalls
<1>7. QueuedCalls' = [k \in 1 .. m |-> call_buf[After(QueueHead, k - 1)]]
  BY <1>3 DEF QueuedCalls, After, Span
<1>8. m \in 1 .. m /\ \A k \in 1 .. n : k \in 1 .. m
  BY <1>4
<1>9. QueuedCalls \in Seq(Calls \cup {NULL}) /\ Len(QueuedCalls) = n
  BY <1>4, <1>5, <1>6, <1>8 DEF Inv, TypeOK
<1>10. QueuedCalls' \in Seq(Calls \cup {NULL}) /\ Len(QueuedCalls') = m
  BY <1>4, <1>5, <1>7 DEF Inv, TypeOK
<1>11. (\A k \in 1 .. n : QueuedCalls'[k] = QueuedCalls[k]) /\ QueuedCalls'[m] = dcall
  <2> HIDE DEF n, m
  <2> QED BY <1>5, <1>6, <1>7, <1>8
<1>12. QueuedCalls' = Append(QueuedCalls, dcall)
  <2>1. dcall \in Calls \cup {NULL}
    BY DEF Inv, TypeOK
  <2> HIDE DEF n, m
  <2> QED BY <1>4, <1>9, <1>10, <1>11, <2>1, IsAppend
<1> QED
  BY <1>3, <1>4, <1>9, <1>12, CallBufSizeAssumption DEF Fifo!Push

(* Reading the slot at read_loc removes the oldest call.                   *)
LEMMA TakePops ==
  ASSUME Inv, hpc = "take", hcall' = call_buf[read_loc], hpc' = "clear", UNCHANGED ring
  PROVE  Fifo!Pop
<1> DEFINE n == Span(read_loc, write_loc)
           m == Span(After(read_loc, 1), write_loc)
<1>1. read_loc \in Locs /\ write_loc \in Locs /\ write_loc # read_loc
  BY DEF Inv, TypeOK, TestsInv
<1>2. n \in Nat /\ m \in Nat /\ m = n - 1 /\ n < CallBufSize
  BY <1>1, CallBufSizeAssumption DEF Locs, Span, After
<1>3. QueuedCalls = [k \in 1 .. n |-> call_buf[After(read_loc, k - 1)]]
  BY DEF QueuedCalls, QueueHead, HeadTaken
<1>4. QueuedCalls' = [k \in 1 .. m |-> call_buf[After(After(read_loc, 1), k - 1)]]
  BY DEF QueuedCalls, QueueHead, HeadTaken, ring, After, Span
<1>5. /\ \A k \in 1 .. n : After(read_loc, k - 1) \in Locs
      /\ \A k \in 1 .. m : After(After(read_loc, 1), k - 1) = After(read_loc, k + 1 - 1)
      /\ After(read_loc, 1 - 1) = read_loc
  BY <1>1, <1>2, CallBufSizeAssumption DEF Locs, After
<1>6. \A k \in 1 .. m : k + 1 \in 1 .. n
  BY <1>2
<1>7. QueuedCalls \in Seq(Calls \cup {NULL}) /\ Len(QueuedCalls) = n
  BY <1>2, <1>3, <1>5, SMTT(20) DEF Inv, TypeOK
<1>8. QueuedCalls' \in Seq(Calls \cup {NULL}) /\ Len(QueuedCalls') = m
  BY <1>2, <1>4, <1>5, <1>6 DEF Inv, TypeOK
<1>9. \A k \in 1 .. m : QueuedCalls'[k] = QueuedCalls[k + 1]
  <2> HIDE DEF n, m
  <2> QED BY <1>3, <1>4, <1>5, <1>6
<1>10. QueuedCalls # <<>> /\ Head(QueuedCalls) = call_buf[read_loc]
  <2>1. QueuedCalls[1] = call_buf[read_loc]
    <3>1. 1 \in 1 .. n
      BY <1>2
    <3> HIDE DEF n
    <3> QED BY <1>3, <1>5, <3>1
  <2>2. Len(QueuedCalls) # 0
    BY <1>2, <1>7
  <2> QED
    BY <1>7, <2>1, <2>2
<1>11. QueuedCalls' = Tail(QueuedCalls)
  <2> HIDE DEF n, m
  <2> QED BY <1>2, <1>7, <1>8, <1>9, <1>10, IsTail
<1> QED
  BY <1>10, <1>11 DEF Fifo!Pop

(* Every other step leaves the represented queue and the last popped call  *)
(* alone.                                                                  *)
LEMMA OtherStepsStutter ==
  ASSUME Inv, [Next]_vars, ~D_Publish, ~(H_Take /\ call_buf[read_loc] # NULL)
  PROVE  UNCHANGED <<QueuedCalls, hcall>>
<1>1. QueueHead \in Locs /\ write_loc \in Locs /\ read_loc \in Locs
  BY NextLoc, SMTT(20) DEF Inv, TypeOK, QueueHead
<1>2. ASSUME UNCHANGED ring, HeadTaken' = HeadTaken PROVE UNCHANGED QueuedCalls
  <2>1. UNCHANGED QueueHead  BY <1>2 DEF QueueHead, ring
  <2> QED  BY <1>2, <2>1 DEF QueuedCalls, ring
<1>3. CASE D_Store
  <2>1. UNCHANGED <<write_loc, QueueHead, hcall>>
    BY <1>3 DEF D_Store, hvars, QueueHead, HeadTaken, After
  <2>2. \A i \in Locs : Span(QueueHead, i) < Span(QueueHead, write_loc) => i # write_loc
    BY <1>1, CallBufSizeAssumption DEF Locs, Span
  <2>3. \A i \in Locs : i # write_loc => call_buf'[i] = call_buf[i]
    BY <1>3, SMTT(20) DEF D_Store, Inv, TypeOK
  <2> QED
    BY <2>1, <2>2, <2>3, SameQueue
<1>4. CASE H_Clear
  <2>1. UNCHANGED <<write_loc, QueueHead, hcall>> /\ QueueHead = After(read_loc, 1)
    BY <1>4 DEF H_Clear, QueueHead, HeadTaken, After
  <2>2. write_loc # read_loc
    BY <1>4 DEF H_Clear, Inv, TestsInv
  <2>3. \A i \in Locs : Span(QueueHead, i) < Span(QueueHead, write_loc) => i # read_loc
    BY <1>1, <2>1, <2>2, CallBufSizeAssumption DEF Locs, Span, After
  <2>4. \A i \in Locs : i # read_loc => call_buf'[i] = call_buf[i]
    BY <1>4 DEF H_Clear, Inv, TypeOK
  <2> QED
    BY <2>1, <2>3, <2>4, SameQueue
<1>5. CASE H_Advance
  <2>1. UNCHANGED <<call_buf, write_loc, QueueHead, hcall>>
    BY <1>1, <1>5, NextLoc DEF H_Advance, QueueHead, HeadTaken
  <2> QED
    BY <2>1, SameQueue
<1>6. ASSUME NEW c \in Calls, NEW last \in BOOLEAN, push_to_thread(c, last)
      PROVE  UNCHANGED <<QueuedCalls, hcall>>
  BY <1>2, <1>6 DEF push_to_thread, hvars, HeadTaken
<1>7. CASE D_Full \/ D_Wait \/ D_WaitFails \/ D_Stop \/ D_Set
  BY <1>2, <1>7 DEF D_Full, D_Wait, D_WaitFails, D_Stop, D_Set, hvars, HeadTaken
<1>8. CASE H_Init \/ H_Loop \/ H_Empty \/ H_Wait \/ H_WaitFails \/ H_Stop
  BY <1>2, <1>8 DEF H_Init, H_Loop, H_Empty, H_Wait, H_WaitFails, H_Stop, HeadTaken
<1>9. CASE H_Take
  BY <1>2, <1>9 DEF H_Take, HeadTaken
<1>10. CASE H_Set \/ H_Dispatch \/ H_Delete \/ H_Free
  BY <1>2, <1>10 DEF H_Set, H_Dispatch, H_Delete, H_Free, HeadTaken
<1>11. CASE Shutdown \/ UNCHANGED vars
  BY <1>2, <1>11 DEF Shutdown, vars, hvars, HeadTaken
<1> QED
  BY <1>3, <1>4, <1>5, <1>6, <1>7, <1>8, <1>9, <1>10, <1>11
     DEF Next, call_push, call_pop, handle_thread_run

(* call_push and call_pop together implement the bounded queue: calls are  *)
(* popped in the order they were pushed, each once, and never more than    *)
(* CALL_BUF_SIZE - 1 wait.                                                 *)
THEOREM RingImplementsFifo == Spec => ImplementsFifo
<1>1. Init => Fifo!Init
  BY DEF Init, Fifo!Init, QueuedCalls, QueueHead, HeadTaken, Span
<1>2. Inv /\ [Next]_vars => [Fifo!Next]_<<QueuedCalls, hcall>>
  <2> SUFFICES ASSUME Inv, [Next]_vars PROVE [Fifo!Next]_<<QueuedCalls, hcall>>
    OBVIOUS
  <2>1. CASE D_Publish
    <3>1. dcall \in Calls
      BY <2>1 DEF D_Publish, Inv, TestsInv
    <3> QED
      BY <2>1, <3>1, PublishPushes DEF Fifo!Next
  <2>2. CASE H_Take /\ call_buf[read_loc] # NULL
    <3>1. Fifo!Pop
      BY <2>2, TakePops DEF H_Take
    <3> QED
      BY <3>1 DEF Fifo!Next
  <2>3. CASE ~D_Publish /\ ~(H_Take /\ call_buf[read_loc] # NULL)
    BY <2>3, OtherStepsStutter
  <2> QED
    BY <2>1, <2>2, <2>3
<1> QED
  BY <1>1, <1>2, Invariance, PTL DEF Spec, ImplementsFifo, Fifo!Spec


-------------------------------------------------------------------------------
(* On the real event: a step of the ring or of the event is a step of the  *)
(* ring with an atomic event, or changes nothing of it.                    *)
LEMMA RingSteps == [RingNext]_allvars => [Next]_vars
<1> SUFFICES ASSUME [RingNext]_allvars PROVE [Next]_vars
  OBVIOUS
<1>1. ASSUME NEW w, Waits(w) PROVE UNCHANGED vars
  BY <1>1 DEF Waits, Rest, vars, W_Call, W_Lock, W_Test, W_Wake,
              W_Relock
<1>2. ASSUME NEW s, Sets(s) PROVE UNCHANGED vars
  BY <1>2 DEF Sets, Rest, vars, S_Lock, S_Unlock
<1>3. ASSUME NEW w, TimesOut(w) PROVE UNCHANGED vars
  BY <1>3 DEF TimesOut, Rest, vars, W_Timeout
<1>4. ASSUME NEW c \in Calls, NEW last \in BOOLEAN, D_Pushes(c, last) PROVE Next
  BY <1>4 DEF D_Pushes, Next
<1>5. CASE D_InWait \/ D_InSet \/ H_InWait \/ H_InSet
  BY <1>1, <1>2, <1>5 DEF D_InWait, D_InSet, H_InWait, H_InSet
<1>6. CASE D_Returns \/ D_Stores \/ D_Step
  BY <1>6 DEF D_Returns, D_Stores, D_Step, Next, call_push
<1>7. CASE H_Returns \/ H_Stores \/ H_Step
  BY <1>7 DEF H_Returns, H_Stores, H_Step, Next, handle_thread_run, call_pop
<1>8. CASE Shutdown
  BY <1>8 DEF Next
<1>9. CASE UNCHANGED allvars
  BY <1>9 DEF allvars
<1> QED  BY <1>3, <1>4, <1>5, <1>6, <1>7, <1>8, <1>9, SMTT(20) DEF RingNext

(* Also with every wait and every set of data_event taken apart into the   *)
(* steps of mutex and condition variable, as wait_event and set_event run  *)
(* them, handle_thread_run frees a context only when no call is left in    *)
(* it, and calls leave the ring once and in the order they came.           *)
THEOREM RingOnEvent == RingSpec => []FreedContextIsDrained /\ ImplementsFifo
<1>1. RingInit => Init
  BY DEF RingInit
<1>2. RingSpec => Spec
  BY <1>1, RingSteps, PTL DEF RingSpec, Spec
<1> QED  BY <1>2, FreedIsDrained, RingImplementsFifo, PTL
===============================================================================

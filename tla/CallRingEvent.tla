---------------------------- MODULE CallRingEvent -----------------------------
(***************************************************************************)
(* The ring of calls on the event it is built on: call_push and call_pop   *)
(* of CallRing with every wait_event and set_event taken apart into the    *)
(* steps of ExpressEvent.  D and H both wait for data_event and both set   *)
(* it, so the two wait under the names "D" and "H" and set under "D_set"   *)
(* and "H_set".                                                            *)
(***************************************************************************)
EXTENDS CallRing, ExpressEvent

ASSUME RolesAssumption == Waiters = {"D", "H"} /\ Setters = {"D_set", "H_set"}

allvars == <<vars, evars>>

RingInit == Init /\ EventInit

(* A thread is out of set_event when it has unlocked the event's mutex.    *)
Returned(s) == spc[s] = "idle"

(* Everything of the ring but the bit of its event.                        *)
Rest == <<ring, life, should_stop, idle, dvars, hvars>>

-------------------------------------------------------------------------------
(* Inside wait_event, and the step with which it returns.                  *)
Waits(w) ==
  /\ W_Call(w) \/ W_Lock(w) \/ W_Test(w) \/ W_Wake(w) \/ W_Relock(w)
  /\ UNCHANGED Rest

Returns(w) == W_Take(w) \/ W_Fail(w)

(* Inside set_event; S_Store raises the bit, which ends the ring's step.   *)
Sets(s) == (S_Lock(s, "set") \/ S_Unlock(s)) /\ UNCHANGED Rest

D_InWait == dpc = "wait" /\ Waits("D")
D_Returns == Returns("D") /\ (D_Wait \/ D_WaitFails)
D_InSet == (dpc = "set" \/ ~Returned("D_set")) /\ Sets("D_set")
D_Stores == S_Store("D_set") /\ D_Set
D_Step == (D_Full \/ D_Stop \/ D_Store \/ D_Publish) /\ UNCHANGED evars

D_Pushes(c, last) == Returned("D_set") /\ push_to_thread(c, last) /\ UNCHANGED evars

H_InWait == hpc = "wait" /\ Waits("H")
H_Returns == Returns("H") /\ (H_Wait \/ H_WaitFails)
H_InSet == (hpc = "set" \/ ~Returned("H_set")) /\ Sets("H_set")
H_Stores == S_Store("H_set") /\ H_Set
H_Step ==
  /\ Returned("H_set")
  /\ \/ H_Init \/ H_Loop \/ H_Empty \/ H_Stop \/ H_Take \/ H_Clear \/ H_Advance
     \/ H_Dispatch \/ H_Delete \/ H_Free
  /\ UNCHANGED evars

(* The 49 days of a wait are over.                                         *)
TimesOut(w) == W_Timeout(w) /\ UNCHANGED Rest

RingNext ==
  \/ \E c \in Calls, last \in BOOLEAN : D_Pushes(c, last)
  \/ D_InWait \/ D_Returns \/ D_InSet \/ D_Stores \/ D_Step
  \/ H_InWait \/ H_Returns \/ H_InSet \/ H_Stores \/ H_Step
  \/ \E w \in Waiters : TimesOut(w)
  \/ Shutdown /\ UNCHANGED evars

RingSpec == RingInit /\ [][RingNext]_allvars

(* The threads go on, and neither is kept from the mutex for ever.         *)
Locks(pc, w, s) ==
  /\ \/ pc = "wait" /\ (W_Lock(w) \/ W_Relock(w))
     \/ pc = "set" /\ S_Lock(s, "set")
  /\ UNCHANGED Rest

FairRingSpec ==
  /\ RingSpec
  /\ WF_allvars(D_InWait \/ D_Returns \/ D_InSet \/ D_Stores \/ D_Step)
  /\ WF_allvars(H_InWait \/ H_Returns \/ H_InSet \/ H_Stores \/ H_Step)
  /\ SF_allvars(Locks(dpc, "D", "D_set"))
  /\ SF_allvars(Locks(hpc, "H", "H_set"))
===============================================================================

---------------------------- MODULE TeleportProofs ----------------------------
(***************************************************************************)
(* Proofs about teleport-express: the lock that excludes the distributing  *)
(* thread D and the kick handler V (Distribute), and the packing of calls  *)
(* from the elements of the virtqueue (PackCall), for any number of calls, *)
(* any stream of elements and any timing of the guest.  And about what     *)
(* express-mem learns from the uses of a gbuffer, the flows (Dataflow).    *)
(***************************************************************************)
EXTENDS Distribute, PackCall, Dataflow, WellFoundedInduction, TLAPS

-------------------------------------------------------------------------------
(* Distribute.                                                             *)

(* What the lock protocol keeps.  lock = 2 is D's request and only D waits *)
(* behind it, whatever happened before; run tells how far D is, so that no *)
(* second D is created and V does not start before the first one is up.    *)
LockInv ==
  /\ raced \in BOOLEAN
  /\ lock \in 0 .. 2 /\ run \in 0 .. 2
  /\ dpc \in DLocs /\ vpc \in VLocs
  /\ lock = 2 => dpc = "spin"
  /\ run = 0 <=> dpc = "none"
  /\ run = 1 <=> dpc = "start"
  /\ ExclusionUntilRaced

(* The initial state: nobody is inside.                                    *)
LEMMA InitLockInv == Init => LockInv
<1>1. Init => raced \in BOOLEAN  BY Zenon DEF Init
<1>2. Init => ExclusionUntilRaced
  BY DEF Init, ExclusionUntilRaced, DInside, VInside
<1> QED  BY <1>1, <1>2 DEF Init, LockInv, DLocs, VLocs

(* Each step of D, of V and of the environment keeps it.                   *)
LEMMA NextLockInv == LockInv /\ [Next]_vars => LockInv'
<1> SUFFICES ASSUME LockInv, [Next]_vars PROVE LockInv'  OBVIOUS
<1> USE DEF LockInv, ExclusionUntilRaced, DInside, VInside, DLocs, VLocs, dvars, vvars, calls
<1>1. CASE call_distribute_thread
  <2>1. CASE D_Start    BY <2>1 DEF D_Start
  <2>2. CASE D_Acquire  BY <2>2 DEF D_Acquire, D_Continue
  <2>3. CASE D_Body     BY <2>3 DEF D_Body
  <2>4. CASE D_Notify   BY <2>4 DEF D_Notify
  <2>5. CASE D_Unlock   BY <2>5 DEF D_Unlock
  <2>6. CASE D_Wake     BY <2>6 DEF D_Wake, D_Continue
  <2>7. CASE D_Try      BY <2>7 DEF D_Try
  <2>8. CASE D_Announce
    <3>1. raced' \in BOOLEAN  BY <2>8, Zenon DEF D_Announce
    <3>2. CASE lock = 1       BY <2>8, <3>1, <3>2 DEF D_Announce
    <3>3. CASE lock # 1       BY <2>8, <3>1, <3>3, Zenon DEF D_Announce
    <3> QED  BY <3>2, <3>3
  <2>9. CASE D_Spin     BY <2>9 DEF D_Spin
  <2>10. CASE D_Check   BY <2>10 DEF D_Check, D_Continue
  <2> QED  BY <1>1, <2>1, <2>2, <2>3, <2>4, <2>5, <2>6, <2>7, <2>8, <2>9, <2>10
           DEF call_distribute_thread
<1>2. CASE output_handle
  <2>1. CASE V_Enter   BY <2>1 DEF V_Enter, guest_null_ptr_init
  <2>2. CASE V_Loop    BY <2>2 DEF V_Loop
  <2>3. CASE V_Body    BY <2>3 DEF V_Body
  <2>4. CASE V_Notify  BY <2>4 DEF V_Notify
  <2>5. CASE V_Unlock  BY <2>5 DEF V_Unlock
  <2> QED  BY <1>2, <2>1, <2>2, <2>3, <2>4, <2>5 DEF output_handle
<1>3. ASSUME NEW c \in Calls, Submit(c) \/ Finish(c) PROVE LockInv'
  BY <1>3 DEF Submit, Finish
<1>4. CASE Shutdown         BY <1>4 DEF Shutdown
<1>5. CASE UNCHANGED vars   BY <1>5 DEF vars
<1> QED  BY <1>1, <1>2, <1>3, <1>4, <1>5 DEF Next

(* D and V exclude each other until D goes on without the lock, and the    *)
(* lock is free whenever neither is inside and D has not stopped.          *)
THEOREM LockExcludes == Spec => []ExclusionUntilRaced
<1>1. LockInv => ExclusionUntilRaced  BY DEF LockInv
<1> QED  BY <1>1, InitLockInv, NextLockInv, PTL DEF Spec

-------------------------------------------------------------------------------
(* PackCall.                                                               *)

(* The host is done with the elements before f; those from f on it has, as *)
(* a part of a call or as the one it looks at.                             *)
Run(h, l) == [j \in 1 .. l - h + 1 |-> h + j - 1]
IsPart(h, l) == stream[h] >= 0 /\ \A j \in h + 1 .. l : stream[j] = Out

Nothing == packaging_call = <<>> /\ remain_elem_num = 0
Kept(f, l) ==
  /\ f <= l /\ packaging_call = Run(f, l) /\ IsPart(f, l)
  /\ remain_elem_num = f + stream[f] - l /\ remain_elem_num > 0

Has(f) ==
  \/ ppc = "out" /\ call = <<>> /\ f = popped + 1 /\ Nothing
  \/ ppc = "out" /\ call = <<>> /\ Kept(f, popped)
  \/ ppc = "top" /\ call = <<>> /\ elem = popped /\ f = popped /\ Nothing
  \/ ppc = "top" /\ call = <<>> /\ elem = popped /\ Kept(f, popped - 1)
  \/ /\ ppc = "paras" /\ elem = popped /\ Nothing
     /\ f <= popped /\ call = Run(f, popped) /\ IsPart(f, popped)
     /\ para_num = f + stream[f] - popped /\ para_num >= 0

(* A returned call is one of the stream; of the rest all is given back but *)
(* the elements that cut a call short.                                     *)
Returned(k) == delivered[k][1] .. delivered[k][1] + stream[delivered[k][1]]

Done(f) ==
  /\ used \subseteq 1 .. f - 1
  /\ \A k \in 1 .. Len(delivered) :
       /\ delivered[k][1] \in 1 .. N /\ IsCall(delivered[k][1])
       /\ delivered[k][1] + stream[delivered[k][1]] < f
       /\ delivered[k] = CallAt(delivered[k][1])
       /\ used \cap Returned(k) = {}
  /\ \A k \in 1 .. Len(delivered) - 1 : delivered[k][1] < delivered[k + 1][1]
  /\ \A i \in 1 .. f - 1 :
       i \in used \/ CutsShort(i) \/ \E k \in 1 .. Len(delivered) : i \in Returned(k)

PackTyped == stream \in Seq(Int) /\ pushed \in 0 .. N /\ popped \in 0 .. pushed /\ delivered \in Seq(Seq(Int))

PackIInv == PackTyped /\ \E f \in 1 .. N + 1 : Has(f) /\ Done(f)

(* Sequences with the same elements are the same.                          *)
LEMMA SeqEqual ==
  ASSUME NEW S, NEW s \in Seq(S), NEW t \in Seq(S),
         Len(s) = Len(t), \A i \in 1 .. Len(s) : s[i] = t[i]
  PROVE  s = t
OBVIOUS

LEMMA RunIs ==
  ASSUME NEW h \in Int, NEW l \in Int, h <= l
  PROVE  /\ Run(h, l) \in Seq(Int) /\ Len(Run(h, l)) = l - h + 1 /\ Run(h, l) # <<>> /\ Run(h, l)[1] = h
         /\ Range(Run(h, l)) = h .. l
<1>1. l - h + 1 \in Nat /\ 1 \in 1 .. l - h + 1
  OBVIOUS
<1>2. Run(h, l) \in Seq(Int) /\ Len(Run(h, l)) = l - h + 1 /\ Run(h, l)[1] = h
  BY <1>1 DEF Run
<1>3. Run(h, l) # <<>>
  BY <1>1, <1>2
<1>4. Range(Run(h, l)) = h .. l
  <2>1. Range(Run(h, l)) = {h + j - 1 : j \in 1 .. l - h + 1}
    BY <1>1, Zenon DEF Run, Range
  <2>2. ASSUME NEW i \in h .. l PROVE \E j \in 1 .. l - h + 1 : i = h + j - 1
    <3>1. i - h + 1 \in 1 .. l - h + 1 /\ i = h + (i - h + 1) - 1
      OBVIOUS
    <3> QED BY <3>1
  <2>3. ASSUME NEW j \in 1 .. l - h + 1 PROVE h + j - 1 \in h .. l
    OBVIOUS
  <2> QED BY <2>1, <2>2, <2>3
<1> QED BY <1>2, <1>3, <1>4

LEMMA RunGrows ==
  ASSUME NEW h \in Int, NEW l \in Int, h <= l PROVE Append(Run(h, l), l + 1) = Run(h, l + 1)
<1> DEFINE a == Append(Run(h, l), l + 1)
           b == Run(h, l + 1)
<1>1. /\ Run(h, l) \in Seq(Int) /\ Len(Run(h, l)) = l - h + 1
      /\ \A j \in 1 .. l - h + 1 : Run(h, l)[j] = h + j - 1
  BY RunIs DEF Run
<1>2. /\ a \in Seq(Int) /\ Len(a) = l - h + 2 /\ a[l - h + 2] = l + 1
      /\ \A j \in 1 .. l - h + 1 : a[j] = h + j - 1
  BY <1>1
<1>3. b \in Seq(Int) /\ Len(b) = l - h + 2 /\ \A j \in 1 .. l - h + 2 : b[j] = h + j - 1
  BY RunIs DEF Run
<1> HIDE DEF a, b
<1>4. ASSUME NEW j \in 1 .. l - h + 2 PROVE a[j] = b[j]
  <2>1. CASE j \in 1 .. l - h + 1
    BY <1>2, <1>3, <2>1
  <2>2. CASE j = l - h + 2
    <3>1. b[j] = h + j - 1 /\ h + j - 1 = l + 1
      BY <1>3, <2>2
    <3> QED BY <1>2, <2>2, <3>1
  <2> QED BY <2>1, <2>2
<1>5. a = b
  BY <1>2, <1>3, <1>4, SeqEqual
<1> QED BY <1>5 DEF a, b

LEMMA RunOne == ASSUME NEW h \in Int PROVE <<h>> = Run(h, h)
<1>1. <<h>> \in Seq(Int) /\ Len(<<h>>) = 1 /\ <<h>>[1] = h
  OBVIOUS
<1>2. Run(h, h) \in Seq(Int) /\ Len(Run(h, h)) = 1 /\ Run(h, h)[1] = h
  <2>1. h <= h /\ h - h + 1 = 1
    OBVIOUS
  <2> QED BY <2>1, RunIs, Zenon
<1> QED BY <1>1, <1>2, SeqEqual

LEMMA CallIsRun ==
  ASSUME NEW h \in Int, stream[h] \in Int PROVE CallAt(h) = Run(h, h + stream[h])
<1>1. h + stream[h] - h + 1 = stream[h] + 1
  OBVIOUS
<1> QED BY <1>1 DEF CallAt, Run

(* The host is done with the elements before g: it has given back those it *)
(* had, of which the last may be missing if it cut a call short.           *)
LEMMA DoneGivesBack ==
  ASSUME PackTyped, NEW f \in 1 .. N + 1, NEW g \in 1 .. N + 1, f <= g, Done(f), NEW back,
         used' = used \cup back, UNCHANGED <<stream, delivered>>,
         \/ back = f .. g - 1
         \/ back = f .. g - 2 /\ f < g /\ CutsShort(g - 1)
  PROVE  Done(g)'
<1>0. N \in Nat /\ N' = N
  BY DEF PackTyped, N
<1>1. \A h : IsCall(h)' = IsCall(h) /\ CallAt(h)' = CallAt(h)
  BY DEF IsCall, CallAt, N
<1>2. \A i : CutsShort(i)' = CutsShort(i)
  BY DEF CutsShort
<1>3. \A k \in 1 .. Len(delivered) : Returned(k)' = Returned(k)
  BY DEF Returned
<1>4. used' \subseteq 1 .. g - 1
  <2>1. used \subseteq 1 .. f - 1 /\ back \subseteq f .. g - 1
    BY <1>0 DEF Done
  <2>2. 1 .. f - 1 \subseteq 1 .. g - 1 /\ f .. g - 1 \subseteq 1 .. g - 1
    BY <1>0
  <2> QED BY <2>1, <2>2
<1>5. ASSUME NEW k \in 1 .. Len(delivered)
      PROVE  /\ delivered[k][1] \in 1 .. N /\ IsCall(delivered[k][1])
             /\ delivered[k][1] + stream[delivered[k][1]] < g
             /\ delivered[k] = CallAt(delivered[k][1])
             /\ used' \cap Returned(k) = {}
  <2>1. /\ delivered[k][1] \in 1 .. N /\ IsCall(delivered[k][1])
        /\ delivered[k][1] + stream[delivered[k][1]] < f
        /\ delivered[k] = CallAt(delivered[k][1])
        /\ used \cap Returned(k) = {}
    BY DEF Done
  <2>2. stream[delivered[k][1]] \in Int
    BY <2>1 DEF PackTyped, N
  <2>3. back \cap Returned(k) = {}
    BY <1>0, <2>1, <2>2, SMTT(20) DEF Returned
  <2>4. delivered[k][1] + stream[delivered[k][1]] < g
    BY <1>0, <2>1, <2>2
  <2> QED BY <2>1, <2>3, <2>4
<1>6. ASSUME NEW i \in 1 .. g - 1
      PROVE  i \in used' \/ CutsShort(i) \/ \E k \in 1 .. Len(delivered) : i \in Returned(k)
  <2>1. CASE i < f
    <3>1. i \in 1 .. f - 1
      BY <1>0, <2>1
    <3> QED BY <3>1 DEF Done
  <2>2. CASE i >= f
    BY <1>0, <2>2
  <2> QED BY <1>0, <2>1, <2>2
<1>7. \A k \in 1 .. Len(delivered) - 1 : delivered[k][1] < delivered[k + 1][1]
  BY DEF Done
<1> QED BY <1>0, <1>1, <1>2, <1>3, <1>4, <1>5, <1>6, <1>7 DEF Done

LEMMA EndsBefore ==
  ASSUME NEW d \in Int, NEW e \in Int, NEW f \in Int, NEW g \in Int, d + e < f, e >= 0, f <= g
  PROVE  d + e < g /\ d < f
OBVIOUS

(* A call is returned.                                                     *)
LEMMA DoneReturns ==
  ASSUME PackTyped, NEW f \in 1 .. N, Done(f), IsCall(f), stream[f] \in Int,
         delivered' = Append(delivered, CallAt(f)), UNCHANGED <<stream, used>>,
         NEW g, g = f + stream[f] + 1
  PROVE  delivered' \in Seq(Seq(Int)) /\ Done(g)'
<1> PICK n \in Nat : n = Len(delivered)
  BY DEF PackTyped
<1>0. N \in Nat /\ N' = N /\ stream[f] >= 0 /\ g \in Int
  BY DEF PackTyped, N, IsCall
<1>1. CallAt(f) \in Seq(Int) /\ CallAt(f)[1] = f
  <2>1. f \in Int /\ f + stream[f] \in Int /\ f <= f + stream[f]
    BY <1>0
  <2>2. CallAt(f) = Run(f, f + stream[f])
    BY <2>1, CallIsRun
  <2>3. Run(f, f + stream[f]) \in Seq(Int) /\ Run(f, f + stream[f])[1] = f
    BY <2>1, RunIs, Zenon
  <2> QED BY <2>2, <2>3
<1>2. /\ delivered' \in Seq(Seq(Int)) /\ Len(delivered') = n + 1 /\ delivered'[n + 1] = CallAt(f)
      /\ \A k \in 1 .. n : delivered'[k] = delivered[k]
  BY <1>1 DEF PackTyped
<1>3. \A h : IsCall(h)' = IsCall(h) /\ CallAt(h)' = CallAt(h)
  BY DEF IsCall, CallAt, N
<1>4. \A i : CutsShort(i)' = CutsShort(i)
  BY DEF CutsShort
<1>5. /\ \A k \in 1 .. n : Returned(k)' = Returned(k)
      /\ Returned(n + 1)' = f .. f + stream[f]
  BY <1>1, <1>2 DEF Returned
<1>6. ASSUME NEW k \in 1 .. n
      PROVE  /\ delivered[k][1] \in 1 .. N /\ IsCall(delivered[k][1])
             /\ delivered[k][1] + stream[delivered[k][1]] < g /\ delivered[k][1] < f
             /\ delivered[k] = CallAt(delivered[k][1])
             /\ used \cap Returned(k) = {}
  <2>1. /\ delivered[k][1] \in 1 .. N /\ IsCall(delivered[k][1])
        /\ delivered[k][1] + stream[delivered[k][1]] < f
        /\ delivered[k] = CallAt(delivered[k][1])
        /\ used \cap Returned(k) = {}
    BY DEF Done
  <2>2. stream[delivered[k][1]] \in Int /\ stream[delivered[k][1]] >= 0
    BY <2>1, SMTT(20) DEF PackTyped, N, IsCall
  <2>3. delivered[k][1] + stream[delivered[k][1]] < g /\ delivered[k][1] < f
    <3>1. delivered[k][1] \in Int /\ f \in Int /\ f <= g
      BY <1>0, <2>1
    <3> QED BY <1>0, <2>1, <2>2, <3>1, EndsBefore
  <2> QED BY <2>1, <2>3
<1>7. used \subseteq 1 .. f - 1 /\ used \cap (f .. f + stream[f]) = {}
  BY <1>0 DEF Done
<1>8. used' \subseteq 1 .. g - 1
  BY <1>0, <1>7
<1>9. ASSUME NEW k \in 1 .. n + 1
      PROVE  /\ delivered'[k][1] \in 1 .. N /\ IsCall(delivered'[k][1])
             /\ delivered'[k][1] + stream[delivered'[k][1]] < g
             /\ delivered'[k] = CallAt(delivered'[k][1])
             /\ used \cap Returned(k)' = {}
  <2>1. CASE k = n + 1
    <3>1. delivered'[k] = CallAt(f) /\ delivered'[k][1] = f /\ Returned(k)' = f .. f + stream[f]
      BY <1>1, <1>2, <1>5, <2>1
    <3>2. f + stream[f] < g
      BY <1>0
    <3> QED BY <1>7, <3>1, <3>2
  <2>2. CASE k \in 1 .. n
    BY <1>2, <1>5, <1>6, <2>2, Zenon
  <2> QED BY <1>0, <2>1, <2>2
<1>10. ASSUME NEW k \in 1 .. n PROVE delivered'[k][1] < delivered'[k + 1][1]
  <2>1. CASE k = n
    BY <1>1, <1>2, <1>6, <2>1, Zenon
  <2>2. CASE k # n
    <3>1. k \in 1 .. n - 1 /\ k + 1 \in 1 .. n
      BY <1>0, <2>2
    <3> QED BY <1>2, <3>1 DEF Done
  <2> QED BY <2>1, <2>2
<1>11. ASSUME NEW i \in 1 .. g - 1
       PROVE  i \in used \/ CutsShort(i) \/ \E k \in 1 .. n + 1 : i \in Returned(k)'
  <2>1. CASE i < f
    <3>1. i \in 1 .. f - 1
      BY <1>0, <2>1
    <3>2. i \in used \/ CutsShort(i) \/ \E k \in 1 .. n : i \in Returned(k)
      BY <3>1 DEF Done
    <3> QED BY <1>0, <1>5, <3>2
  <2>2. CASE i >= f
    <3>1. i \in f .. f + stream[f] /\ n + 1 \in 1 .. n + 1
      BY <1>0, <2>2
    <3> QED BY <1>5, <3>1
  <2> QED BY <1>0, <2>1, <2>2
<1>12. n + 1 - 1 = n
  BY <1>0
<1>13. Done(g)'
  <2>1. \A k \in 1 .. Len(delivered') :
          /\ delivered'[k][1] \in 1 .. N' /\ IsCall(delivered[k][1])'
          /\ delivered'[k][1] + stream'[delivered'[k][1]] < g
          /\ delivered'[k] = CallAt(delivered[k][1])'
          /\ used' \cap Returned(k)' = {}
    <3>1. \A k : /\ IsCall(delivered[k][1])' <=> IsCall(delivered'[k][1])
                 /\ CallAt(delivered[k][1])' = CallAt(delivered'[k][1])
      BY DEF IsCall, CallAt, N
    <3>2. ASSUME NEW k \in 1 .. n + 1
          PROVE  /\ delivered'[k][1] \in 1 .. N' /\ IsCall(delivered[k][1])'
                 /\ delivered'[k][1] + stream'[delivered'[k][1]] < g
                 /\ delivered'[k] = CallAt(delivered[k][1])'
                 /\ used' \cap Returned(k)' = {}
      BY <1>0, <1>9, <3>1, Zenon
    <3> QED BY <1>2, <3>2, Zenon
  <2>2. \A k \in 1 .. Len(delivered') - 1 : delivered'[k][1] < delivered'[k + 1][1]
    <3>1. Len(delivered') - 1 = n
      BY <1>2, <1>12
    <3> QED BY <1>10, <3>1
  <2>3. \A i \in 1 .. g - 1 :
          i \in used' \/ CutsShort(i)' \/ \E k \in 1 .. Len(delivered') : i \in Returned(k)'
    BY <1>2, <1>4, <1>11, SMTT(20)
  <2> QED BY <1>8, <2>1, <2>2, <2>3, Zenon DEF Done
<1> QED BY <1>2, <1>13

LEMMA DoneSame == ASSUME NEW f, Done(f), UNCHANGED <<stream, used, delivered>> PROVE Done(f)'
BY DEF Done, IsCall, CallAt, CutsShort, Returned, N

LEMMA PartGrows ==
  ASSUME NEW f \in Int, NEW l \in Int, f <= l, IsPart(f, l), stream[l + 1] = Out
  PROVE  IsPart(f, l + 1)
<1>1. \A j \in f + 1 .. l + 1 : j \in f + 1 .. l \/ j = l + 1
  OBVIOUS
<1> QED BY <1>1 DEF IsPart

(* A part of a call that is not complete is cut short by another element.  *)
LEMMA PartIsCut ==
  ASSUME NEW f \in 1 .. N, NEW l \in Int, f <= l, IsPart(f, l), stream[f] \in Int, f + stream[f] - l > 0,
         stream[l + 1] # Out
  PROVE  CutsShort(l + 1)
<1>1. f \in 1 .. (l + 1) - 1 /\ l + 1 <= f + stream[f] /\ (l + 1) - 1 = l
  BY DEF N
<1> QED BY <1>1 DEF CutsShort, IsPart

LEMMA PackStarts == PackInit => PackIInv
<1> SUFFICES ASSUME PackInit PROVE PackIInv
  OBVIOUS
<1>1. stream \in Seq(Int) /\ N \in Nat
  BY StreamsAssumption DEF PackInit, N
<1>2. PackTyped
  BY <1>1 DEF PackInit, PackTyped
<1>3. Has(1) /\ Done(1)
  BY <1>1 DEF PackInit, Has, Done, Nothing
<1>4. 1 \in 1 .. N + 1
  BY <1>1
<1> QED BY <1>2, <1>3, <1>4 DEF PackIInv

LEMMA PackStep == PackIInv /\ [PackNext]_packvars => PackIInv'
<1> SUFFICES ASSUME PackIInv, PackNext \/ UNCHANGED packvars PROVE PackIInv'
  BY DEF packvars
<1> PICK f \in 1 .. N + 1 : Has(f) /\ Done(f)
  BY DEF PackIInv
<1>0. /\ PackTyped /\ stream \in Seq(Int) /\ N \in Nat /\ pushed \in 0 .. N /\ popped \in 0 .. pushed
      /\ delivered \in Seq(Seq(Int)) /\ DOMAIN stream = 1 .. N /\ \A i \in 1 .. N : stream[i] \in Int
  BY DEF PackIInv, PackTyped, N
<1>1. ASSUME UNCHANGED stream, pushed' \in 0 .. N, popped' \in 0 .. pushed', delivered' \in Seq(Seq(Int)),
             NEW g \in 1 .. N + 1, Has(g)', Done(g)'
      PROVE  PackIInv'
  BY <1>0, <1>1 DEF PackIInv, PackTyped, N
<1>2. CASE GuestPush \/ UNCHANGED packvars
  <2>1. /\ UNCHANGED <<stream, popped, used, packaging_call, remain_elem_num, ppc, elem, call, para_num,
                       delivered>>
        /\ pushed' \in 0 .. N /\ popped' \in 0 .. pushed'
    BY <1>0, <1>2 DEF GuestPush, packvars, locals
  <2>2. Done(f)'
    BY <2>1, DoneSame
  <2>3. Has(f)'
    BY <2>1 DEF Has, Nothing, Kept, IsPart
  <2> QED BY <1>0, <1>1, <2>1, <2>2, <2>3
<1>3. CASE P_Begin
  <2>1. /\ UNCHANGED <<stream, used, packaging_call, remain_elem_num, pushed, delivered>>
        /\ popped' = popped + 1 /\ popped < pushed /\ elem' = popped + 1 /\ ppc = "out"
        /\ ppc' = "top" /\ call' = <<>>
    BY <1>3 DEF P_Begin, Pop
  <2>2. Done(f)'
    BY <2>1, DoneSame
  <2>3. popped' - 1 = popped /\ popped' \in 0 .. pushed'
    BY <1>0, <2>1
  <2>4. CASE f = popped + 1 /\ Nothing
    <3>1. Has(f)'
      BY <2>1, <2>4 DEF Has, Nothing
    <3> QED BY <1>0, <1>1, <2>1, <2>2, <2>3, <3>1
  <2>5. CASE Kept(f, popped)
    <3>1. Kept(f, popped - 1)'
      BY <2>1, <2>3, <2>5 DEF Kept, IsPart
    <3>2. Has(f)'
      BY <2>1, <3>1 DEF Has
    <3> QED BY <1>0, <1>1, <2>1, <2>2, <2>3, <3>2
  <2> QED BY <2>1, <2>4, <2>5 DEF Has
<1>4. CASE P_Continue
  <2>1. /\ UNCHANGED <<stream, used, pushed, popped, elem, delivered>> /\ stream[elem] = Out
        /\ packaging_call # <<>> /\ ppc = "top" /\ ppc' = "paras" /\ call' = Append(packaging_call, elem)
        /\ para_num' = remain_elem_num - 1 /\ packaging_call' = <<>> /\ remain_elem_num' = 0
    BY <1>4 DEF P_Continue
  <2>2. elem = popped /\ Kept(f, popped - 1)
    BY <2>1 DEF Has, Nothing
  <2>3. f <= popped - 1 /\ f \in Int /\ popped - 1 \in Int /\ (popped - 1) + 1 = popped /\ stream[f] \in Int
    BY <1>0, <2>2 DEF Kept
  <2>4. Append(packaging_call, elem) = Run(f, popped) /\ IsPart(f, popped)
    BY <2>1, <2>2, <2>3, RunGrows, PartGrows, ZenonT(30) DEF Kept
  <2>5. para_num' = f + stream[f] - popped /\ para_num' >= 0 /\ f <= popped
    BY <2>1, <2>2, <2>3 DEF Kept
  <2>6. Has(f)'
    BY <2>1, <2>2, <2>4, <2>5 DEF Has, Nothing, IsPart
  <2>7. Done(f)'
    BY <2>1, DoneSame
  <2> QED BY <1>0, <1>1, <2>1, <2>6, <2>7
<1>5. CASE P_Abandon
  <2>1. /\ UNCHANGED <<stream, pushed, popped, call, delivered>> /\ stream[elem] # Out
        /\ packaging_call # <<>> /\ ppc = "top" /\ ppc' = "out" /\ used' = used \cup Range(packaging_call)
        /\ packaging_call' = <<>> /\ remain_elem_num' = 0
    BY <1>5 DEF P_Abandon
  <2>2. elem = popped /\ Kept(f, popped - 1) /\ call = <<>>
    BY <2>1 DEF Has, Nothing
  <2>3. /\ f <= popped - 1 /\ f \in 1 .. N /\ popped - 1 \in Int /\ (popped - 1) + 1 = popped
        /\ stream[f] \in Int /\ f + stream[f] - (popped - 1) > 0 /\ IsPart(f, popped - 1)
    BY <1>0, <2>2 DEF Kept
  <2>4. CutsShort(popped)
    BY <2>1, <2>2, <2>3, PartIsCut
  <2>5. Range(packaging_call) = f .. popped - 1
    BY <2>2, <2>3, RunIs DEF Kept
  <2>6. /\ popped + 1 \in 1 .. N + 1 /\ f < popped + 1 /\ f <= popped + 1
        /\ (popped + 1) - 1 = popped /\ (popped + 1) - 2 = popped - 1
    BY <1>0, <2>3
  <2> PICK g : g = popped + 1
    OBVIOUS
  <2>7. Done(g)'
    BY <1>0, <2>1, <2>4, <2>5, <2>6, DoneGivesBack, Zenon
  <2>8. Has(g)'
    BY <2>1, <2>2 DEF Has, Nothing
  <2> QED BY <1>0, <1>1, <2>1, <2>6, <2>7, <2>8
<1>6. CASE P_Head
  <2>1. /\ UNCHANGED <<stream, used, pushed, popped, elem, packaging_call, remain_elem_num, delivered>>
        /\ ppc = "top" /\ ppc' = "paras" /\ packaging_call = <<>> /\ stream[elem] >= 0 /\ call' = <<elem>>
        /\ para_num' = stream[elem]
    BY <1>6 DEF P_Head
  <2>2. elem = popped /\ f = popped /\ Nothing
    <3>1. \A l \in Int : f <= l => Run(f, l) # <<>>
      BY <1>0, RunIs
    <3> QED BY <1>0, <2>1, <3>1 DEF Has, Kept
  <2>3. f \in Int /\ stream[f] \in Int /\ f <= f /\ f + stream[f] - f = stream[f]
    BY <1>0, <2>2
  <2>4. <<f>> = Run(f, f) /\ IsPart(f, f)
    <3>1. \A j \in f + 1 .. f : FALSE
      BY <2>3
    <3> QED BY <2>1, <2>2, <2>3, <3>1, RunOne DEF IsPart
  <2>5. Has(f)'
    BY <2>1, <2>2, <2>3, <2>4 DEF Has, Nothing, IsPart
  <2>6. Done(f)'
    BY <2>1, DoneSame
  <2> QED BY <1>0, <1>1, <2>1, <2>5, <2>6
<1>7. CASE P_NoHead
  <2>1. /\ UNCHANGED <<stream, pushed, popped, call, packaging_call, remain_elem_num, delivered>>
        /\ ppc = "top" /\ ppc' = "out" /\ packaging_call = <<>> /\ used' = used \cup {elem}
    BY <1>7 DEF P_NoHead
  <2>2. elem = popped /\ f = popped /\ Nothing /\ call = <<>>
    <3>1. \A l \in Int : f <= l => Run(f, l) # <<>>
      BY <1>0, RunIs
    <3> QED BY <1>0, <2>1, <3>1 DEF Has, Kept
  <2>3. popped + 1 \in 1 .. N + 1 /\ f <= popped + 1 /\ {elem} = f .. (popped + 1) - 1
    BY <1>0, <2>2
  <2> PICK g : g = popped + 1
    OBVIOUS
  <2>4. Done(g)'
    BY <1>0, <2>1, <2>3, DoneGivesBack, Zenon
  <2>5. Has(g)'
    BY <2>1, <2>2 DEF Has, Nothing
  <2> QED BY <1>0, <1>1, <2>1, <2>3, <2>4, <2>5
<1>8. ASSUME ppc = "paras"
      PROVE  /\ elem = popped /\ Nothing /\ f <= popped /\ f \in 1 .. N /\ call = Run(f, popped)
             /\ IsPart(f, popped) /\ para_num = f + stream[f] - popped /\ para_num >= 0
             /\ stream[f] \in Int /\ popped \in Int
  BY <1>0, <1>8 DEF Has
<1>9. CASE P_Return
  <2>1. /\ UNCHANGED <<stream, used, pushed, popped, packaging_call, remain_elem_num>>
        /\ ppc = "paras" /\ ppc' = "out" /\ para_num = 0 /\ call' = <<>> /\ delivered' = Append(delivered, call)
    BY <1>9 DEF P_Return
  <2>2. f + stream[f] = popped /\ f + stream[f] + 1 = popped + 1
    <3>1. f \in Int /\ stream[f] \in Int /\ popped \in Int /\ 0 = f + stream[f] - popped
      BY <1>8, <2>1
    <3> QED BY <3>1
  <2>3. IsCall(f) /\ CallAt(f) = call
    BY <1>0, <1>8, <2>1, <2>2, CallIsRun DEF IsCall, IsPart
  <2> PICK g : g = popped + 1
    OBVIOUS
  <2>4. delivered' \in Seq(Seq(Int)) /\ Done(g)'
    BY <1>0, <1>8, <2>1, <2>2, <2>3, DoneReturns
  <2>5. Has(g)' /\ g \in 1 .. N + 1
    BY <1>0, <1>8, <2>1 DEF Has, Nothing
  <2> QED BY <1>0, <1>1, <2>1, <2>4, <2>5
<1>10. CASE P_RunDry
  <2>1. /\ UNCHANGED <<stream, used, pushed, popped, delivered>> /\ ppc = "paras" /\ ppc' = "out"
        /\ para_num > 0 /\ call' = <<>> /\ packaging_call' = call /\ remain_elem_num' = para_num
    BY <1>10 DEF P_RunDry
  <2>2. Has(f)'
    BY <1>8, <2>1 DEF Has, Kept, IsPart
  <2>3. Done(f)'
    BY <2>1, DoneSame
  <2> QED BY <1>0, <1>1, <2>1, <2>2, <2>3
<1>11. CASE P_Para
  <2>1. /\ UNCHANGED <<stream, pushed, packaging_call, remain_elem_num, delivered>> /\ ppc = "paras"
        /\ para_num > 0 /\ popped < pushed /\ popped' = popped + 1 /\ elem' = popped + 1
    BY <1>11 DEF P_Para, Pop
  <2>2. popped' \in 0 .. pushed' /\ popped + 1 \in 1 .. N /\ (popped + 1) - 1 = popped /\ f <= popped + 1
    BY <1>0, <1>8, <2>1
  <2>3. CASE stream[popped + 1] = Out
    <3>1. /\ call' = Append(call, popped + 1) /\ para_num' = para_num - 1 /\ UNCHANGED <<used, ppc>>
      BY <1>11, <2>1, <2>3 DEF P_Para
    <3>2. call' = Run(f, popped + 1) /\ IsPart(f, popped + 1)
      <4>1. f \in Int /\ popped \in Int /\ f <= popped /\ call = Run(f, popped) /\ IsPart(f, popped)
        BY <1>8, <2>1
      <4> QED BY <2>3, <3>1, <4>1, RunGrows, PartGrows, Zenon
    <3>3. para_num' = f + stream[f] - (popped + 1) /\ para_num' >= 0
      BY <1>8, <2>1, <3>1, SMTT(20)
    <3>4. Has(f)'
      BY <1>8, <2>1, <2>2, <3>1, <3>2, <3>3, ZenonT(30) DEF Has, Nothing, IsPart
    <3>5. Done(f)'
      BY <2>1, <3>1, DoneSame
    <3> QED BY <1>0, <1>1, <2>1, <2>2, <3>4, <3>5
  <2>4. CASE stream[popped + 1] # Out
    <3>1. used' = used \cup Range(call) /\ call' = <<>> /\ ppc' = "top"
      BY <1>11, <2>1, <2>4 DEF P_Para
    <3>2. Range(call) = f .. (popped + 1) - 1 /\ popped + 1 \in 1 .. N + 1
      BY <1>0, <1>8, <2>1, <2>2, RunIs
    <3> PICK g : g = popped + 1
      OBVIOUS
    <3>3. Done(g)'
      BY <1>0, <2>1, <2>2, <3>1, <3>2, DoneGivesBack, ZenonT(30)
    <3>4. Has(g)'
      BY <1>8, <2>1, <3>1 DEF Has, Nothing
    <3> QED BY <1>0, <1>1, <2>1, <2>2, <3>2, <3>3, <3>4
  <2> QED BY <2>3, <2>4
<1> QED
  BY <1>2, <1>3, <1>4, <1>5, <1>6, <1>7, <1>9, <1>10, <1>11 DEF PackNext, pack_call_from_queue

LEMMA PackInvariant == PackSpec => []PackIInv
BY PackStarts, PackStep, PTL DEF PackSpec

(* Whatever the guest sends and wherever the virtqueue runs dry, what      *)
(* pack_call_from_queue returns are calls of the guest's stream, complete, *)
(* unmixed and in their order: for streams of any length, and calls of any *)
(* number of parameters.                                                   *)
THEOREM CallsAreIntact == PackSpec => []DeliveredIsIntact
<1>1. PackIInv => DeliveredIsIntact
  BY DEF PackIInv, Done, DeliveredIsIntact
<1> QED BY <1>1, PackInvariant, PTL

(* And pack_call_from_queue loses no element of the guest, except one that *)
(* cuts short a call it had begun, and gives none back that it still uses. *)
THEOREM NoElementIsLost == PackSpec => []ElementInOnePlace
<1>1. PackIInv => ElementInOnePlace
  <2> SUFFICES ASSUME PackIInv PROVE ElementInOnePlace
    OBVIOUS
  <2> PICK f \in 1 .. N + 1 : Has(f) /\ Done(f)
    BY DEF PackIInv
  <2>0. N \in Nat /\ popped \in 0 .. N /\ \A i \in 1 .. N : stream[i] \in Int
    BY DEF PackIInv, PackTyped, N
  <2>1. ASSUME NEW k \in 1 .. Len(delivered)
        PROVE  Range(delivered[k]) = Returned(k) /\ used \cap Returned(k) = {}
    <3> PICK d : d = delivered[k][1]
      OBVIOUS
    <3>1. d \in 1 .. N /\ stream[d] >= 0 /\ delivered[k] = CallAt(d) /\ used \cap Returned(k) = {}
      BY DEF Done, IsCall
    <3>2. d \in Int /\ d + stream[d] \in Int /\ d <= d + stream[d] /\ stream[d] \in Int
      BY <2>0, <3>1
    <3>3. CallAt(d) = Run(d, d + stream[d])
      BY <3>2, CallIsRun
    <3>4. Range(Run(d, d + stream[d])) = d .. d + stream[d]
      BY <3>2, RunIs, ZenonT(30)
    <3> QED BY <3>1, <3>3, <3>4, Zenon DEF Returned
  <2>2. ASSUME NEW l \in Int, f <= l PROVE Range(Run(f, l)) = f .. l
    BY <2>0, <2>2, RunIs
  <2>3. Range(<<>>) = {}
    BY DEF Range
  <2>4. /\ Range(packaging_call) \cup Range(call) \subseteq f .. popped
        /\ f .. popped \subseteq Range(packaging_call) \cup Range(call) \cup {elem}
    <3>1. CASE f = popped + 1 /\ Nothing /\ call = <<>>
      BY <2>0, <2>3, <3>1 DEF Nothing
    <3>2. CASE Kept(f, popped) /\ call = <<>>
      BY <2>0, <2>2, <2>3, <3>2 DEF Kept
    <3>3. CASE f = popped /\ elem = popped /\ Nothing /\ call = <<>>
      BY <2>0, <2>3, <3>3 DEF Nothing
    <3>4. CASE Kept(f, popped - 1) /\ elem = popped /\ call = <<>>
      <4>1. Range(packaging_call) = f .. popped - 1
        BY <2>0, <2>2, <3>4 DEF Kept
      <4> QED BY <2>0, <2>3, <3>4, <4>1
    <3>5. CASE f <= popped /\ call = Run(f, popped) /\ Nothing
      BY <2>0, <2>2, <2>3, <3>5 DEF Nothing
    <3> QED BY <3>1, <3>2, <3>3, <3>4, <3>5 DEF Has
  <2>5. ASSUME NEW i \in 1 .. popped PROVE i \in Held \/ CutsShort(i)
    <3>1. CASE i \in f .. popped
      BY <2>4, <3>1 DEF Held
    <3>2. CASE i \in 1 .. f - 1
      BY <2>1, <3>2 DEF Done, Held
    <3> QED BY <2>0, <3>1, <3>2
  <2>6. used \cap (f .. popped) = {}
    BY <2>0 DEF Done
  <2> QED BY <2>1, <2>4, <2>5, <2>6 DEF ElementInOnePlace
<1> QED BY <1>1, PackInvariant, PTL

-------------------------------------------------------------------------------
(* Dataflow.  A flow of either table, and what every step keeps: the       *)
(* tables do not grow beyond their size, and the flow of a gbuffer is      *)
(* NoFlow or an entry of the table.                                        *)
AnyFlow == [src_dev : Nat, dst_dev : [1 .. DstLen -> Nat], dst_dev_size : Nat]

TablesInv ==
  /\ flows \in [Tables -> Seq(AnyFlow)]
  /\ flow_of \in [Tables -> [Gbuffers -> Nat]]
  /\ \A t \in Tables : Len(flows[t]) <= MAX_FLOW_SIZE
  /\ \A t \in Tables, g \in Gbuffers : flow_of[t][g] <= Len(flows[t])

UsageInv ==
  /\ last_dev \in [Tables -> [Gbuffers -> Nat]]
  /\ last_write \in [Tables -> [Gbuffers -> BOOLEAN]]

(* The natural numbers are well-founded, so a nonempty set of them has a   *)
(* least element.                                                          *)
LEMMA LessIsWellFounded == IsWellFoundedOn({p \in Nat \X Nat : p[1] < p[2]}, Nat)
BY NatLessThanWellFounded, Zenon DEF OpToRel

LEMMA LeastElement ==
  ASSUME NEW S \in SUBSET Nat, S # {}
  PROVE  \E i \in S : \A j \in S : i <= j
<1>1. PICK i \in S : \A j \in S : <<j, i>> \notin {p \in Nat \X Nat : p[1] < p[2]}
  BY LessIsWellFounded, WFMin, Zenon
<1>2. ASSUME NEW j \in S PROVE i <= j
  <2>1. ~(j < i)
    BY <1>1, Zenon
  <2> QED  BY <2>1
<1> QED  BY <1>2

(* The loops take the first flow that will do, and there is one if any.    *)
LEMMA FirstIn ==
  ASSUME NEW S \in SUBSET Nat, S # {}
  PROVE  First(S) \in S
<1>1. \E i \in S : \A j \in S : i <= j
  BY LeastElement
<1> QED  BY <1>1, Zenon DEF First

(* A new flow has its reader as its one destination.                       *)
LEMMA NewFlow ==
  ASSUME NEW src \in Nat, NEW base \in [1 .. DstLen -> Nat], NEW size \in Nat, NEW dev \in Nat
  PROVE  /\ hg_new_flow(src, base, size, dev) \in AnyFlow
         /\ is_in_devs(dev, hg_new_flow(src, base, size, dev))
<1>1. DstLen \in Nat \ {0}
  BY FlowAssumption
<1> DEFINE copied == [i \in 1 .. DstLen |-> IF i <= size THEN base[i] ELSE 0]
           d == [copied EXCEPT ![1] = dev]
<1>2. copied \in [1 .. DstLen -> Nat] /\ d \in [1 .. DstLen -> Nat] /\ d[1] = dev
  BY <1>1
<1>3. hg_new_flow(src, base, size, dev) = [src_dev |-> src, dst_dev |-> d, dst_dev_size |-> 1]
  BY DEF hg_new_flow
<1> HIDE DEF d
<1> QED  BY <1>2, <1>3 DEF AnyFlow, is_in_devs, Dsts

(* What a table gives gbuffer g for a read: the flow after the step has    *)
(* the reader if it is a flow of the writer.                               *)
Serves(t, g, src, dev) ==
  flow_of'[t][g] # NoFlow /\ FlowAfter(t, g).src_dev = src => is_in_devs(dev, FlowAfter(t, g))

LEMMA SetsFlow ==
  ASSUME TablesInv, NEW t \in Tables, NEW g \in Gbuffers, NEW i \in 1 .. Len(flows[t]),
         SetFlow(t, g, i)
  PROVE  TablesInv' /\ flow_of'[t][g] = i /\ flow_of'[t][g] # NoFlow /\ FlowAfter(t, g) = flows[t][i]
<1>1. flows' = flows /\ flow_of'[t][g] = i /\ i \in Nat /\ i # 0 /\ Len(flows[t]) \in Nat
  BY DEF TablesInv, SetFlow
<1>2. flow_of' \in [Tables -> [Gbuffers -> Nat]]
  BY <1>1 DEF TablesInv, SetFlow
<1>3. \A u \in Tables, h \in Gbuffers : flow_of'[u][h] <= Len(flows[u])
  BY <1>1 DEF TablesInv, SetFlow
<1> QED  BY <1>1, <1>2, <1>3 DEF TablesInv, FlowAfter, NoFlow

LEMMA AddsFlow ==
  ASSUME TablesInv, NEW t \in Tables, NEW g \in Gbuffers, NEW f \in AnyFlow, AddFlow(t, g, f)
  PROVE  /\ TablesInv'
         /\ flow_of'[t][g] # NoFlow => FlowAfter(t, g) = f
<1>0. MAX_FLOW_SIZE \in Nat /\ flows[t] \in Seq(AnyFlow) /\ Len(flows[t]) \in Nat
  BY FlowAssumption DEF TablesInv
<1>1. CASE Len(flows[t]) < MAX_FLOW_SIZE
  <2>1. flows' = [flows EXCEPT ![t] = Append(@, f)] /\ flow_of' = [flow_of EXCEPT ![t][g] = Len(flows[t]) + 1]
    BY <1>1 DEF AddFlow
  <2>2. /\ Append(flows[t], f) \in Seq(AnyFlow) /\ Len(Append(flows[t], f)) = Len(flows[t]) + 1
        /\ Append(flows[t], f)[Len(flows[t]) + 1] = f
    BY <1>0
  <2>3. flows' \in [Tables -> Seq(AnyFlow)] /\ flows'[t] = Append(flows[t], f)
    BY <2>1, <2>2 DEF TablesInv
  <2>4. flow_of' \in [Tables -> [Gbuffers -> Nat]] /\ flow_of'[t][g] = Len(flows[t]) + 1
    BY <1>0, <2>1 DEF TablesInv
  <2>5. \A u \in Tables : u # t => flows'[u] = flows[u] /\ flow_of'[u] = flow_of[u]
    BY <2>1 DEF TablesInv
  <2>6. \A h \in Gbuffers : h # g => flow_of'[t][h] = flow_of[t][h]
    BY <2>1 DEF TablesInv
  <2>7. \A u \in Tables : Len(flows'[u]) <= MAX_FLOW_SIZE
    <3>1. Len(flows'[t]) <= MAX_FLOW_SIZE
      BY <1>0, <1>1, <2>2, <2>3
    <3>2. \A u \in Tables : u # t => Len(flows'[u]) <= MAX_FLOW_SIZE
      BY <2>5, ZenonT(30) DEF TablesInv
    <3> QED  BY <3>1, <3>2
  <2>8. \A u \in Tables, h \in Gbuffers : flow_of'[u][h] <= Len(flows'[u])
    <3> SUFFICES ASSUME NEW u \in Tables, NEW h \in Gbuffers PROVE flow_of'[u][h] <= Len(flows'[u])
      OBVIOUS
    <3>1. flow_of[u][h] <= Len(flows[u]) /\ flow_of[u][h] \in Nat
      BY SMTT(20) DEF TablesInv
    <3>2. CASE u # t
      BY <2>5, <3>1, <3>2, ZenonT(30)
    <3>3. CASE u = t /\ h = g
      BY <1>0, <2>2, <2>3, <2>4, <3>3
    <3>4. CASE u = t /\ h # g
      <4>1. flow_of'[t][h] = flow_of[t][h] /\ Len(flows'[t]) = Len(flows[t]) + 1
        BY <2>2, <2>3, <2>6, <3>4, ZenonT(30)
      <4> QED  BY <1>0, <3>1, <3>4, <4>1
    <3> QED  BY <3>2, <3>3, <3>4, ZenonT(30)
  <2>9. TablesInv'
    BY <2>3, <2>4, <2>7, <2>8, ZenonT(30) DEF TablesInv
  <2>10. FlowAfter(t, g) = f /\ flow_of'[t][g] # NoFlow
    BY <1>0, <2>2, <2>3, <2>4, SMTT(20) DEF FlowAfter, NoFlow
  <2> QED  BY <2>9, <2>10, Zenon
<1>2. CASE ~(Len(flows[t]) < MAX_FLOW_SIZE)
  <2>1. flows' = flows /\ flow_of' = [flow_of EXCEPT ![t][g] = NoFlow]
    BY <1>2 DEF AddFlow
  <2>2. flow_of' \in [Tables -> [Gbuffers -> Nat]] /\ flow_of'[t][g] = NoFlow
    BY <2>1 DEF TablesInv, NoFlow
  <2>3. \A u \in Tables, h \in Gbuffers : flow_of'[u][h] <= Len(flows[u])
    BY <2>1 DEF TablesInv, NoFlow
  <2> QED  BY <2>1, <2>2, <2>3 DEF TablesInv
<1> QED  BY <1>1, <1>2

LEMMA SetServes ==
  ASSUME TablesInv, NEW t \in Tables, NEW g \in Gbuffers, NEW i \in 1 .. Len(flows[t]),
         SetFlow(t, g, i), NEW src, NEW dev, is_in_devs(dev, flows[t][i])
  PROVE  TablesInv' /\ Serves(t, g, src, dev)
<1>1. TablesInv' /\ flow_of'[t][g] # NoFlow /\ FlowAfter(t, g) = flows[t][i]
  BY SetsFlow
<1> QED  BY <1>1, Zenon DEF Serves

LEMMA AddServes ==
  ASSUME TablesInv, NEW t \in Tables, NEW g \in Gbuffers, NEW f \in AnyFlow, AddFlow(t, g, f),
         NEW src, NEW dev, is_in_devs(dev, f)
  PROVE  TablesInv' /\ Serves(t, g, src, dev)
BY AddsFlow, Zenon DEF Serves

(* A gbuffer without a flow.                                               *)
LEMMA NewUserServes ==
  ASSUME TablesInv, NEW t \in Tables, NEW g \in Gbuffers, NEW src \in Nat, NEW dev \in Nat,
         NewUser(t, g, src, dev)
  PROVE  TablesInv' /\ Serves(t, g, src, dev)
<1>1. CASE Fitting(t, src, dev) # {}
  <2> DEFINE i == First(Fitting(t, src, dev))
  <2>1. i \in Fitting(t, src, dev)
    <3>1. Fitting(t, src, dev) \subseteq 1 .. Len(flows[t])
      BY Zenon DEF Fitting
    <3>2. Fitting(t, src, dev) \in SUBSET Nat
      BY <3>1
    <3> QED  BY <1>1, <3>2, FirstIn
  <2>2. SetFlow(t, g, i)
    BY <1>1 DEF NewUser
  <2>3. i \in 1 .. Len(flows[t]) /\ is_in_devs(dev, flows[t][i])
    BY <2>1, ZenonT(30) DEF Fitting
  <2> HIDE DEF i
  <2> QED  BY <2>2, <2>3, SetServes, Zenon
<1>2. CASE Fitting(t, src, dev) = {}
  <2> DEFINE f == hg_new_flow(src, NoDst, 0, dev)
  <2>1. NoDst \in [1 .. DstLen -> Nat]
    BY DEF NoDst
  <2>2. f \in AnyFlow /\ is_in_devs(dev, f)
    BY <2>1, NewFlow
  <2>3. AddFlow(t, g, f)
    BY <1>2 DEF NewUser
  <2> HIDE DEF f
  <2> QED  BY <2>2, <2>3, AddServes, Zenon
<1> QED  BY <1>1, <1>2

(* A gbuffer with a flow keeps it, moves to another one, or forks it.      *)
LEMMA KnownUserServes ==
  ASSUME TablesInv, NEW t \in Tables, NEW g \in Gbuffers, NEW src \in Nat, NEW dev \in Nat,
         flow_of[t][g] # NoFlow, KnownUser(t, g, src, dev)
  PROVE  TablesInv' /\ Serves(t, g, src, dev)
<1> DEFINE f == flows[t][flow_of[t][g]]
<1>1. flow_of[t][g] \in 1 .. Len(flows[t]) /\ flows[t] \in Seq(AnyFlow)
  BY DEF TablesInv, NoFlow
<1>2. f \in AnyFlow
  BY <1>1
<1>3. f.dst_dev \in [1 .. DstLen -> Nat] /\ f.dst_dev_size \in Nat
  BY <1>2, ZenonT(30) DEF AnyFlow
<1>4. CASE src = f.src_dev /\ ~is_in_devs(dev, f) /\ Extending(t, f, dev) # {}
  <2> DEFINE i == First(Extending(t, f, dev))
  <2>1. i \in Extending(t, f, dev)
    <3>1. Extending(t, f, dev) \subseteq 1 .. Len(flows[t])
      BY Zenon DEF Extending
    <3>2. Extending(t, f, dev) \in SUBSET Nat
      BY <3>1
    <3> QED  BY <1>4, <3>2, FirstIn, Zenon
  <2>2. SetFlow(t, g, i)
    BY <1>4, Zenon DEF KnownUser
  <2> HIDE DEF i, f
  <2>3. /\ i \in 1 .. Len(flows[t])
        /\ flows[t][i].dst_dev_size = f.dst_dev_size + 1
        /\ flows[t][i].dst_dev[flows[t][i].dst_dev_size] = dev
    BY <2>1, ZenonT(30) DEF Extending
  <2>4. is_in_devs(dev, flows[t][i])
    BY <1>3, <2>3 DEF is_in_devs, Dsts
  <2> QED  BY <2>2, <2>3, <2>4, SetServes, Zenon
<1>5. CASE src = f.src_dev /\ ~is_in_devs(dev, f) /\ Extending(t, f, dev) = {}
  <2> DEFINE n == hg_new_flow(src, f.dst_dev, f.dst_dev_size, dev)
  <2>1. n \in AnyFlow /\ is_in_devs(dev, n)
    BY <1>3, NewFlow, ZenonT(30)
  <2>2. AddFlow(t, g, n)
    BY <1>5, ZenonT(30) DEF KnownUser
  <2> HIDE DEF n
  <2> QED  BY <2>1, <2>2, AddServes, Zenon
<1>6. CASE ~(src = f.src_dev /\ ~is_in_devs(dev, f))
  <2>1. flows' = flows /\ flow_of' = flow_of
    BY <1>6, ZenonT(30) DEF KnownUser
  <2> QED  BY <1>6, <2>1, ZenonT(30) DEF Serves, FlowAfter, TablesInv
<1> QED  BY <1>4, <1>5, <1>6, ZenonT(30)

(* A usage keeps the tables and the records, and a read of what was        *)
(* written is served.                                                      *)
LEMMA UseServes ==
  ASSUME TablesInv, UsageInv, NEW t \in Tables, NEW g \in Gbuffers, NEW dev \in Nat,
         NEW w \in BOOLEAN, Usage(t, g, dev, w)
  PROVE  /\ TablesInv' /\ UsageInv'
         /\ \A u \in Tables, h \in Gbuffers :
              ReadAfterWrite(u, h) => Serves(u, h, last_dev[u][h], last_dev'[u][h])
<1>1. last_dev' = [last_dev EXCEPT ![t][g] = dev] /\ last_write' = [last_write EXCEPT ![t][g] = w]
  BY DEF Usage
<1>2. UsageInv'
  BY <1>1 DEF UsageInv
<1>3. \A u \in Tables, h \in Gbuffers : ~(u = t /\ h = g) => last_write'[u][h] = last_write[u][h]
  BY <1>1 DEF UsageInv
<1>4. last_write'[t][g] = w /\ last_dev'[t][g] = dev /\ last_dev[t][g] \in Nat
  BY <1>1 DEF UsageInv
<1>5. CASE last_dev[t][g] = 0 \/ ~last_write[t][g] \/ w
  <2>1. flows' = flows /\ flow_of' = flow_of
    BY <1>5 DEF Usage
  <2>2. TablesInv'
    BY <2>1 DEF TablesInv
  <2>3. \A u \in Tables, h \in Gbuffers : ~ReadAfterWrite(u, h)
    BY <1>3, <1>4, <1>5, ZenonT(30) DEF ReadAfterWrite
  <2> QED  BY <1>2, <2>2, <2>3, ZenonT(30)
<1>6. CASE ~(last_dev[t][g] = 0 \/ ~last_write[t][g] \/ w)
  <2>1. TablesInv' /\ Serves(t, g, last_dev[t][g], dev)
    <3>1. CASE flow_of[t][g] = NoFlow
      BY <1>4, <1>6, <3>1, NewUserServes DEF Usage
    <3>2. CASE flow_of[t][g] # NoFlow
      BY <1>4, <1>6, <3>2, KnownUserServes DEF Usage
    <3> QED  BY <3>1, <3>2, ZenonT(30)
  <2>2. \A u \in Tables, h \in Gbuffers : ReadAfterWrite(u, h) => u = t /\ h = g
    BY <1>3, ZenonT(30) DEF ReadAfterWrite
  <2> QED  BY <1>2, <1>4, <2>1, <2>2, ZenonT(30)
<1> QED  BY <1>5, <1>6, ZenonT(30)

LEMMA FlowStep ==
  ASSUME TablesInv, UsageInv, FlowNext
  PROVE  /\ TablesInv' /\ UsageInv'
         /\ \A u \in Tables, h \in Gbuffers :
              ReadAfterWrite(u, h) => Serves(u, h, last_dev[u][h], last_dev'[u][h])
<1>1. VirtDevs \subseteq Nat /\ PhyDevs \subseteq Nat /\ "virt" \in Tables /\ "phy" \in Tables
  BY FlowAssumption DEF Tables
<1>2. PICK g \in Gbuffers :
        \/ \E dev \in VirtDevs, w \in BOOLEAN : update_gbuffer_virt_usage(g, dev, w)
        \/ \E dev \in PhyDevs, w \in BOOLEAN : update_gbuffer_phy_usage(g, dev, w)
        \/ \E dev \in PhyDevs : mem_predict_prefetch(g, dev)
        \/ Recreate(g)
  BY Zenon DEF FlowNext
<1>3. ASSUME NEW dev \in VirtDevs, NEW w \in BOOLEAN, update_gbuffer_virt_usage(g, dev, w)
      PROVE  Usage("virt", g, dev, w)
  BY <1>3, Zenon DEF update_gbuffer_virt_usage
<1>4. ASSUME NEW dev \in PhyDevs, NEW w \in BOOLEAN, update_gbuffer_phy_usage(g, dev, w)
      PROVE  Usage("phy", g, dev, w)
  BY <1>4, Zenon DEF update_gbuffer_phy_usage
<1>5. ASSUME NEW dev \in PhyDevs, mem_predict_prefetch(g, dev)
      PROVE  Usage("phy", g, dev, TRUE)
  BY <1>5, Zenon DEF mem_predict_prefetch
<1>6. ASSUME Recreate(g)
      PROVE  /\ TablesInv' /\ UsageInv'
             /\ \A u \in Tables, h \in Gbuffers : ~ReadAfterWrite(u, h)
  <2>1. TablesInv'
    BY <1>6, Zenon DEF Recreate, TablesInv
  <2>2. UsageInv'
    BY <1>6 DEF Recreate, UsageInv
  <2>3. \A u \in Tables, h \in Gbuffers : ~ReadAfterWrite(u, h)
    <3> SUFFICES ASSUME NEW u \in Tables, NEW h \in Gbuffers PROVE ~ReadAfterWrite(u, h)
      OBVIOUS
    <3>1. CASE h = g
      <4>1. last_dev'[u][h] = 0
        BY <1>6, <3>1 DEF Recreate, UsageInv
      <4> QED  BY <4>1 DEF ReadAfterWrite
    <3>2. CASE h # g
      <4>1. last_write'[u][h] = last_write[u][h]
        BY <1>6, <3>2 DEF Recreate, UsageInv
      <4> QED  BY <4>1, ZenonT(30) DEF ReadAfterWrite
    <3> QED  BY <3>1, <3>2
  <2> QED  BY <2>1, <2>2, <2>3
<1>7. CASE \E t \in Tables, dev \in Nat, w \in BOOLEAN : Usage(t, g, dev, w)
  BY <1>7, UseServes, Zenon
<1> QED  BY <1>1, <1>2, <1>3, <1>4, <1>5, <1>6, <1>7, ZenonT(30)

LEMMA FlowsStay == FlowSpec => [](TablesInv /\ UsageInv)
<1>1. FlowInit => TablesInv /\ UsageInv
  <2> SUFFICES ASSUME FlowInit PROVE TablesInv /\ UsageInv
    OBVIOUS
  <2>1. \A t \in Tables : flows[t] = <<>> /\ Len(flows[t]) = 0 /\ flows[t] \in Seq(AnyFlow)
    BY DEF FlowInit
  <2>2. flows \in [Tables -> Seq(AnyFlow)] /\ flow_of \in [Tables -> [Gbuffers -> Nat]]
    BY <2>1 DEF FlowInit, NoFlow
  <2>3. TablesInv
    BY <2>1, <2>2, FlowAssumption DEF FlowInit, TablesInv, NoFlow
  <2>4. UsageInv
    BY DEF FlowInit, UsageInv
  <2> QED  BY <2>3, <2>4
<1>2. TablesInv /\ UsageInv /\ UNCHANGED flowvars => (TablesInv /\ UsageInv)'
  BY DEF TablesInv, UsageInv, flowvars
<1> QED
  BY <1>1, <1>2, FlowStep, PTL DEF FlowSpec

(* update_gbuffer_virt_usage and update_gbuffer_phy_usage: after a tracked *)
(* read the gbuffer's flow, if it is one of the writer's, has the reader.  *)
THEOREM ReaderIsTracked == FlowSpec => ReaderIsInFlow
<1> DEFINE Tracks ==
      \A t \in Tables, g \in Gbuffers :
        ReadAfterWrite(t, g) /\ flow_of'[t][g] # NoFlow
          => (FlowAfter(t, g).src_dev = last_dev[t][g] => is_in_devs(last_dev'[t][g], FlowAfter(t, g)))
<1>1. TablesInv /\ UsageInv /\ [FlowNext]_flowvars => [Tracks]_flowvars
  BY FlowStep, Zenon DEF Serves
<1> QED
  BY <1>1, FlowsStay, PTL DEF FlowSpec, ReaderIsInFlow
===============================================================================

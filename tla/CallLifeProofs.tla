---------------------------- MODULE CallLifeProofs ----------------------------
(***************************************************************************)
(* For any number of enqueuing threads, any number of calls and any queue  *)
(* size: no finished call is lost or duplicated in the recycle queue.  For *)
(* any number of handling threads: rings, handlers and recycle queue       *)
(* together are the call service the guest sees.                           *)
(***************************************************************************)
EXTENDS CallLife, FiniteSetTheorems, TLAPS

(* What the operations on the rings do.                                    *)
LEMMA SeqEqual ==
  ASSUME NEW S, NEW r \in Seq(S), NEW s \in Seq(S), Len(r) = Len(s),
         \A i \in 1 .. Len(r) : r[i] = s[i]
  PROVE  r = s
OBVIOUS

LEMMA ConcatProperties ==
  ASSUME NEW S, NEW r \in Seq(S), NEW s \in Seq(S)
  PROVE  /\ r \o s \in Seq(S) /\ Len(r \o s) = Len(r) + Len(s)
         /\ \A i \in 1 .. Len(r) + Len(s) : (r \o s)[i] = IF i <= Len(r) THEN r[i] ELSE s[i - Len(r)]
OBVIOUS

LEMMA ConcatEmptySeq == ASSUME NEW S, NEW s \in Seq(S) PROVE s \o <<>> = s /\ <<>> \o s = s
OBVIOUS

LEMMA ConcatAssociative ==
  ASSUME NEW S, NEW q \in Seq(S), NEW r \in Seq(S), NEW s \in Seq(S)
  PROVE  (q \o r) \o s = q \o (r \o s)
OBVIOUS

LEMMA HeadTailProperties ==
  ASSUME NEW S, NEW s \in Seq(S), s # <<>>
  PROVE  /\ Head(s) \in S /\ Tail(s) \in Seq(S) /\ Len(Tail(s)) = Len(s) - 1
         /\ \A i \in 1 .. Len(Tail(s)) : Tail(s)[i] = s[i + 1]
OBVIOUS

LEMMA AppendIsConcat == ASSUME NEW S, NEW s \in Seq(S), NEW e \in S PROVE Append(s, e) = s \o <<e>>
OBVIOUS

LEMMA AppendProperties ==
  ASSUME NEW S, NEW s \in Seq(S), NEW e \in S
  PROVE  /\ Append(s, e) \in Seq(S)
         /\ Len(Append(s, e)) = Len(s) + 1 /\ Append(s, e)[Len(s) + 1] = e
         /\ \A i \in 1 .. Len(s) : Append(s, e)[i] = s[i]
OBVIOUS

LEMMA AfterInSlots == ASSUME NEW i \in Slots PROVE After(i) \in Slots
BY QueueSizeAssumption DEF Slots, After

Holds(p) == pc[p] \in {"scan", "swap"}
HasTaken == rpc \in {"advance", "release"}

(* Every call held by a thread, in a slot or taken is a real call the      *)
(* guest does not own.                                                     *)
Owned ==
  /\ \A p \in Threads : Holds(p) => call[p] \in Calls \ idle
  /\ \A i \in Slots : queue[i] # NULL => queue[i] \in Calls \ idle
  /\ HasTaken => out_call \in Calls \ idle

(* No call is in two places.                                               *)
Distinct ==
  /\ \A p, q \in Threads : Holds(p) /\ Holds(q) /\ call[p] = call[q] => p = q
  /\ \A i, j \in Slots : queue[i] # NULL /\ queue[i] = queue[j] => i = j
  /\ \A p \in Threads, i \in Slots : Holds(p) => queue[i] # call[p]
  /\ \A p \in Threads : Holds(p) /\ HasTaken => call[p] # out_call
  /\ \A i \in Slots : HasTaken => queue[i] # out_call

(* Every call the guest does not own is somewhere.                         *)
Placed ==
  \A c \in Calls \ idle : \/ \E p \in Threads : Holds(p) /\ call[p] = c
                          \/ \E i \in Slots : queue[i] = c
                          \/ HasTaken /\ out_call = c

(* What the recycling thread has read is still in the slot it will clear.  *)
Pending == rpc = "clear" => out_call # NULL /\ queue[After(header)] = out_call

Inv == TypeOK /\ Owned /\ Distinct /\ Placed /\ Pending

-------------------------------------------------------------------------------
LEMMA InitInv == Init => Inv
<1> SUFFICES ASSUME Init PROVE Inv
  OBVIOUS
<1>1. 0 \in Slots
  BY QueueSizeAssumption DEF Slots
<1>2. idle \in SUBSET Calls
  BY Zenon DEF Init
<1>3. TypeOK
  BY <1>1, <1>2, Zenon DEF Init, TypeOK
<1>4. Owned /\ Distinct /\ Placed /\ Pending
  BY DEF Init, Owned, Distinct, Placed, Pending, Holds, HasTaken
<1> QED
  BY <1>3, <1>4 DEF Inv

LEMMA BeginInv == ASSUME Inv, NEW p \in Threads, NEW c \in Calls, P_Begin(p, c) PROVE Inv'
<1> USE DEF Inv, P_Begin, qvars, rvars
<1>1. TypeOK'
  BY DEF TypeOK
<1>2. Owned'
  BY NullAssumption DEF TypeOK, Owned, Holds, HasTaken
<1>3. Distinct'
  BY NullAssumption DEF TypeOK, Owned, Distinct, Holds, HasTaken
<1>4. Placed'
  BY DEF TypeOK, Placed, Holds, HasTaken
<1>5. Pending'
  BY DEF Pending, After
<1> QED
  BY <1>1, <1>2, <1>3, <1>4, <1>5

LEMMA ScanInv == ASSUME Inv, NEW p \in Threads, P_Scan(p) PROVE Inv'
<1> USE DEF Inv, P_Scan, qvars, rvars
<1>1. TypeOK'
  BY AfterInSlots DEF TypeOK
<1>2. \A q \in Threads : Holds(q)' <=> Holds(q)
  BY DEF TypeOK, Holds
<1>3. Owned' /\ Distinct' /\ Placed'
  BY <1>2 DEF Owned, Distinct, Placed, HasTaken
<1>4. Pending'
  BY DEF Pending, After
<1> QED
  BY <1>1, <1>3, <1>4

LEMMA SwapInv == ASSUME Inv, NEW p \in Threads, P_Swap(p) PROVE Inv'
<1> USE DEF Inv, P_Swap, qvars, rvars
<1>1. After(t[p]) \in Slots /\ call[p] \in Calls \ idle
  BY AfterInSlots DEF TypeOK, Owned, Holds
<1>2. TypeOK'
  BY <1>1 DEF TypeOK
<1>3. CASE queue[After(t[p])] # NULL
  <2>1. \A q \in Threads : Holds(q)' <=> Holds(q)
    BY <1>3 DEF TypeOK, Holds
  <2>2. Owned' /\ Distinct' /\ Placed'
    BY <1>3, <2>1 DEF Owned, Distinct, Placed, HasTaken
  <2> QED
    BY <1>2, <1>3, <2>2 DEF Pending, After
<1>4. CASE queue[After(t[p])] = NULL
  <2>1. \A q \in Threads : Holds(q)' <=> Holds(q) /\ q # p
    BY <1>4 DEF TypeOK, Holds
  <2>2. Holds(p)
    BY DEF Holds
  <2>3. \A i \in Slots : queue'[i] = IF i = After(t[p]) THEN call[p] ELSE queue[i]
    BY <1>4 DEF TypeOK
  <2>4. Owned'
    BY <1>1, <1>4, <2>1, <2>3 DEF Owned, HasTaken
  <2>5. Distinct'
    BY <1>1, <1>4, <2>1, <2>2, <2>3 DEF Distinct, HasTaken
  <2>6. Placed'
    BY <1>1, <1>4, <2>1, <2>3, NullAssumption DEF Placed, HasTaken
  <2>7. Pending'
    <3>1. header \in Slots /\ After(header) \in Slots
      BY AfterInSlots DEF TypeOK
    <3> QED
      BY <1>4, <2>3, <3>1 DEF Pending, After
  <2> QED
    BY <1>2, <2>4, <2>5, <2>6, <2>7
<1> QED
  BY <1>3, <1>4

LEMMA TailInv == ASSUME Inv, NEW p \in Threads, P_Tail(p) PROVE Inv'
<1> USE DEF Inv, P_Tail, P_Return, qvars, rvars
<1>1. TypeOK'
  <2>1. 0 \in Slots
    BY QueueSizeAssumption DEF Slots
  <2> QED
    BY <2>1, AfterInSlots DEF TypeOK
<1>2. \A q \in Threads : (Holds(q)' <=> Holds(q)) /\ (Holds(q) => call'[q] = call[q])
  BY DEF TypeOK, Holds
<1>3. Owned' /\ Distinct' /\ Placed'
  BY <1>2 DEF Owned, Distinct, Placed, HasTaken
<1>4. Pending'
  BY DEF Pending, After
<1> QED
  BY <1>1, <1>3, <1>4

LEMMA RecycleInv == ASSUME Inv, recycle PROVE Inv'
<1> USE DEF Inv, qvars, pvars, Holds
<1>0. After(header) \in Slots
  BY AfterInSlots DEF TypeOK
<1>1. CASE R_Take
  <2>1. TypeOK'
    BY <1>0, <1>1 DEF R_Take, TypeOK
  <2>2. Owned' /\ Distinct' /\ Placed' /\ Pending'
    BY <1>1 DEF R_Take, Owned, Distinct, Placed, Pending, HasTaken, After
  <2> QED BY <2>1, <2>2
<1>2. CASE R_Clear
  <2>1. out_call # NULL /\ queue[After(header)] = out_call
    BY <1>2 DEF R_Clear, Pending
  <2>2. \A i \in Slots : queue'[i] = IF i = After(header) THEN NULL ELSE queue[i]
    BY <1>2 DEF R_Clear, TypeOK
  <2>3. TypeOK'
    BY <1>0, <1>2 DEF R_Clear, TypeOK
  <2>4. Owned'
    BY <1>0, <1>2, <2>1, <2>2 DEF R_Clear, Owned, HasTaken
  <2>5. Distinct'
    BY <1>0, <1>2, <2>1, <2>2, NullAssumption DEF R_Clear, Distinct, Owned, HasTaken
  <2>6. Placed'
    BY <1>0, <1>2, <2>1, <2>2 DEF R_Clear, Placed, HasTaken
  <2>7. Pending'
    BY <1>2 DEF R_Clear, Pending
  <2> QED BY <2>3, <2>4, <2>5, <2>6, <2>7
<1>3. CASE R_Advance
  <2>1. TypeOK'
    BY <1>0, <1>3 DEF R_Advance, TypeOK
  <2>2. Owned' /\ Distinct' /\ Placed' /\ Pending'
    BY <1>3 DEF R_Advance, Owned, Distinct, Placed, Pending, HasTaken
  <2> QED BY <2>1, <2>2
<1>4. CASE R_Release
  <2>1. out_call \in Calls \ idle
    BY <1>4 DEF R_Release, Owned, HasTaken
  <2>2. TypeOK'
    BY <1>4, <2>1 DEF R_Release, TypeOK
  <2>3. Owned' /\ Distinct' /\ Placed' /\ Pending'
    BY <1>4 DEF R_Release, Owned, Distinct, Placed, Pending, HasTaken
  <2> QED BY <2>2, <2>3
<1> QED
  BY <1>1, <1>2, <1>3, <1>4 DEF recycle

LEMMA NextInv == Inv /\ [Next]_vars => Inv'
<1> SUFFICES ASSUME Inv, [Next]_vars PROVE Inv'
  OBVIOUS
<1>1. CASE UNCHANGED vars
  BY <1>1 DEF vars, qvars, pvars, rvars, Inv, TypeOK, Owned, Distinct, Placed, Pending,
              Holds, HasTaken, After
<1>2. CASE Next
  BY <1>2, BeginInv, ScanInv, SwapInv, TailInv, RecycleInv DEF Next, push_free_callback
<1> QED  BY <1>1, <1>2

(* The inductive invariant.                                                *)
THEOREM Invariance == Spec => []Inv
BY NextInv, InitInv, PTL DEF Spec

(* TypeOK holds in every reachable state of RecycleQueue.                  *)
THEOREM TypeCorrect == Spec => []TypeOK
<1>1. Inv => TypeOK
  BY DEF Inv
<1> QED
  BY <1>1, Invariance, PTL

LEMMA OnePlace == Inv => EachCallInOnePlace
<1> SUFFICES ASSUME Inv, NEW c \in Calls
             PROVE  /\ c \in idle => HeldBy(c) = {} /\ SlotsOf(c) = {} /\ ~Taken(c)
                    /\ c \notin idle =>
                         \/ \E p \in Threads : HeldBy(c) = {p} /\ SlotsOf(c) = {} /\ ~Taken(c)
                         \/ \E i \in Slots : HeldBy(c) = {} /\ SlotsOf(c) = {i} /\ ~Taken(c)
                         \/ HeldBy(c) = {} /\ SlotsOf(c) = {} /\ Taken(c)
  BY Zenon DEF EachCallInOnePlace
<1> USE DEF Inv, Owned, Distinct, Holds, HasTaken, HeldBy, SlotsOf, Taken
<1>0. c # NULL
  BY NullAssumption
<1>1. CASE c \in idle
  BY <1>0, <1>1
<1>2. ASSUME NEW p \in Threads, Holds(p), call[p] = c, c \notin idle
      PROVE  HeldBy(c) = {p} /\ SlotsOf(c) = {} /\ ~Taken(c)
  BY <1>0, <1>2
<1>3. ASSUME NEW i \in Slots, queue[i] = c, c \notin idle
      PROVE  HeldBy(c) = {} /\ SlotsOf(c) = {i} /\ ~Taken(c)
  BY <1>0, <1>3
<1>4. ASSUME HasTaken, out_call = c, c \notin idle
      PROVE  HeldBy(c) = {} /\ SlotsOf(c) = {} /\ Taken(c)
  BY <1>0, <1>4
<1> QED
  BY <1>1, <1>2, <1>3, <1>4 DEF Placed

(* However many threads run push_free_callback at once, each call the      *)
(* guest does not own is in exactly one place: none is lost or doubled.    *)
THEOREM CallsConserved == Spec => []EachCallInOnePlace
BY OnePlace, Invariance, PTL

(* The plain stores of the recycling thread never wipe out a call that     *)
(* another thread has just swapped in.                                     *)
THEOREM DequeueIsSafe == Spec => []DequeuerOwnsItsSlot
<1>1. Inv => DequeuerOwnsItsSlot
  BY DEF Inv, Pending, DequeuerOwnsItsSlot
<1> QED
  BY <1>1, Invariance, PTL

-------------------------------------------------------------------------------
(* The whole way of a call.  What the threads hold between the queues.     *)
LifeTyped ==
  /\ ring \in [Handlers -> Seq(Calls)]
  /\ work \in [Handlers -> Calls \cup {NULL}]
  /\ to \in Threads
  /\ to # D => dpc = "push"
  /\ dpc = "push" => to # D /\ hold \in Calls

LifeInv == Inv /\ LifeTyped

(* A step of the whole is a step of the recycle queue, or none.            *)
LEMMA LifeSteps == ASSUME Inv, [LifeNext]_lifevars PROVE [Next]_vars
<1>1. idle \subseteq Calls
  BY DEF Inv, TypeOK
<1>2. ASSUME NEW p \in Threads, push_free_callback(p) PROVE Next
  BY <1>2 DEF Next
<1>3. ASSUME NEW p \in Threads, NEW c, P_Begin(p, c) PROVE Next
  <2>1. c \in Calls
    BY <1>1, <1>3 DEF P_Begin
  <2> QED  BY <1>3, <2>1 DEF Next
<1>4. ASSUME NEW c \in Calls, NEW p \in Threads, D_Pack(c, p) PROVE [Next]_vars
  BY <1>3, <1>4 DEF D_Pack
<1>5. CASE D_PackNothing \/ D_Push \/ D_Callback \/ D_Recycle
  BY <1>2, <1>5, DistributorAssumption DEF D_PackNothing, D_Push, D_Callback, D_Recycle, Next
<1>6. ASSUME NEW h \in Handlers, handle_thread_run(h) PROVE [Next]_vars
  <2>1. h \in Threads
    BY DEF Handlers
  <2> QED  BY <1>2, <1>3, <1>6, <2>1 DEF handle_thread_run, H_Pop, H_Handle, H_Callback
<1>7. CASE UNCHANGED lifevars
  BY <1>7 DEF lifevars
<1> QED  BY <1>4, <1>5, <1>6, <1>7 DEF LifeNext, distribute

LEMMA InitLifeInv == LifeInit => LifeInv
<1> SUFFICES ASSUME LifeInit PROVE LifeInv
  OBVIOUS
<1>1. Inv
  BY InitInv DEF LifeInit
<1>2. LifeTyped
  BY DistributorAssumption DEF LifeInit, LifeTyped
<1> QED  BY <1>1, <1>2 DEF LifeInv

LEMMA NextLifeInv == LifeInv /\ [LifeNext]_lifevars => LifeInv'
<1> SUFFICES ASSUME LifeInv, [LifeNext]_lifevars PROVE LifeInv'
  OBVIOUS
<1>1. Inv'
  BY LifeSteps, NextInv DEF LifeInv
<1> SUFFICES LifeTyped'
  BY <1>1 DEF LifeInv
<1>0. ASSUME ring' = ring, work' = work, to' = to, hold' = hold,
             dpc' = dpc \/ (dpc # "push" /\ dpc' # "push")
      PROVE  LifeTyped'
  BY <1>0 DEF LifeInv, LifeTyped
<1>2. ASSUME NEW c \in Calls, NEW p \in Threads, D_Pack(c, p) PROVE LifeTyped'
  BY <1>2, DistributorAssumption DEF D_Pack, LifeInv, LifeTyped
<1>3. CASE D_PackNothing \/ D_Callback \/ D_Recycle
  <2>1. dpc # "push" /\ dpc' # "push" /\ UNCHANGED <<hold, to, ring, work>>
    BY <1>3 DEF D_PackNothing, D_Callback, D_Recycle
  <2> QED  BY <1>0, <2>1
<1>4. CASE D_Push
  <2>1. to \in Handlers /\ ring[to] \in Seq(Calls) /\ hold \in Calls
    BY <1>4 DEF D_Push, Handlers, LifeInv, LifeTyped
  <2>2. Append(ring[to], hold) \in Seq(Calls)
    BY <2>1, AppendProperties
  <2>3. ring' = [ring EXCEPT ![to] = Append(ring[to], hold)]
    BY <1>4 DEF D_Push
  <2>4. ring' \in [Handlers -> Seq(Calls)]
    BY <2>1, <2>2, <2>3 DEF LifeInv, LifeTyped
  <2>5. to' = D /\ dpc' = "recycle" /\ work' = work
    BY <1>4 DEF D_Push
  <2> QED  BY <2>4, <2>5, DistributorAssumption DEF LifeInv, LifeTyped
<1>5. ASSUME NEW h \in Handlers, H_Pop(h) PROVE LifeTyped'
  <2>1. Head(ring[h]) \in Calls /\ Tail(ring[h]) \in Seq(Calls)
    BY <1>5, HeadTailProperties DEF H_Pop, LifeInv, LifeTyped
  <2> QED  BY <1>5, <2>1 DEF H_Pop, LifeInv, LifeTyped
<1>6. ASSUME NEW h \in Handlers, H_Handle(h) PROVE LifeTyped'
  BY <1>6 DEF H_Handle, LifeInv, LifeTyped
<1>7. ASSUME NEW h \in Handlers, H_Callback(h) PROVE LifeTyped'
  BY <1>0, <1>7 DEF H_Callback, lvars
<1>8. CASE UNCHANGED lifevars
  BY <1>0, <1>8 DEF lifevars, lvars
<1> QED
  BY <1>2, <1>3, <1>4, <1>5, <1>6, <1>7, <1>8 DEF LifeNext, distribute, handle_thread_run

(* Also between the rings and the handlers no finished call is lost or     *)
(* doubled in the recycle queue.                                           *)
THEOREM LifeKeepsCalls == LifeSpec => []EachCallInOnePlace
<1>1. LifeInv => EachCallInOnePlace
  BY OnePlace DEF LifeInv
<1> QED  BY <1>1, InitLifeInv, NextLifeInv, PTL DEF LifeSpec

-------------------------------------------------------------------------------
(* The refinement.                                                         *)
Todo == [h \in Handlers |-> InHand(h) \o ring[h] \o Pushing(h)]

LEMMA Parts ==
  ASSUME LifeTyped, NEW h \in Handlers
  PROVE  /\ InHand(h) \in Seq(Calls) /\ ring[h] \in Seq(Calls) /\ Pushing(h) \in Seq(Calls)
         /\ Todo[h] = InHand(h) \o ring[h] \o Pushing(h)
         /\ InHand(h) \o ring[h] \in Seq(Calls) /\ Todo[h] \in Seq(Calls)
<1>1. /\ InHand(h) \in Seq(Calls) /\ ring[h] \in Seq(Calls) /\ Pushing(h) \in Seq(Calls)
  BY DEF LifeTyped, InHand, Pushing, Handlers
<1>2. InHand(h) \o ring[h] \in Seq(Calls)
  BY <1>1, ConcatProperties
<1> QED  BY <1>1, <1>2, ConcatProperties DEF Todo

LEMMA CallsAssociate ==
  \A a, b, c \in Seq(Calls) : (a \o b) \o c = a \o (b \o c)
BY ConcatAssociative

LEMMA HeadTailConcat ==
  ASSUME NEW S, NEW seq \in Seq(S), seq # <<>>
  PROVE  <<Head(seq)>> \o Tail(seq) = seq
OBVIOUS

LEMMA HeadTailOfConcat ==
  ASSUME NEW S, NEW x \in S, NEW seq \in Seq(S)
  PROVE  /\ <<x>> \o seq # <<>>
         /\ Head(<<x>> \o seq) = x /\ Tail(<<x>> \o seq) = seq
<1> DEFINE s == <<x>> \o seq
<1>1. s \in Seq(S) /\ Len(s) = 1 + Len(seq) /\ s[1] = x
  OBVIOUS
<1>2. \A i \in 1 .. Len(seq) : s[i + 1] = seq[i]
  OBVIOUS
<1> HIDE DEF s
<1>3. s # <<>> /\ Head(s) = x
  BY <1>1
<1>4. Tail(s) \in Seq(S) /\ Len(Tail(s)) = Len(seq)
  BY <1>1, <1>3, HeadTailProperties
<1>5. \A i \in 1 .. Len(seq) : Tail(s)[i] = seq[i]
  BY <1>1, <1>2, <1>3, HeadTailProperties
<1>6. Tail(s) = seq
  BY <1>4, <1>5, SeqEqual
<1> QED  BY <1>3, <1>6 DEF s

(* A call is issued when it is packed for a thread.                        *)
LEMMA PackIssues ==
  ASSUME LifeInv, NEW c \in Calls, NEW p \in Threads, D_Pack(c, p)
  PROVE  [Service!Next]_<<Todo, Calls \ idle, avail>>
<1>1. CASE p = D /\ P_Begin(D, c)
  <2>1. UNCHANGED <<ring, work, hold, to>>
    BY <1>1 DEF D_Pack, P_Begin
  <2>2. Todo' = Todo
    BY <2>1 DEF Todo, InHand, Pushing
  <2>3. (Calls \ idle)' = (Calls \ idle) \cup {c} /\ c \in avail /\ avail' = avail \ {c}
    BY <1>1 DEF D_Pack, P_Begin
  <2>4. Service!Answer(c)
    BY <2>2, <2>3, Zenon DEF Service!Answer, Todo
  <2> QED  BY <2>4 DEF Service!Next
<1>2. CASE p # D /\ dpc = "turn" /\ UNCHANGED vars /\ hold' = c /\ to' = p
  <2>1. p \in Handlers /\ to = D /\ UNCHANGED <<idle, ring, work>>
    BY <1>2 DEF Handlers, LifeInv, LifeTyped, vars, D_Pack
  <2>2. \A h \in Handlers : InHand(h)' = InHand(h) /\ ring'[h] = ring[h]
    BY <2>1 DEF InHand
  <2>3. \A h \in Handlers : Pushing(h) = <<>> /\ Pushing(h)' = IF h = p THEN <<c>> ELSE <<>>
    BY <1>2, <2>1 DEF Pushing, Handlers
  <2>4. \A h \in Handlers : Todo'[h] = IF h = p THEN Append(Todo[h], c) ELSE Todo[h]
    <3> SUFFICES ASSUME NEW h \in Handlers
                 PROVE  Todo'[h] = IF h = p THEN Append(Todo[h], c) ELSE Todo[h]
      OBVIOUS
    <3> DEFINE s == InHand(h) \o ring[h]
    <3>1. s \in Seq(Calls) /\ Todo[h] = s \o Pushing(h)
      BY Parts DEF LifeInv
    <3>2. Todo'[h] = s \o Pushing(h)'
      BY <2>2, Zenon DEF Todo
    <3> HIDE DEF s
    <3>3. Todo[h] = s
      BY <2>3, <3>1, ConcatEmptySeq
    <3>4. CASE h = p
      BY <2>3, <3>1, <3>2, <3>3, <3>4, AppendIsConcat, ZenonT(30)
    <3>5. CASE h # p
      BY <2>3, <3>1, <3>2, <3>3, <3>5
    <3> QED  BY <3>4, <3>5
  <2>5. Todo' = [Todo EXCEPT ![p] = Append(@, c)]
    BY <2>1, <2>4, Zenon DEF Todo
  <2>6. Service!Issue(c, p)
    BY <2>1, <2>5 DEF Service!Issue, Todo, D_Pack
  <2> QED  BY <2>1, <2>6 DEF Service!Next
<1> QED  BY <1>1, <1>2 DEF D_Pack

(* A call is served when its callback begins.                              *)
LEMMA HandleServes ==
  ASSUME LifeInv, NEW h \in Handlers, H_Handle(h)
  PROVE  [Service!Next]_<<Todo, Calls \ idle, avail>>
<1> DEFINE c == work[h]
           r == ring[h] \o Pushing(h)
<1>1. /\ c \in Calls /\ c \in idle /\ idle' = idle \ {c}
      /\ work' = [work EXCEPT ![h] = NULL]
      /\ avail' = avail /\ ring' = ring /\ to' = to /\ hold' = hold
  BY DEF H_Handle, P_Begin, LifeInv, LifeTyped
<1>2. InHand(h) = <<c>> /\ InHand(h)' = <<>>
  BY <1>1 DEF InHand, H_Handle, LifeInv, LifeTyped
<1>3. \A g \in Handlers : g # h => InHand(g)' = InHand(g)
  BY <1>1 DEF InHand, LifeInv, LifeTyped
<1>4. \A g \in Handlers : ring'[g] = ring[g] /\ Pushing(g)' = Pushing(g)
  BY <1>1 DEF Pushing
<1>5. r \in Seq(Calls)
  BY Parts, ConcatProperties DEF LifeInv
<1>6. Todo[h] = <<c>> \o r
  <2>1. <<c>> \in Seq(Calls) /\ ring[h] \in Seq(Calls) /\ Pushing(h) \in Seq(Calls)
    BY <1>1, Parts DEF LifeInv
  <2>2. (<<c>> \o ring[h]) \o Pushing(h) = <<c>> \o r
    BY <2>1, CallsAssociate, Zenon
  <2>3. Todo[h] = (InHand(h) \o ring[h]) \o Pushing(h)
    BY DEF Todo
  <2> QED  BY <1>2, <2>2, <2>3, Zenon
<1>7. Todo'[h] = r
  <2>1. Todo'[h] = (<<>> \o ring[h]) \o Pushing(h)
    BY <1>2, <1>4, Zenon DEF Todo
  <2>2. <<>> \o ring[h] = ring[h]
    BY Parts, ConcatEmptySeq DEF LifeInv
  <2> QED  BY <2>1, <2>2
<1>8. \A g \in Handlers : g # h => Todo'[g] = Todo[g]
  BY <1>3, <1>4, Zenon DEF Todo
<1> HIDE DEF c, r
<1>9. Todo[h] # <<>> /\ Head(Todo[h]) = c /\ Tail(Todo[h]) = r
  BY <1>1, <1>5, <1>6, HeadTailOfConcat
<1>10. Todo' = [Todo EXCEPT ![h] = Tail(Todo[h])]
  BY <1>7, <1>8, <1>9, Zenon DEF Todo
<1>11. (Calls \ idle)' = (Calls \ idle) \cup {Head(Todo[h])}
  BY <1>1, <1>9
<1>12. Service!Serve(h)
  BY <1>1, <1>9, <1>10, <1>11 DEF Service!Serve, Todo
<1> QED  BY <1>12 DEF Service!Next

(* The steps in between: pushing and popping move a call along.            *)
LEMMA PushStutters ==
  ASSUME LifeInv, D_Push
  PROVE  UNCHANGED <<Todo, Calls \ idle, avail>>
<1>1. /\ to \in Handlers /\ hold \in Calls /\ to' = D /\ work' = work /\ idle' = idle
      /\ avail' = avail /\ ring' = [ring EXCEPT ![to] = Append(ring[to], hold)]
  BY DEF D_Push, Handlers, LifeInv, LifeTyped, vars
<1>2. ASSUME NEW h \in Handlers PROVE Todo'[h] = Todo[h]
  <2>1. /\ InHand(h) \in Seq(Calls) /\ ring[h] \in Seq(Calls) /\ Pushing(h) \in Seq(Calls)
        /\ Todo[h] = (InHand(h) \o ring[h]) \o Pushing(h)
        /\ InHand(h) \o ring[h] \in Seq(Calls)
    BY Parts DEF LifeInv
  <2>2. Todo'[h] = (InHand(h)' \o ring'[h]) \o Pushing(h)' /\ InHand(h)' = InHand(h)
    BY <1>1, Zenon DEF Todo, InHand
  <2>3. Pushing(h)' = <<>>
    BY <1>1 DEF Pushing, Handlers
  <2>4. CASE h # to
    <3>1. Pushing(h) = <<>> /\ ring'[h] = ring[h]
      BY <1>1, <2>4 DEF Pushing, LifeInv, LifeTyped
    <3> QED  BY <2>1, <2>2, <2>3, <3>1
  <2>5. CASE h = to
    <3>1. Pushing(h) = <<hold>> /\ ring'[h] = ring[h] \o <<hold>>
      BY <1>1, <2>1, <2>5, AppendIsConcat DEF Pushing, LifeInv, LifeTyped
    <3>2. InHand(h) \o (ring[h] \o <<hold>>) = (InHand(h) \o ring[h]) \o <<hold>>
      <4>1. <<hold>> \in Seq(Calls)
        BY <1>1
      <4> QED  BY <2>1, <4>1, CallsAssociate, ZenonT(30)
    <3>3. Todo[h] \in Seq(Calls)
      BY Parts DEF LifeInv
    <3>4. Todo[h] \o <<>> = Todo[h]
      BY <3>3, ConcatEmptySeq
    <3> QED  BY <2>1, <2>2, <2>3, <3>1, <3>2, <3>4, Zenon
  <2> QED  BY <2>4, <2>5
<1>3. Todo' = Todo
  BY <1>2, Zenon DEF Todo
<1> QED  BY <1>1, <1>3

LEMMA PopStutters ==
  ASSUME LifeInv, NEW h \in Handlers, H_Pop(h)
  PROVE  UNCHANGED <<Todo, Calls \ idle, avail>>
<1> DEFINE c == Head(ring[h])
           r == Tail(ring[h])
<1>1. /\ idle' = idle /\ avail' = avail /\ to' = to /\ hold' = hold
      /\ work[h] = NULL /\ ring[h] # <<>> /\ ring[h] \in Seq(Calls)
      /\ work' = [work EXCEPT ![h] = c] /\ ring' = [ring EXCEPT ![h] = r]
  BY DEF H_Pop, LifeInv, LifeTyped, vars
<1>2. c \in Calls /\ r \in Seq(Calls)
  BY <1>1, HeadTailProperties
<1>3. <<c>> \o r = ring[h]
  BY <1>1, HeadTailConcat
<1> HIDE DEF c, r
<1>4. ASSUME NEW g \in Handlers PROVE Todo'[g] = Todo[g]
  <2>1. /\ Todo[g] = (InHand(g) \o ring[g]) \o Pushing(g)
        /\ Todo'[g] = (InHand(g)' \o ring'[g]) \o Pushing(g)'
        /\ Pushing(g)' = Pushing(g)
    BY <1>1, Zenon DEF Todo, Pushing
  <2>2. CASE g # h
    BY <1>1, <2>1, <2>2 DEF InHand, LifeInv, LifeTyped
  <2>3. CASE g = h
    <3>1. InHand(g) = <<>> /\ InHand(g)' = <<c>> /\ ring'[g] = r
      BY <1>1, <1>2, <2>3, NullAssumption DEF InHand, LifeInv, LifeTyped
    <3>2. <<>> \o ring[g] = ring[g]
      BY <1>1, <2>3, ConcatEmptySeq
    <3> QED  BY <1>3, <2>1, <2>3, <3>1, <3>2, Zenon
  <2> QED  BY <2>2, <2>3
<1>5. Todo' = Todo
  BY <1>4, Zenon DEF Todo
<1> QED  BY <1>1, <1>5

(* A call comes back when the distributor releases it.                     *)
LEMMA ReleaseReturns ==
  ASSUME LifeInv, D_Recycle
  PROVE  [Service!Next]_<<Todo, Calls \ idle, avail>>
<1>1. Todo' = Todo
  BY DEF D_Recycle, Todo, InHand, Pushing
<1>2. CASE recycle /\ rpc = "release"
  <2>1. R_Release
    BY <1>2 DEF recycle, R_Take, R_Clear, R_Advance
  <2>2. out_call \in Calls /\ out_call \notin idle
    BY <1>2 DEF LifeInv, Inv, TypeOK, Owned, HasTaken
  <2>3. idle' = idle \cup {out_call} /\ avail' = avail \cup {out_call}
    BY <1>2, <2>1 DEF R_Release, D_Recycle
  <2>4. Service!Return(out_call)
    BY <1>1, <2>2, <2>3, Zenon DEF Service!Return, Todo
  <2> QED  BY <2>2, <2>4 DEF Service!Next
<1>3. CASE ~(recycle /\ rpc = "release")
  <2>1. idle' = idle /\ avail' = avail
    BY <1>3 DEF D_Recycle, recycle, R_Take, R_Clear, R_Advance, R_Release, vars
  <2> QED  BY <1>1, <2>1
<1> QED  BY <1>2, <1>3

LEMMA LifeStepServes ==
  ASSUME LifeInv, [LifeNext]_lifevars
  PROVE  [Service!Next]_<<Todo, Calls \ idle, avail>>
<1>0. ASSUME UNCHANGED <<idle, avail, ring, work, to, hold>>
      PROVE  UNCHANGED <<Todo, Calls \ idle, avail>>
  BY <1>0, SMTT(20) DEF Todo, InHand, Pushing
<1>1. ASSUME NEW p \in Threads, push_free_callback(p), UNCHANGED <<avail, ring, work, to, hold>>
      PROVE  UNCHANGED <<Todo, Calls \ idle, avail>>
  BY <1>0, <1>1 DEF push_free_callback, P_Scan, P_Swap, P_Tail
<1>2. CASE D_Callback
  BY <1>1, <1>2, DistributorAssumption DEF D_Callback
<1>3. CASE D_PackNothing
  BY <1>0, <1>3 DEF D_PackNothing, vars
<1>4. ASSUME NEW h \in Handlers, H_Callback(h)
      PROVE  UNCHANGED <<Todo, Calls \ idle, avail>>
  BY <1>1, <1>4 DEF H_Callback, lvars, Handlers
<1>5. CASE UNCHANGED lifevars
  BY <1>0, <1>5 DEF lifevars, vars, lvars
<1> QED
  BY <1>2, <1>3, <1>4, <1>5, PackIssues, HandleServes, PushStutters, PopStutters, ReleaseReturns
     DEF LifeNext, distribute, handle_thread_run

(* To the guest the rings, the handlers and the recycle queue together are *)
(* the call service: the calls of one thread are served in the order of    *)
(* their issue, each once, and each comes back once, after it was served.  *)
THEOREM LifeImplementsService == LifeSpec => ImplementsService
<1>1. LifeInit => Service!Init
  <2> SUFFICES ASSUME LifeInit PROVE Service!Init
    OBVIOUS
  <2>1. \A h \in Handlers : InHand(h) = <<>> /\ Pushing(h) = <<>> /\ ring[h] = <<>>
    BY DEF LifeInit, InHand, Pushing, Handlers
  <2>2. \A h \in Handlers : InHand(h) \o ring[h] \o Pushing(h) = <<>>
    BY <2>1
  <2> QED  BY <2>2 DEF LifeInit, Init, Service!Init
<1>2. LifeInv /\ [LifeNext]_lifevars =>
        [Service!Next]_<<[h \in Handlers |-> InHand(h) \o ring[h] \o Pushing(h)],
                         Calls \ idle, avail>>
  BY LifeStepServes, Zenon DEF Todo
<1> QED
  BY <1>1, <1>2, InitLifeInv, NextLifeInv, PTL DEF LifeSpec, ImplementsService, Service!Spec

-------------------------------------------------------------------------------
(* The size of the recycle queue.  Every call is with the guest, served,   *)
(* or at one place of one thread's sequence.                               *)
Copy(td, sv, av) ==
  /\ td \in [Handlers -> Seq(Calls)]
  /\ av \subseteq Calls /\ sv \subseteq Calls /\ av \cap sv = {}
  /\ \A h \in Handlers : \A i \in 1 .. Len(td[h]) : td[h][i] \notin av \cup sv
  /\ \A g, h \in Handlers : \A i \in 1 .. Len(td[g]), j \in 1 .. Len(td[h]) :
       td[g][i] = td[h][j] => g = h /\ i = j
  /\ \A c \in Calls \ (av \cup sv) : \E h \in Handlers : \E i \in 1 .. Len(td[h]) : td[h][i] = c

Copies == Copy(Todo, Calls \ idle, avail)

(* The k-th slot after slot i.                                             *)
Nth(i, k) == IF i + k < QueueSize THEN i + k ELSE i + k - QueueSize

(* The n slots after slot b are filled, the others empty.                  *)
Filled(b, n) == \A k \in 1 .. QueueSize : queue[Nth(b, k)] # NULL <=> k <= n

(* The slot before the oldest call.                                        *)
Front == IF rpc = "advance" THEN After(header) ELSE header

(* The filled slots are in one piece, and tail is at its end, or one slot  *)
(* before it while a callback still has to move it.                        *)
Piece(n) ==
  /\ Filled(Front, n)
  /\ \A p \in Threads : pc[p] # "idle" => origin_tail[p] = tail /\ t[p] = tail
  /\ (\E p \in Threads : pc[p] = "tail") => After(tail) = Nth(Front, n)
  /\ (\A p \in Threads : pc[p] # "tail") => tail = Nth(Front, n)

Contiguous == \E n \in 0 .. QueueSize : Piece(n)

Serial == \A p, q \in Threads : pc[p] # "idle" /\ pc[q] # "idle" => p = q

(* How many calls the guest can have under way.                            *)
UnderWay == Cardinality(Calls \ avail) <= IF dpc = "turn" THEN CallBufSize ELSE CallBufSize + 1

(* Who runs a callback does nothing else.                                  *)
Busy ==
  /\ pc[D] # "idle" => dpc = "callback"
  /\ \A h \in Handlers : /\ work[h] # NULL => pc[h] = "idle"
                         /\ Len(ring[h]) <= RingCapacity

OneAtATime ==
  Cardinality(Handlers) = 1 /\ ~overlap => Serial /\ Contiguous /\ UnderWay

FitInv == LifeInv /\ Copies /\ Busy /\ OneAtATime

LEMMA IssueKeepsCopies ==
  ASSUME NEW td, NEW sv, NEW av, Copy(td, sv, av), NEW h \in Handlers, NEW c \in av,
         NEW new, new = [td EXCEPT ![h] = Append(td[h], c)]
  PROVE  Copy(new, sv, av \ {c})
<1>1. /\ new \in [Handlers -> Seq(Calls)]
      /\ Len(new[h]) = Len(td[h]) + 1 /\ new[h][Len(td[h]) + 1] = c
      /\ \A i \in 1 .. Len(td[h]) : new[h][i] = td[h][i]
      /\ \A g \in Handlers : g # h => new[g] = td[g]
  <2>1. td \in [Handlers -> Seq(Calls)] /\ c \in Calls  BY DEF Copy
  <2>2. new[h] = Append(td[h], c) /\ \A g \in Handlers : g # h => new[g] = td[g]
    BY <2>1, Zenon
  <2>3. td[h] \in Seq(Calls) /\ Append(td[h], c) \in Seq(Calls)  BY <2>1
  <2>4. new \in [Handlers -> Seq(Calls)]  BY <2>1, <2>3, Zenon
  <2> QED  BY <2>2, <2>3, <2>4, AppendProperties
<1>2. \A g \in Handlers : Len(td[g]) \in Nat
  BY DEF Copy
<1>3. \A g \in Handlers : \A i \in 1 .. Len(new[g]) :
        \/ i \in 1 .. Len(td[g]) /\ new[g][i] = td[g][i]
        \/ g = h /\ i = Len(td[h]) + 1 /\ new[g][i] = c
  BY <1>1, <1>2
<1>4. \A g \in Handlers : \A i \in 1 .. Len(td[g]) : i \in 1 .. Len(new[g]) /\ new[g][i] = td[g][i]
  BY <1>1, <1>2
<1>5. Len(td[h]) + 1 \in 1 .. Len(new[h])
  BY <1>1, <1>2
<1>6. \A g \in Handlers : \A i \in 1 .. Len(new[g]) : new[g][i] \notin (av \ {c}) \cup sv
  BY <1>3 DEF Copy
<1>7. \A f, g \in Handlers : \A i \in 1 .. Len(new[f]), j \in 1 .. Len(new[g]) :
        new[f][i] = new[g][j] => f = g /\ i = j
  BY <1>3 DEF Copy
<1>8. \A d \in Calls \ ((av \ {c}) \cup sv) :
        \E g \in Handlers : \E i \in 1 .. Len(new[g]) : new[g][i] = d
  <2> SUFFICES ASSUME NEW d \in Calls \ ((av \ {c}) \cup sv)
               PROVE  \E g \in Handlers : \E i \in 1 .. Len(new[g]) : new[g][i] = d
    BY Zenon
  <2>1. CASE d = c
    BY <1>1, <1>5, <2>1
  <2>2. CASE d # c
    BY <1>4, <2>2 DEF Copy
  <2> QED  BY <2>1, <2>2
<1> QED  BY <1>1, <1>6, <1>7, <1>8, ZenonT(30) DEF Copy

LEMMA ServeKeepsCopies ==
  ASSUME NEW td, NEW sv, NEW av, Copy(td, sv, av), NEW h \in Handlers, td[h] # <<>>,
         NEW new, new = [td EXCEPT ![h] = Tail(td[h])]
  PROVE  Copy(new, sv \cup {Head(td[h])}, av)
<1> DEFINE c == Head(td[h])
<1>1. /\ new \in [Handlers -> Seq(Calls)]
      /\ Len(new[h]) = Len(td[h]) - 1 /\ td[h][1] = c /\ c \in Calls
      /\ \A i \in 1 .. Len(new[h]) : new[h][i] = td[h][i + 1]
      /\ \A g \in Handlers : g # h => new[g] = td[g]
  <2>1. td[h] \in Seq(Calls)
    BY DEF Copy
  <2>2. /\ Tail(td[h]) \in Seq(Calls) /\ Len(Tail(td[h])) = Len(td[h]) - 1
        /\ \A i \in 1 .. Len(Tail(td[h])) : Tail(td[h])[i] = td[h][i + 1]
        /\ td[h][1] = c /\ c \in Calls
    BY <2>1, HeadTailProperties
  <2> HIDE DEF c
  <2> QED  BY <2>2 DEF Copy
<1> HIDE DEF c
<1>2. (\A g \in Handlers : Len(td[g]) \in Nat) /\ Len(td[h]) > 0
  BY DEF Copy
<1>3. 1 \in 1 .. Len(td[h])
  BY <1>2
<1>4. \A i \in 1 .. Len(new[h]) : i + 1 \in 1 .. Len(td[h]) /\ i + 1 # 1
  BY <1>1, <1>2
<1>5. \A g \in Handlers : \A i \in 1 .. Len(new[g]) : new[g][i] \notin av \cup (sv \cup {c})
  <2> SUFFICES ASSUME NEW g \in Handlers, NEW i \in 1 .. Len(new[g])
               PROVE  new[g][i] \notin av \cup (sv \cup {c})
    OBVIOUS
  <2>1. CASE g = h
    BY <1>1, <1>3, <1>4, <2>1 DEF Copy
  <2>2. CASE g # h
    BY <1>1, <1>3, <2>2 DEF Copy
  <2> QED  BY <2>1, <2>2
<1>6. \A f, g \in Handlers : \A i \in 1 .. Len(new[f]), j \in 1 .. Len(new[g]) :
        new[f][i] = new[g][j] => f = g /\ i = j
  <2> SUFFICES ASSUME NEW f \in Handlers, NEW g \in Handlers, NEW i \in 1 .. Len(new[f]),
                      NEW j \in 1 .. Len(new[g]), new[f][i] = new[g][j]
               PROVE  f = g /\ i = j
    OBVIOUS
  <2>1. CASE f = h /\ g = h
    <3>1. i + 1 = j + 1
      BY <1>1, <1>4, <2>1 DEF Copy
    <3> QED  BY <2>1, <3>1
  <2>2. CASE f = h /\ g # h
    BY <1>1, <1>4, <2>2 DEF Copy
  <2>3. CASE f # h /\ g = h
    BY <1>1, <1>4, <2>3 DEF Copy
  <2>4. CASE f # h /\ g # h
    BY <1>1, <2>4 DEF Copy
  <2> QED  BY <2>1, <2>2, <2>3, <2>4
<1>7. \A d \in Calls \ (av \cup (sv \cup {c})) :
        \E g \in Handlers : \E i \in 1 .. Len(new[g]) : new[g][i] = d
  <2> SUFFICES ASSUME NEW d \in Calls \ (av \cup (sv \cup {c}))
               PROVE  \E g \in Handlers : \E i \in 1 .. Len(new[g]) : new[g][i] = d
    BY Zenon
  <2>1. PICK g \in Handlers : \E i \in 1 .. Len(td[g]) : td[g][i] = d
    BY DEF Copy
  <2>2. PICK i \in 1 .. Len(td[g]) : td[g][i] = d
    BY <2>1
  <2>3. CASE g = h
    <3>1. i # 1
      BY <1>1, <2>2, <2>3
    <3>2. i - 1 \in 1 .. Len(new[h]) /\ i = (i - 1) + 1
      BY <1>1, <1>2, <2>3, <3>1
    <3>3. new[h][i - 1] = td[h][i]
      BY <1>1, <3>2
    <3> QED  BY <2>2, <2>3, <3>2, <3>3
  <2>4. CASE g # h
    BY <1>1, <2>2, <2>4
  <2> QED  BY <2>3, <2>4
<1>8. sv \cup {c} \subseteq Calls /\ av \subseteq Calls /\ av \cap (sv \cup {c}) = {}
  BY <1>1, <1>3 DEF Copy
<1>9. Copy(new, sv \cup {c}, av)
  BY <1>1, <1>5, <1>6, <1>7, <1>8, Zenon DEF Copy
<1> QED  BY <1>9 DEF c

LEMMA AnswerKeepsCopies ==
  ASSUME NEW td, NEW sv, NEW av, Copy(td, sv, av), NEW c \in av
  PROVE  Copy(td, sv \cup {c}, av \ {c})
<1>1. (av \ {c}) \cup (sv \cup {c}) = av \cup sv /\ c \in Calls
  BY DEF Copy
<1>2. av \ {c} \subseteq Calls /\ sv \cup {c} \subseteq Calls /\ (av \ {c}) \cap (sv \cup {c}) = {}
  BY DEF Copy
<1> QED  BY <1>1, <1>2 DEF Copy

LEMMA ReturnKeepsCopies ==
  ASSUME NEW td, NEW sv, NEW av, Copy(td, sv, av), NEW c \in sv
  PROVE  Copy(td, sv \ {c}, av \cup {c})
<1>1. (av \cup {c}) \cup (sv \ {c}) = av \cup sv /\ c \in Calls
  BY DEF Copy
<1>2. av \cup {c} \subseteq Calls /\ sv \ {c} \subseteq Calls /\ (av \cup {c}) \cap (sv \ {c}) = {}
  BY DEF Copy
<1> QED  BY <1>1, <1>2 DEF Copy

LEMMA StepKeepsCopies ==
  ASSUME Copies, [Service!Next]_<<Todo, Calls \ idle, avail>> PROVE Copies'
<1> DEFINE sv == Calls \ idle
<1>0. Copy(Todo, sv, avail)
  BY DEF Copies
<1> SUFFICES Copy(Todo', sv', avail')
  BY DEF Copies, Copy
<1>1. ASSUME NEW h \in Handlers, Service!Serve(h) PROVE Copy(Todo', sv', avail')
  <2>1. /\ Todo[h] # <<>> /\ Todo' = [Todo EXCEPT ![h] = Tail(Todo[h])]
        /\ sv' = sv \cup {Head(Todo[h])} /\ avail' = avail
    BY <1>1 DEF Service!Serve, Todo
  <2> HIDE DEF sv
  <2> QED  BY <1>0, <2>1, ServeKeepsCopies, ZenonT(30)
<1>2. ASSUME NEW h \in Handlers, NEW c \in Calls, Service!Issue(c, h)
      PROVE  Copy(Todo', sv', avail')
  <2>1. /\ c \in avail /\ Todo' = [Todo EXCEPT ![h] = Append(Todo[h], c)]
        /\ sv' = sv /\ avail' = avail \ {c}
    BY <1>2 DEF Service!Issue, Todo
  <2> HIDE DEF sv
  <2> QED  BY <1>0, <2>1, IssueKeepsCopies, ZenonT(30)
<1>3. ASSUME NEW c \in Calls, Service!Answer(c) PROVE Copy(Todo', sv', avail')
  <2>1. c \in avail /\ Todo' = Todo /\ sv' = sv \cup {c} /\ avail' = avail \ {c}
    BY <1>3, Zenon DEF Service!Answer, Todo
  <2> HIDE DEF sv
  <2> QED  BY <1>0, <2>1, AnswerKeepsCopies
<1>4. ASSUME NEW c \in Calls, Service!Return(c) PROVE Copy(Todo', sv', avail')
  <2>1. c \in sv /\ Todo' = Todo /\ sv' = sv \ {c} /\ avail' = avail \cup {c}
    BY <1>4, Zenon DEF Service!Return, Todo
  <2> HIDE DEF sv
  <2> QED  BY <1>0, <2>1, ReturnKeepsCopies
<1>5. CASE UNCHANGED <<Todo, Calls \ idle, avail>>
  <2>1. Todo' = Todo /\ sv' = sv /\ avail' = avail
    BY <1>5
  <2> HIDE DEF sv
  <2> QED  BY <1>0, <2>1
<1> HIDE DEF sv
<1> QED  BY <1>1, <1>2, <1>3, <1>4, <1>5 DEF Service!Next

-------------------------------------------------------------------------------
(* Slots in a circle.                                                      *)
LEMMA AfterIsNext ==
  ASSUME NEW i \in Slots
  PROVE  After(i) = Nth(i, 1) /\ Nth(i, 0) = i /\ Nth(i, QueueSize) = i
BY QueueSizeAssumption DEF Slots, After, Nth

LEMMA NthProperties ==
  ASSUME NEW i \in Slots
  PROVE  /\ \A k \in 0 .. QueueSize : Nth(i, k) \in Slots
         /\ \A k, l \in 1 .. QueueSize : Nth(i, k) = Nth(i, l) => k = l
         /\ \A j \in Slots : \E k \in 1 .. QueueSize : j = Nth(i, k)
         /\ \A k \in 0 .. QueueSize - 1 : /\ Nth(Nth(i, 1), k) = Nth(i, k + 1)
                                          /\ Nth(Nth(i, k), 1) = Nth(i, k + 1)
<1> USE QueueSizeAssumption DEF Slots, Nth
<1>1. /\ \A k \in 0 .. QueueSize : Nth(i, k) \in Slots
      /\ \A k, l \in 1 .. QueueSize : Nth(i, k) = Nth(i, l) => k = l
  OBVIOUS
<1>2. \A k \in 0 .. QueueSize - 1 : /\ Nth(Nth(i, 1), k) = Nth(i, k + 1)
                                    /\ Nth(Nth(i, k), 1) = Nth(i, k + 1)
  OBVIOUS
<1>3. ASSUME NEW j \in Slots PROVE \E k \in 1 .. QueueSize : j = Nth(i, k)
  <2>1. CASE j > i
    <3>1. j - i \in 1 .. QueueSize /\ j = Nth(i, j - i)
      BY <2>1
    <3> QED  BY <3>1, Zenon
  <2>2. CASE j <= i
    <3>1. j - i + QueueSize \in 1 .. QueueSize /\ j = Nth(i, j - i + QueueSize)
      BY <2>2
    <3> QED  BY <3>1
  <2> QED  BY <2>1, <2>2
<1> QED  BY <1>1, <1>2, <1>3

-------------------------------------------------------------------------------
(* Counting.                                                               *)
LEMMA FewElements ==
  ASSUME NEW S, NEW seq \in Seq(S), NEW T, T = {seq[i] : i \in 1 .. Len(seq)}
  PROVE  IsFiniteSet(T) /\ Cardinality(T) \in Nat /\ Cardinality(T) <= Len(seq)
<1>1. Len(seq) \in Nat /\ seq \in [1 .. Len(seq) -> T]
  OBVIOUS
<1>2. seq \in Surjection(1 .. Len(seq), T)
  BY <1>1 DEF Surjection
<1>3. IsFiniteSet(1 .. Len(seq)) /\ Cardinality(1 .. Len(seq)) = Len(seq)
  BY <1>1, FS_Interval
<1>4. IsFiniteSet(T) /\ Cardinality(T) <= Len(seq)
  BY <1>2, <1>3, FS_Surjection
<1> QED  BY <1>4, FS_CardinalityType

LEMMA CallsFinite ==
  ASSUME NEW S, S \subseteq Calls PROVE IsFiniteSet(S) /\ Cardinality(S) \in Nat
<1>1. IsFiniteSet(S)
  BY CallsAssumption, FS_Subset, Zenon
<1> QED  BY <1>1, FS_CardinalityType

(* A full queue and one more call in a thread's hands are too many.        *)
LEMMA FullIsTooMuch ==
  ASSUME Inv, avail \subseteq idle, Cardinality(Calls \ avail) <= CallBufSize + 1,
         \A i \in Slots : queue[i] # NULL, NEW p \in Threads, Holds(p)
  PROVE  FALSE
<1> DEFINE f == [i \in 0 .. QueueSize |-> IF i \in Slots THEN queue[i] ELSE call[p]]
           Out == Calls \ avail
<1>1. \A i \in 0 .. QueueSize : i \notin Slots => i = QueueSize
  BY QueueSizeAssumption DEF Slots
<1>2. \A i \in Slots : queue[i] \in Out
  BY DEF Inv, Owned
<1>3. call[p] \in Out
  BY DEF Inv, Owned
<1>4. f \in [0 .. QueueSize -> Out]
  BY <1>2, <1>3
<1>5. \A i, j \in 0 .. QueueSize : f[i] = f[j] => i = j
  BY <1>1 DEF Inv, Distinct
<1> HIDE DEF f
<1>6. f \in Injection(0 .. QueueSize, Out)
  BY <1>4, <1>5 DEF Injection, IsInjective
<1>7. IsFiniteSet(Out) /\ Cardinality(Out) \in Nat
  BY CallsFinite
<1>8. Cardinality(0 .. QueueSize) <= Cardinality(Out)
  BY <1>6, <1>7, FS_Injection
<1>9. Cardinality(0 .. QueueSize) = QueueSize + 1
  BY FS_Interval, QueueSizeAssumption
<1> QED  BY <1>7, <1>8, <1>9, QueueSizeAssumption, RoomAssumption, SizeAssumption

LEMMA OneHandler ==
  ASSUME Cardinality(Handlers) = 1
  PROVE  \E h \in Handlers : Handlers = {h}
<1>1. IsFiniteSet(Handlers)
  BY DistributorAssumption, FS_Subset DEF Handlers
<1> QED  BY <1>1, FS_Singleton

(* When the distributor finds no call to recycle, all that are under way   *)
(* fit into the ring and the hands of its thread.                          *)
LEMMA FewUnderWay ==
  ASSUME FitInv, NEW h \in Handlers, Handlers = {h}, Contiguous,
         dpc = "recycle", rpc = "poll", queue[After(header)] = NULL
  PROVE  Cardinality(Calls \ avail) <= CallBufSize
<1>1. PICK n \in 0 .. QueueSize : Filled(header, n)
  BY DEF Contiguous, Piece, Front
<1>2. header \in Slots
  BY DEF FitInv, LifeInv, Inv, TypeOK
<1>3. \A i \in Slots : queue[i] = NULL
  <2>1. queue[Nth(header, 1)] = NULL /\ 1 \in 1 .. QueueSize
    BY <1>2, AfterIsNext, QueueSizeAssumption
  <2>2. n = 0
    BY <1>1, <2>1 DEF Filled
  <2>3. \A k \in 1 .. QueueSize : queue[Nth(header, k)] = NULL
    BY <1>1, <2>2 DEF Filled
  <2>4. \A i \in Slots : \E k \in 1 .. QueueSize : i = Nth(header, k)
    BY <1>2, NthProperties
  <2> QED  BY <2>3, <2>4
<1>4. \A p \in Threads : Holds(p) => p = h
  BY DEF FitInv, Busy, Holds, Handlers
<1>5. \A c \in Calls \ idle : Holds(h) /\ c = call[h]
  BY <1>3, <1>4, NullAssumption, ZenonT(30) DEF FitInv, LifeInv, Inv, Placed, HasTaken
<1> DEFINE T == {Todo[h][i] : i \in 1 .. Len(Todo[h])}
           n1 == Len(InHand(h))
           n2 == Len(ring[h])
<1>6. /\ InHand(h) \in Seq(Calls) /\ ring[h] \in Seq(Calls)
      /\ Todo[h] \in Seq(Calls) /\ Todo[h] = (InHand(h) \o ring[h]) \o Pushing(h)
      /\ InHand(h) \o ring[h] \in Seq(Calls)
  BY Parts DEF FitInv, LifeInv
<1>7. Pushing(h) = <<>>
  BY DEF FitInv, LifeInv, LifeTyped, Pushing, Handlers
<1>8. Todo[h] = InHand(h) \o ring[h]
  BY <1>6, <1>7, ConcatEmptySeq
<1>9. Len(Todo[h]) = n1 + n2 /\ n1 \in Nat /\ n2 \in Nat
  BY <1>6, <1>8, ConcatProperties
<1>10. n2 <= CallBufSize - 1
  BY DEF FitInv, Busy, RingCapacity
<1>11. n1 <= 1 /\ (Holds(h) => n1 = 0)
  BY DEF FitInv, Busy, Holds, InHand
<1>12. IsFiniteSet(T) /\ Cardinality(T) \in Nat /\ Cardinality(T) <= Len(Todo[h])
  BY <1>6, FewElements, Zenon
<1>13. \A c \in Calls \ avail : c \in T \/ (Holds(h) /\ c = call[h])
  <2>1. \A c \in Calls \ (avail \cup (Calls \ idle)) :
          \E g \in Handlers : \E i \in 1 .. Len(Todo[g]) : Todo[g][i] = c
    BY Zenon DEF FitInv, Copies, Copy
  <2>2. \A c \in Calls \ (avail \cup (Calls \ idle)) : c \in T
    BY <2>1, Zenon
  <2> HIDE DEF T
  <2> QED  BY <1>5, <2>2, Zenon
<1> HIDE DEF T, n1, n2
<1>14. CASE Holds(h)
  <2>1. Calls \ avail \subseteq T \cup {call[h]}
    BY <1>13
  <2>2. /\ IsFiniteSet(T \cup {call[h]}) /\ Cardinality(T \cup {call[h]}) <= Cardinality(T) + 1
        /\ Cardinality(T \cup {call[h]}) \in Nat
    <3>1. /\ IsFiniteSet(T \cup {call[h]})
          /\ Cardinality(T \cup {call[h]}) = IF call[h] \in T THEN Cardinality(T)
                                                             ELSE Cardinality(T) + 1
      BY <1>12, FS_AddElement, Zenon
    <3> QED  BY <1>12, <3>1
  <2>3. Cardinality(Calls \ avail) <= Cardinality(T \cup {call[h]})
    BY <2>1, <2>2, FS_Subset
  <2>4. Cardinality(Calls \ avail) \in Nat
    BY CallsFinite
  <2> QED  BY <1>9, <1>10, <1>11, <1>12, <1>14, <2>2, <2>3, <2>4, SizeAssumption, SMTT(20)
<1>15. CASE ~Holds(h)
  <2>1. Calls \ avail \subseteq T
    BY <1>13, <1>15
  <2>2. Cardinality(Calls \ avail) <= Cardinality(T)
    BY <1>12, <2>1, FS_Subset
  <2>3. Cardinality(Calls \ avail) \in Nat
    BY CallsFinite
  <2> QED  BY <1>9, <1>10, <1>11, <1>12, <2>2, <2>3, SizeAssumption
<1> QED  BY <1>14, <1>15

-------------------------------------------------------------------------------
(* One callback at a time keeps the queue in one piece.                    *)
LEMMA RoomLeft ==
  ASSUME FitInv, Cardinality(Handlers) = 1, ~overlap, NEW p \in Threads, Holds(p)
  PROVE  ~ \A i \in Slots : queue[i] # NULL
<1>1. avail \subseteq idle
  BY DEF FitInv, Copies, Copy
<1>2. Cardinality(Calls \ avail) <= CallBufSize + 1
  <2>1. Cardinality(Calls \ avail) \in Nat
    BY CallsFinite
  <2> QED  BY <2>1, SizeAssumption DEF FitInv, OneAtATime, UnderWay
<1> QED  BY <1>1, <1>2, FullIsTooMuch DEF FitInv, LifeInv

LEMMA FrontInSlots == ASSUME Inv PROVE Front \in Slots /\ header \in Slots /\ tail \in Slots
BY AfterInSlots DEF Inv, TypeOK, Front

(* The slot a callback looks at first is empty.                            *)
LEMMA NextIsFree ==
  ASSUME FitInv, Cardinality(Handlers) = 1, ~overlap, NEW p \in Threads, Holds(p),
         NEW n \in 0 .. QueueSize, Piece(n)
  PROVE  /\ n + 1 \in 1 .. QueueSize /\ t[p] = tail /\ origin_tail[p] = tail
         /\ \A q \in Threads : pc[q] # "tail"
         /\ After(tail) = Nth(Front, n + 1) /\ queue[After(tail)] = NULL
<1>0. Inv /\ Serial
  BY DEF FitInv, LifeInv, OneAtATime
<1>1. Front \in Slots /\ tail \in Slots
  BY <1>0, FrontInSlots
<1>2. \A q \in Threads : pc[q] # "tail"
  BY <1>0 DEF Serial, Holds
<1>3. tail = Nth(Front, n) /\ t[p] = tail /\ origin_tail[p] = tail
  BY <1>2 DEF Piece, Holds
<1>4. n # QueueSize
  <2> SUFFICES ASSUME n = QueueSize PROVE FALSE
    OBVIOUS
  <2>1. \A k \in 1 .. QueueSize : queue[Nth(Front, k)] # NULL
    BY DEF Piece, Filled
  <2>2. \A i \in Slots : \E k \in 1 .. QueueSize : i = Nth(Front, k)
    BY <1>1, NthProperties
  <2>3. \A i \in Slots : queue[i] # NULL
    BY <2>1, <2>2
  <2> QED  BY <2>3, RoomLeft
<1>5. n \in 0 .. QueueSize - 1 /\ n + 1 \in 1 .. QueueSize /\ ~(n + 1 <= n)
  BY <1>4, QueueSizeAssumption
<1>6. After(tail) = Nth(Front, n + 1)
  BY <1>1, <1>3, <1>5, AfterIsNext, NthProperties
<1>7. queue[Nth(Front, n + 1)] = NULL
  BY <1>5, SMTT(20) DEF Piece, Filled
<1> QED  BY <1>2, <1>3, <1>5, <1>6, <1>7

LEMMA BeginPiece ==
  ASSUME Inv, NEW p \in Threads, NEW c, P_Begin(p, c), ~overlap',
         NEW n \in 0 .. QueueSize, Piece(n)
  PROVE  Piece(n)' /\ Serial'
<1>1. \A q \in Threads : pc[q] = "idle"
  BY ZenonT(30) DEF P_Begin
<1>2. /\ \A q \in Threads : pc'[q] = IF q = p THEN "scan" ELSE "idle"
      /\ t'[p] = tail /\ origin_tail'[p] = tail
      /\ queue' = queue /\ header' = header /\ tail' = tail /\ rpc' = rpc
  BY <1>1, SMTT(20) DEF P_Begin, Inv, TypeOK, qvars, rvars
<1>3. Front' = Front /\ tail = Nth(Front, n) /\ Filled(Front, n)
  BY <1>1, <1>2 DEF Front, Piece
<1>4. Filled(Front, n)'
  BY <1>2, <1>3, SMTT(20) DEF Filled
<1> QED  BY <1>2, <1>3, <1>4 DEF Piece, Serial

LEMMA ScanPiece ==
  ASSUME FitInv, Cardinality(Handlers) = 1, ~overlap, NEW p \in Threads, P_Scan(p),
         NEW n \in 0 .. QueueSize, Piece(n)
  PROVE  Piece(n)' /\ Serial'
<1>0. Inv /\ Serial
  BY SMTT(20) DEF FitInv, LifeInv, OneAtATime
<1>1. /\ t[p] = tail /\ queue[After(tail)] = NULL
      /\ \A q \in Threads : pc[q] # "tail"
  BY NextIsFree, Zenon DEF P_Scan, Holds
<1>2. /\ pc' = [pc EXCEPT ![p] = "swap"] /\ pc[p] = "scan" /\ t' = t /\ origin_tail' = origin_tail
      /\ queue' = queue /\ header' = header /\ tail' = tail /\ rpc' = rpc
  BY <1>1 DEF P_Scan, qvars, rvars
<1>3. \A q \in Threads : pc'[q] # "tail" /\ (pc'[q] # "idle" => pc[q] # "idle")
  BY <1>0, <1>1, <1>2, SMTT(20) DEF Inv, TypeOK
<1>4. Front' = Front /\ tail = Nth(Front, n) /\ Filled(Front, n)
  BY <1>1, <1>2, Zenon DEF Front, Piece
<1>5. Filled(Front, n)'
  BY <1>2, <1>4 DEF Filled
<1>6. Serial'
  BY <1>0, <1>3, SMTT(20) DEF Serial
<1> QED  BY <1>2, <1>3, <1>4, <1>5, <1>6 DEF Piece

LEMMA SwapPiece ==
  ASSUME FitInv, Cardinality(Handlers) = 1, ~overlap, NEW p \in Threads, P_Swap(p),
         NEW n \in 0 .. QueueSize, Piece(n)
  PROVE  n + 1 \in 0 .. QueueSize /\ Piece(n + 1)' /\ Serial'
<1>0. Inv /\ Serial
  BY DEF FitInv, LifeInv, OneAtATime
<1>1. /\ t[p] = tail /\ queue[After(tail)] = NULL /\ n + 1 \in 1 .. QueueSize
      /\ \A q \in Threads : pc[q] # "tail"
      /\ After(tail) = Nth(Front, n + 1)
  BY NextIsFree, SMTT(20) DEF P_Swap, Holds
<1>2. /\ pc' = [pc EXCEPT ![p] = "tail"] /\ pc[p] = "swap" /\ t' = t /\ origin_tail' = origin_tail
      /\ queue' = [queue EXCEPT ![Nth(Front, n + 1)] = call[p]]
      /\ header' = header /\ tail' = tail /\ rpc' = rpc
  BY <1>1 DEF P_Swap, rvars
<1>3. \A q \in Threads : pc'[q] # "idle" => pc[q] # "idle"
  BY <1>0, <1>2 DEF Inv, TypeOK
<1>4. pc'[p] = "tail"
  BY <1>0, <1>2, SMTT(20) DEF Inv, TypeOK
<1>5. Front' = Front /\ Filled(Front, n)
  BY <1>1, <1>2 DEF Front, Piece
<1>6. Front \in Slots
  BY <1>0, FrontInSlots
<1>7. call[p] # NULL
  BY <1>0, <1>2, NullAssumption, SMTT(20) DEF Inv, Owned, Holds
<1>8. \A k \in 1 .. QueueSize :
        queue'[Nth(Front, k)] = IF k = n + 1 THEN call[p] ELSE queue[Nth(Front, k)]
  <2>1. \A k \in 1 .. QueueSize : Nth(Front, k) \in Slots
    BY <1>6, NthProperties
  <2>2. \A k \in 1 .. QueueSize : Nth(Front, k) = Nth(Front, n + 1) => k = n + 1
    BY <1>1, <1>6, NthProperties, ZenonT(30)
  <2> QED  BY <1>0, <1>1, <1>2, <2>1, <2>2, SMTT(20) DEF Inv, TypeOK
<1>9. Filled(Front, n + 1)'
  <2> SUFFICES ASSUME NEW k \in 1 .. QueueSize
               PROVE  queue'[Nth(Front, k)] # NULL <=> k <= n + 1
    BY <1>5 DEF Filled
  <2>1. CASE k = n + 1
    BY <1>7, <1>8, <2>1
  <2>2. CASE k # n + 1
    <3>1. queue[Nth(Front, k)] # NULL <=> k <= n
      BY <1>5 DEF Filled
    <3> QED  BY <1>8, <2>2, <3>1
  <2> QED  BY <2>1, <2>2
<1>10. Serial'
  BY <1>0, <1>3 DEF Serial
<1>11. \A q \in Threads : pc'[q] # "idle" => origin_tail'[q] = tail' /\ t'[q] = tail'
  BY <1>2, <1>3, SMTT(20) DEF Piece
<1>12. After(tail)' = Nth(Front, n + 1)'
  BY <1>1, <1>2, <1>5, SMTT(20) DEF After, Nth
<1>13. Piece(n + 1)'
  BY <1>4, <1>9, <1>11, <1>12, SMTT(20) DEF Piece
<1> QED  BY <1>1, <1>10, <1>13, SMTT(20)

LEMMA TailPiece ==
  ASSUME FitInv, Cardinality(Handlers) = 1, ~overlap, NEW p \in Threads, P_Tail(p),
         NEW n \in 0 .. QueueSize, Piece(n)
  PROVE  Piece(n)' /\ Serial'
<1>0. Inv /\ Serial
  BY DEF FitInv, LifeInv, OneAtATime
<1>1. t[p] = tail /\ origin_tail[p] = tail /\ After(tail) = Nth(Front, n) /\ pc[p] = "tail"
  BY DEF P_Tail, Piece
<1>2. \A q \in Threads : q # p => pc[q] = "idle"
  BY <1>0, <1>1 DEF Serial
<1>3. /\ \A q \in Threads : pc'[q] = "idle"
      /\ queue' = queue /\ header' = header /\ rpc' = rpc /\ tail' = Nth(Front, n)
  BY <1>0, <1>1, <1>2 DEF P_Tail, P_Return, rvars, Inv, TypeOK
<1>4. Front' = Front /\ Filled(Front, n)
  BY <1>3 DEF Front, Piece
<1>5. Filled(Front, n)'
  BY <1>3, <1>4 DEF Filled
<1> QED  BY <1>3, <1>4, <1>5, SMTT(20) DEF Piece, Serial

LEMMA RecyclePiece ==
  ASSUME FitInv, Serial, recycle, NEW n \in 0 .. QueueSize, Piece(n)
  PROVE  (\E m \in 0 .. QueueSize : Piece(m)') /\ Serial'
<1>0. Inv
  BY DEF FitInv, LifeInv
<1>1. pc' = pc /\ t' = t /\ origin_tail' = origin_tail /\ tail' = tail
  BY DEF recycle, R_Take, R_Clear, R_Advance, R_Release, qvars, pvars
<1>2. Serial'
  BY <1>1 DEF Serial
<1>3. ASSUME NEW m \in 0 .. QueueSize, Filled(Front, m)', Nth(Front', m) = Nth(Front, n)
      PROVE  Piece(m)'
  BY <1>1, <1>3 DEF Piece, After, Nth
<1>4. Filled(Front, n)
  BY DEF Piece
<1>5. CASE R_Take \/ R_Advance \/ R_Release
  <2>1. queue' = queue /\ Front' = Front
    BY <1>5 DEF R_Take, R_Advance, R_Release, qvars, Front, After
  <2>2. Filled(Front, n)'
    BY <1>4, <2>1 DEF Filled
  <2> QED  BY <1>2, <1>3, <2>1, <2>2, SMTT(20)
<1>6. CASE R_Clear
  <2>1. /\ rpc = "clear" /\ queue' = [queue EXCEPT ![After(header)] = NULL]
        /\ header' = header /\ rpc' = "advance"
    BY <1>6 DEF R_Clear
  <2>2. Front = header /\ Front' = After(header) /\ header \in Slots
    BY <1>0, <2>1, FrontInSlots DEF Front, After
  <2>3. After(header) = Nth(header, 1) /\ queue[After(header)] # NULL /\ After(header) \in Slots
    BY <1>0, <2>1, <2>2, AfterIsNext, AfterInSlots DEF Inv, Pending
  <2>4. n >= 1
    BY <1>4, <2>2, <2>3, QueueSizeAssumption DEF Filled
  <2>5. n - 1 \in 0 .. QueueSize - 1 /\ (n - 1) + 1 = n /\ n - 1 \in 0 .. QueueSize
    BY <2>4, QueueSizeAssumption
  <2>6. Nth(Front', n - 1) = Nth(Front, n)
    BY <2>2, <2>3, <2>5, NthProperties
  <2>7. ASSUME NEW k \in 1 .. QueueSize
        PROVE  queue'[Nth(Front', k)] # NULL <=> k <= n - 1
    <3>1. CASE k = QueueSize
      <4>1. Nth(Front', k) = After(header)
        BY <2>2, <2>3, <3>1, AfterIsNext
      <4>2. queue'[After(header)] = NULL
        BY <1>0, <2>1, <2>3 DEF Inv, TypeOK
      <4> QED  BY <2>5, <3>1, <4>1, <4>2, QueueSizeAssumption
    <3>2. CASE k # QueueSize
      <4>1. k \in 0 .. QueueSize - 1 /\ k + 1 \in 1 .. QueueSize /\ k + 1 # 1
            /\ 1 \in 1 .. QueueSize
        BY <3>2, QueueSizeAssumption
      <4>2. Nth(Front', k) = Nth(header, k + 1)
        BY <2>2, <2>3, <4>1, NthProperties
      <4>3. Nth(header, k + 1) # Nth(header, 1) /\ Nth(header, k + 1) \in Slots
        BY <2>2, <4>1, NthProperties
      <4>4. queue'[Nth(header, k + 1)] = queue[Nth(header, k + 1)]
        BY <1>0, <2>1, <2>3, <4>3 DEF Inv, TypeOK
      <4>5. queue[Nth(header, k + 1)] # NULL <=> k + 1 <= n
        BY <1>4, <2>2, <4>1 DEF Filled
      <4> QED  BY <4>2, <4>4, <4>5
    <3> QED  BY <3>1, <3>2
  <2>8. Filled(Front, n - 1)'
    BY <2>7 DEF Filled
  <2>9. Piece(n - 1)'
    BY <1>3, <2>5, <2>6, <2>8
  <2> QED  BY <1>2, <2>5, <2>9
<1> QED  BY <1>5, <1>6 DEF recycle

LEMMA PieceKept ==
  ASSUME FitInv, Cardinality(Handlers) = 1, [Next]_vars, ~overlap'
  PROVE  Serial' /\ Contiguous'
<1>1. ~overlap
  BY Zenon DEF Next, push_free_callback, P_Begin, P_Scan, P_Swap, P_Tail,
         recycle, R_Take, R_Clear, R_Advance, R_Release, vars
<1>2. Serial /\ Inv
  BY <1>1 DEF FitInv, OneAtATime, LifeInv
<1>3. PICK n \in 0 .. QueueSize : Piece(n)
  BY <1>1 DEF FitInv, OneAtATime, Contiguous
<1>4. ASSUME NEW p \in Threads, NEW c \in Calls, P_Begin(p, c) PROVE Serial' /\ Contiguous'
  BY <1>2, <1>3, <1>4, BeginPiece DEF Contiguous
<1>5. ASSUME NEW p \in Threads, P_Scan(p) PROVE Serial' /\ Contiguous'
  BY <1>1, <1>3, <1>5, ScanPiece DEF Contiguous
<1>6. ASSUME NEW p \in Threads, P_Swap(p) PROVE Serial' /\ Contiguous'
  BY <1>1, <1>3, <1>6, SwapPiece, SMTT(20) DEF Contiguous
<1>7. ASSUME NEW p \in Threads, P_Tail(p) PROVE Serial' /\ Contiguous'
  BY <1>1, <1>3, <1>7, TailPiece DEF Contiguous
<1>8. CASE recycle
  BY <1>2, <1>3, <1>8, RecyclePiece, SMTT(20) DEF Contiguous
<1>9. CASE UNCHANGED vars
  BY <1>2, <1>3, <1>9, Zenon DEF vars, qvars, pvars, rvars, Serial, Contiguous, Piece, Filled, Front, Nth, After
<1> QED  BY <1>4, <1>5, <1>6, <1>7, <1>8, <1>9 DEF Next, push_free_callback

LEMMA UnderWayKept ==
  ASSUME FitInv, Cardinality(Handlers) = 1, [LifeNext]_lifevars, ~overlap
  PROVE  UnderWay'
<1>0. IsFiniteSet(Calls \ avail) /\ Cardinality(Calls \ avail) \in Nat /\ CallBufSize \in Nat
  BY CallsFinite, SizeAssumption
<1>1. UnderWay /\ Contiguous
  BY DEF FitInv, OneAtATime
<1>2. ASSUME avail' = avail, dpc' = "turn" => dpc = "turn" PROVE UnderWay'
  BY <1>0, <1>1, <1>2 DEF UnderWay
<1>3. ASSUME NEW c \in Calls, NEW p \in Threads, D_Pack(c, p) PROVE UnderWay'
  <2>1. dpc = "turn" /\ dpc' # "turn" /\ c \in avail /\ avail' = avail \ {c}
    BY <1>3 DEF D_Pack
  <2>2. (Calls \ avail)' = (Calls \ avail) \cup {c} /\ c \notin Calls \ avail
    BY <2>1
  <2>3. Cardinality((Calls \ avail) \cup {c}) = Cardinality(Calls \ avail) + 1
    BY <1>0, <2>2, FS_AddElement, Zenon
  <2> QED  BY <1>0, <1>1, <2>1, <2>2, <2>3 DEF UnderWay
<1>4. CASE D_Recycle
  <2>1. CASE rpc = "poll" /\ queue[After(header)] = NULL /\ dpc' = "turn" /\ UNCHANGED avail
    <3>1. PICK h \in Handlers : Handlers = {h}
      BY OneHandler
    <3>2. dpc = "recycle"
      BY <1>4 DEF D_Recycle
    <3>3. Cardinality(Calls \ avail) <= CallBufSize
      BY <1>1, <2>1, <3>1, <3>2, FewUnderWay
    <3> QED  BY <2>1, <3>3 DEF UnderWay
  <2>2. CASE recycle /\ rpc = "release" /\ dpc' = "turn" /\ avail' = avail \cup {out_call}
    <3>1. out_call \in Calls \ idle
      BY <2>2 DEF FitInv, LifeInv, Inv, Owned, HasTaken
    <3>2. out_call \in Calls \ avail
      BY <3>1 DEF FitInv, Copies, Copy
    <3>3. (Calls \ avail)' = (Calls \ avail) \ {out_call}
      BY <2>2
    <3>4. Cardinality((Calls \ avail) \ {out_call}) = Cardinality(Calls \ avail) - 1
      BY <1>0, <3>2, FS_RemoveElement, Zenon
    <3>5. dpc = "recycle"
      BY <1>4 DEF D_Recycle
    <3>6. Cardinality(Calls \ avail) <= CallBufSize + 1
      BY <1>1, <3>5 DEF UnderWay
    <3>7. Cardinality((Calls \ avail) \ {out_call}) <= CallBufSize
      BY <1>0, <3>4, <3>6
    <3> QED  BY <2>2, <3>3, <3>7 DEF UnderWay
  <2>3. CASE recycle /\ rpc # "release" /\ dpc' = "recycle" /\ avail' = avail
    BY <1>2, <2>3
  <2> QED  BY <1>4, <2>1, <2>2, <2>3 DEF D_Recycle
<1>5. CASE D_PackNothing \/ D_Push \/ D_Callback
  BY <1>2, <1>5 DEF D_PackNothing, D_Push, D_Callback
<1>6. ASSUME NEW h \in Handlers, handle_thread_run(h) PROVE UnderWay'
  BY <1>2, <1>6 DEF handle_thread_run, H_Pop, H_Handle, H_Callback, lvars
<1>7. CASE UNCHANGED lifevars
  BY <1>2, <1>7 DEF lifevars, lvars
<1> QED  BY <1>3, <1>4, <1>5, <1>6, <1>7 DEF LifeNext, distribute

LEMMA BusyKept == ASSUME FitInv, [LifeNext]_lifevars PROVE Busy'
<1>0. Busy /\ LifeInv /\ TypeOK /\ LifeTyped /\ D \in Threads /\ Handlers \subseteq Threads /\ D \notin Handlers
  BY DistributorAssumption, SMTT(20) DEF FitInv, LifeInv, Inv, Handlers
<1>1. ASSUME NEW p \in Threads, push_free_callback(p)
      PROVE  \A q \in Threads : (q # p => pc'[q] = pc[q]) /\ (pc[q] = "idle" => pc'[q] = "idle")
  BY <1>0, <1>1 DEF push_free_callback, P_Scan, P_Swap, P_Tail, P_Return, TypeOK
<1>2. ASSUME NEW p \in Threads, NEW c, P_Begin(p, c)
      PROVE  \A q \in Threads : q # p => pc'[q] = pc[q]
  BY <1>0, <1>2 DEF P_Begin, TypeOK
<1>3. ASSUME NEW c \in Calls, NEW p \in Threads, D_Pack(c, p) PROVE Busy'
  BY <1>0, <1>2, <1>3 DEF D_Pack, Busy, vars, pvars
<1>4. CASE D_PackNothing
  BY <1>0, <1>4 DEF D_PackNothing, Busy, vars, pvars
<1>5. CASE D_Push
  <2>1. /\ to \in Handlers /\ Len(ring[to]) < RingCapacity /\ pc' = pc /\ work' = work
        /\ ring' = [ring EXCEPT ![to] = Append(ring[to], hold)] /\ dpc = "push"
    BY <1>0, <1>5 DEF D_Push, LifeTyped, Handlers, vars, pvars
  <2>2. hold \in Calls /\ ring[to] \in Seq(Calls) /\ RingCapacity \in Int
    BY <1>0, <2>1, SizeAssumption DEF LifeTyped, RingCapacity
  <2>3. Len(Append(ring[to], hold)) <= RingCapacity
    BY <2>1, <2>2, AppendProperties
  <2>4. \A h \in Handlers : Len(ring'[h]) <= RingCapacity
    BY <1>0, <2>1, <2>3, SMTT(20) DEF Busy, LifeTyped
  <2> QED  BY <1>0, <2>1, <2>4 DEF Busy
<1>6. CASE D_Callback
  BY <1>0, <1>1, <1>6, SMTT(20) DEF D_Callback, Busy
<1>7. CASE D_Recycle
  <2>1. pc' = pc /\ work' = work /\ ring' = ring /\ dpc = "recycle"
    BY <1>7 DEF D_Recycle, recycle, R_Take, R_Clear, R_Advance, R_Release, vars, pvars
  <2> QED  BY <1>0, <2>1 DEF Busy
<1>8. ASSUME NEW h \in Handlers, H_Pop(h) PROVE Busy'
  <2>1. /\ pc' = pc /\ dpc' = dpc /\ pc[h] = "idle" /\ ring[h] # <<>> /\ ring[h] \in Seq(Calls)
        /\ ring' = [ring EXCEPT ![h] = Tail(ring[h])] /\ work' = [work EXCEPT ![h] = Head(ring[h])]
    BY <1>0, <1>8 DEF H_Pop, LifeTyped, vars, pvars
  <2>2. Len(Tail(ring[h])) <= Len(ring[h]) /\ Len(ring[h]) \in Nat /\ Len(Tail(ring[h])) \in Nat
    BY <2>1, HeadTailProperties
  <2>3. RingCapacity \in Int
    BY SizeAssumption DEF RingCapacity
  <2>4. \A g \in Handlers : Len(ring'[g]) <= RingCapacity
    BY <1>0, <2>1, <2>2, <2>3 DEF Busy, LifeTyped
  <2>5. \A g \in Handlers : work'[g] # NULL => pc'[g] = "idle"
    BY <1>0, <2>1 DEF Busy, LifeTyped
  <2> QED  BY <1>0, <2>1, <2>4, <2>5 DEF Busy
<1>9. ASSUME NEW h \in Handlers, H_Handle(h) PROVE Busy'
  <2>1. /\ \A q \in Threads : q # h => pc'[q] = pc[q]
        /\ dpc' = dpc /\ ring' = ring /\ work' = [work EXCEPT ![h] = NULL]
    BY <1>0, <1>2, <1>9 DEF H_Handle
  <2> QED  BY <1>0, <2>1, Zenon DEF Busy, LifeTyped
<1>10. ASSUME NEW h \in Handlers, H_Callback(h) PROVE Busy'
  BY <1>0, <1>1, <1>10 DEF H_Callback, lvars, Busy
<1>11. CASE UNCHANGED lifevars
  BY <1>0, <1>11 DEF lifevars, lvars, vars, pvars, Busy
<1> QED
  BY <1>3, <1>4, <1>5, <1>6, <1>7, <1>8, <1>9, <1>10, <1>11, SMTT(20)
     DEF LifeNext, distribute, handle_thread_run

LEMMA InitFits == LifeInit => FitInv
<1> SUFFICES ASSUME LifeInit PROVE FitInv
  OBVIOUS
<1>1. LifeInv
  BY InitLifeInv
<1>2. \A h \in Handlers : Todo[h] = <<>>
  <2>1. \A h \in Handlers : InHand(h) = <<>> /\ Pushing(h) = <<>> /\ ring[h] = <<>>
    BY DEF LifeInit, InHand, Pushing, Handlers
  <2> QED  BY <2>1 DEF Todo
<1>3. Copies
  <2>1. Todo \in [Handlers -> Seq(Calls)]
    <3>1. Todo = [h \in Handlers |-> Todo[h]]
      BY DEF Todo
    <3>2. \A h \in Handlers : Todo[h] \in Seq(Calls)
      BY <1>1, Parts DEF LifeInv
    <3> QED  BY <3>1, <3>2
  <2>2. Calls \ idle = {} /\ avail = Calls
    BY DEF LifeInit, Init
  <2>3. \A h \in Handlers : 1 .. Len(Todo[h]) = {}
    BY <1>2
  <2> QED  BY <2>1, <2>2, <2>3 DEF Copies, Copy
<1>4. Busy
  BY DistributorAssumption, SizeAssumption DEF LifeInit, Init, Busy, Handlers, RingCapacity
<1>5. Serial
  BY DEF LifeInit, Init, Serial
<1>6. Contiguous
  <2>1. 0 \in 0 .. QueueSize /\ 0 \in Slots /\ Front = 0
    BY QueueSizeAssumption DEF LifeInit, Init, Front, Slots
  <2>2. \A k \in 1 .. QueueSize : queue[Nth(0, k)] = NULL /\ ~(k <= 0)
    BY <2>1, NthProperties DEF LifeInit, Init
  <2>3. Filled(Front, 0)
    BY <2>1, <2>2 DEF Filled
  <2>4. tail = Nth(Front, 0) /\ \A p \in Threads : pc[p] = "idle"
    BY <2>1, AfterIsNext DEF LifeInit, Init
  <2>5. Piece(0)
    BY <2>3, <2>4, Zenon DEF Piece
  <2> QED  BY <2>1, <2>5 DEF Contiguous
<1>7. UnderWay
  <2>1. Calls \ avail = {}
    BY DEF LifeInit
  <2> QED  BY <2>1, FS_EmptySet, SizeAssumption DEF UnderWay
<1> QED  BY <1>1, <1>3, <1>4, <1>5, <1>6, <1>7 DEF FitInv, OneAtATime

LEMMA NextFits == FitInv /\ [LifeNext]_lifevars => FitInv'
<1> SUFFICES ASSUME FitInv, [LifeNext]_lifevars PROVE FitInv'
  OBVIOUS
<1>1. LifeInv'
  BY NextLifeInv DEF FitInv
<1>2. Copies'
  BY LifeStepServes, StepKeepsCopies DEF FitInv
<1>3. Busy'
  BY BusyKept
<1>4. [Next]_vars
  BY LifeSteps DEF FitInv, LifeInv
<1>5. ASSUME Cardinality(Handlers) = 1, ~overlap' PROVE Serial' /\ Contiguous' /\ UnderWay'
  <2>1. ~overlap
    BY <1>4, <1>5, Zenon DEF Next, push_free_callback, P_Begin, P_Scan, P_Swap, P_Tail,
                      recycle, R_Take, R_Clear, R_Advance, R_Release, vars
  <2> QED  BY <1>4, <1>5, <2>1, PieceKept, UnderWayKept
<1>6. OneAtATime'
  BY <1>5 DEF OneAtATime
<1> QED  BY <1>1, <1>2, <1>3, <1>6 DEF FitInv

(* "The size is CALL_BUF_SIZE+2 to guarantee that the queue does not       *)
(* overflow": for any CALL_BUF_SIZE, and already with one slot less, no    *)
(* callback of the one handling thread or of the distributor ever finds    *)
(* the queue full, unless callbacks have overlapped.                       *)
THEOREM QueueIsLargeEnough == LifeSpec => []QueueFitsOneHandler
<1>1. FitInv => QueueFitsOneHandler
  <2> SUFFICES ASSUME FitInv, Cardinality(Handlers) = 1, ~overlap, QueueFull, NEW p \in Threads
               PROVE  pc[p] \in {"idle", "tail"}
    BY DEF QueueFitsOneHandler
  <2>1. \A i \in Slots : \E j \in Slots : i = After(j)
    <3> SUFFICES ASSUME NEW i \in Slots PROVE \E j \in Slots : i = After(j)
      OBVIOUS
    <3> DEFINE j == IF i = 0 THEN QueueSize - 1 ELSE i - 1
    <3>1. j \in Slots /\ Nth(j, 1) = i
      BY QueueSizeAssumption DEF Slots, Nth
    <3> QED  BY <3>1, AfterIsNext
  <2>2. \A i \in Slots : queue[i] # NULL
    BY <2>1 DEF QueueFull
  <2>3. ~Holds(p)
    BY <2>2, RoomLeft
  <2> QED  BY <2>3 DEF Holds, FitInv, LifeInv, Inv, TypeOK
<1> QED  BY <1>1, InitFits, NextFits, PTL DEF LifeSpec

(* Every call is with the guest, served, or in one place of one thread's   *)
(* sequence: none is handed to two threads or twice to one.                *)
THEOREM CallInOnePlace == LifeSpec => []Copies
<1>1. FitInv => Copies
  BY DEF FitInv
<1> QED  BY <1>1, InitFits, NextFits, PTL DEF LifeSpec
===============================================================================

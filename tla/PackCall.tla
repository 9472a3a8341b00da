------------------------------- MODULE PackCall -------------------------------
(***************************************************************************)
(* pack_call_from_queue: calls are put together from the elements of a     *)
(* virtqueue.  A call is a head (one in-buffer that tells the number of    *)
(* parameters) and that many out-elements.  The guest adds elements one by *)
(* one, so the host may run dry in the middle of a call; it then keeps the *)
(* part it has in packaging_call and goes on the next time it is called.   *)
(*                                                                         *)
(* The guest's elements are numbered; stream[i] is the kind of element i:  *)
(* the number of parameters for a head, Out for a parameter, Wide for an   *)
(* element that is neither (more than one in-buffer).  The module is about *)
(* one of the two virtqueues and the one thread at a time that empties it. *)
(***************************************************************************)
EXTENDS Integers, Sequences, Functions

CONSTANTS Streams      \* what the guest may send

ASSUME StreamsAssumption == \A s \in Streams : s \in Seq(Int)

Out  == -1
Wide == -2

VARIABLES
  stream, pushed, popped,       \* the virtqueue: elements popped+1 .. pushed
  used,                         \* elements given back to the guest
  packaging_call, remain_elem_num,
  ppc, elem, call, para_num,    \* locals of pack_call_from_queue
  delivered                     \* the calls it has returned

locals == <<ppc, elem, call, para_num>>
packvars == <<stream, pushed, popped, used, packaging_call, remain_elem_num, locals, delivered>>

N == Len(stream)

PackTypeOK ==
  /\ stream \in Streams
  /\ pushed \in 0 .. N /\ popped \in 0 .. pushed
  /\ used \in SUBSET (1 .. N)
  /\ packaging_call \in Seq(1 .. N) /\ call \in Seq(1 .. N)
  /\ remain_elem_num \in 0 .. 2 /\ para_num \in 0 .. 2
  /\ packaging_call # <<>> <=> remain_elem_num # 0
  /\ ppc \in {"out", "top", "paras"}
  /\ elem \in 0 .. N
  /\ delivered \in Seq(Seq(1 .. N))

PackInit ==
  /\ stream \in Streams /\ pushed = 0 /\ popped = 0 /\ used = {}
  /\ packaging_call = <<>> /\ remain_elem_num = 0
  /\ ppc = "out" /\ elem = 0 /\ call = <<>> /\ para_num = 0
  /\ delivered = <<>>

(* The guest (external) adds the next element.                             *)
GuestPush ==
  /\ pushed < N
  /\ pushed' = pushed + 1
  /\ UNCHANGED <<stream, popped, used, packaging_call, remain_elem_num, locals, delivered>>

-------------------------------------------------------------------------------
(* virtqueue_pop                                                           *)
Pop == popped < pushed /\ popped' = popped + 1 /\ elem' = popped + 1

(* Call pack_call_from_queue with an element to pop; without one it        *)
(* returns NULL at once.                                                   *)
P_Begin ==
  /\ ppc = "out" /\ Pop
  /\ ppc' = "top" /\ call' = <<>> /\ para_num' = 0
  /\ UNCHANGED <<stream, pushed, used, packaging_call, remain_elem_num, delivered>>

(* Mutant: the parameter that completes the interrupted wait is not        *)
(* counted.                                                                *)
P_ContinueMiscounts ==
  /\ ppc = "top" /\ packaging_call # <<>> /\ stream[elem] = Out
  /\ call' = Append(packaging_call, elem)
  /\ para_num' = remain_elem_num
  /\ packaging_call' = <<>> /\ remain_elem_num' = 0
  /\ ppc' = "paras"
  /\ UNCHANGED <<stream, pushed, popped, used, elem, delivered>>

(* Go on with an interrupted call.                                         *)
P_Continue ==
  /\ ppc = "top" /\ packaging_call # <<>> /\ stream[elem] = Out
  /\ call' = Append(packaging_call, elem)
  /\ para_num' = remain_elem_num - 1
  /\ packaging_call' = <<>> /\ remain_elem_num' = 0
  /\ ppc' = "paras"
  /\ UNCHANGED <<stream, pushed, popped, used, elem, delivered>>

(* The element does not belong to it: give back the part of the call, and  *)
(* leave the outer loop.                                                   *)
P_Abandon ==
  /\ ppc = "top" /\ packaging_call # <<>> /\ stream[elem] # Out
  /\ used' = used \cup Range(packaging_call)
  /\ packaging_call' = <<>> /\ remain_elem_num' = 0
  /\ ppc' = "out" /\ elem' = 0
  /\ UNCHANGED <<stream, pushed, popped, call, para_num, delivered>>

(* A new call.                                                             *)
P_Head ==
  /\ ppc = "top" /\ packaging_call = <<>> /\ stream[elem] >= 0
  /\ call' = <<elem>>
  /\ para_num' = stream[elem]
  /\ ppc' = "paras"
  /\ UNCHANGED <<stream, pushed, popped, used, packaging_call, remain_elem_num, elem, delivered>>

(* No head: give the element back and return NULL.                         *)
P_NoHead ==
  /\ ppc = "top" /\ packaging_call = <<>> /\ stream[elem] < 0
  /\ used' = used \cup {elem}
  /\ ppc' = "out" /\ elem' = 0
  /\ UNCHANGED <<stream, pushed, popped, packaging_call, remain_elem_num, call, para_num, delivered>>

(* All parameters are there: return the call.                              *)
P_Return ==
  /\ ppc = "paras" /\ para_num = 0
  /\ delivered' = Append(delivered, call)
  /\ ppc' = "out" /\ call' = <<>> /\ elem' = 0
  /\ UNCHANGED <<stream, pushed, popped, used, packaging_call, remain_elem_num, para_num>>

(* Mutant: the part is not kept.                                           *)
P_RunDryForgets ==
  /\ ppc = "paras" /\ para_num > 0 /\ popped = pushed
  /\ ppc' = "out" /\ call' = <<>> /\ elem' = 0
  /\ UNCHANGED <<packaging_call, remain_elem_num, stream, pushed, popped, used, para_num, delivered>>

(* Mutant: the part is given back, the call is given up.                   *)
P_RunDryGivesUp ==
  /\ ppc = "paras" /\ para_num > 0 /\ popped = pushed
  /\ used' = used \cup Range(call)
  /\ ppc' = "out" /\ call' = <<>> /\ elem' = 0
  /\ UNCHANGED <<packaging_call, remain_elem_num, stream, pushed, popped, para_num, delivered>>

(* The queue is empty: keep what there is, return NULL.                    *)
P_RunDry ==
  /\ ppc = "paras" /\ para_num > 0 /\ popped = pushed
  /\ packaging_call' = call /\ remain_elem_num' = para_num
  /\ ppc' = "out" /\ call' = <<>> /\ elem' = 0
  /\ UNCHANGED <<stream, pushed, popped, used, para_num, delivered>>

(* The next parameter; an element of another type ends this call, which is *)
(* given back, and is tried as the head of a new one.                      *)
P_Para ==
  /\ ppc = "paras" /\ para_num > 0 /\ Pop
  /\ IF stream[elem'] = Out
     THEN /\ call' = Append(call, elem')
          /\ para_num' = para_num - 1
          /\ UNCHANGED <<used, ppc>>
     ELSE /\ used' = used \cup Range(call)
          /\ call' = <<>> /\ para_num' = 0
          /\ ppc' = "top"
  /\ UNCHANGED <<stream, pushed, packaging_call, remain_elem_num, delivered>>

pack_call_from_queue ==
  \/ P_Begin \/ P_Continue \/ P_Abandon \/ P_Head \/ P_NoHead
  \/ P_Return \/ P_RunDry \/ P_Para

PackNext == GuestPush \/ pack_call_from_queue

PackSpec == PackInit /\ [][PackNext]_packvars

(* The host polls its virtqueues for as long as it runs.                   *)
PackFairSpec == PackSpec /\ WF_packvars(pack_call_from_queue)

-------------------------------------------------------------------------------
(* The calls of a stream, by definition: a head and its parameters, all of *)
(* them there.                                                             *)
IsCall(i) ==
  /\ stream[i] >= 0 /\ i + stream[i] <= N
  /\ \A j \in i + 1 .. i + stream[i] : stream[j] = Out

CallAt(i) == [j \in 1 .. stream[i] + 1 |-> i + j - 1]
Heads == SelectSeq([i \in 1 .. N |-> i], IsCall)
StreamCalls == [k \in 1 .. Len(Heads) |-> CallAt(Heads[k])]

(* However the guest's additions are interleaved with the host's pops, the *)
(* calls returned are calls of the stream, intact and in order.            *)
DeliveredIsIntact ==
  /\ \A k \in 1 .. Len(delivered) : IsCall(delivered[k][1]) /\ delivered[k] = CallAt(delivered[k][1])
  /\ \A k \in 1 .. Len(delivered) - 1 : delivered[k][1] < delivered[k + 1][1]

(* A guest that sends nothing but calls gets each of them served, wherever *)
(* the queue ran dry.                                                      *)
WellFormed ==
  \A i \in 1 .. N : IF stream[i] < 0 THEN \E h \in 1 .. i - 1 : IsCall(h) /\ i <= h + stream[h]
                                     ELSE IsCall(i)
AllAreDelivered == []<>(WellFormed /\ pushed = N => delivered = StreamCalls)

(* Where an element the host has popped may be, and the one exception.     *)
Held ==
  used \cup Range(packaging_call) \cup Range(call) \cup {elem}
       \cup UNION {Range(delivered[k]) : k \in 1 .. Len(delivered)}
CutsShort(i) ==
  /\ stream[i] # Out
  /\ \E h \in 1 .. i - 1 : /\ stream[h] >= 0 /\ i <= h + stream[h]
                           /\ \A j \in h + 1 .. i - 1 : stream[j] = Out

(* "What fails to be packed is also given back to the guest": an element   *)
(* the host has popped is in a call, kept for one, or given back.  Only an *)
(* element that cuts a call short can be missing (P_Abandon drops it).     *)
(* None is both given back and part of a call: the guest does not reuse a  *)
(* buffer the host works on.                                               *)
ElementInOnePlace ==
  /\ \A i \in 1 .. popped : i \in Held \/ CutsShort(i)
  /\ used \cap (Range(packaging_call) \cup Range(call)
                \cup UNION {Range(delivered[k]) : k \in 1 .. Len(delivered)}) = {}
===============================================================================

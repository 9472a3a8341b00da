------------------------------- MODULE CallLife -------------------------------
(***************************************************************************)
(* The whole way of a call through teleport-express, put together from the *)
(* call rings (as CallRing is shown to implement them: bounded FIFO        *)
(* queues), the handling threads and the recycle queue of RecycleQueue in  *)
(* full detail.  The distributor D stands for whichever thread holds       *)
(* atomic_distribute_thread_running (see Distribute).  D both feeds the    *)
(* rings and empties the recycle queue, waits for room in a ring           *)
(* (call_push), and itself runs the callback of a call that has no device  *)
(* thread, so the queues between D and the handlers could lock up.         *)
(*                                                                         *)
(* A call needs at least one descriptor of the virtqueue, so Calls has at  *)
(* most as many members as the queue has descriptors (1024).  RecycleQueue *)
(* calls "idle" every call that is not on its way through the recycle      *)
(* queue; here those are the calls of the guest, on the virtqueue, in D's  *)
(* hands, in a ring or with a handler.                                     *)
(***************************************************************************)
EXTENDS RecycleQueue, Sequences, FiniteSets

CONSTANTS D,              \* the distributor, one of Threads
          CallBufSize     \* CALL_BUF_SIZE

Handlers == Threads \ {D}
RingCapacity == CallBufSize - 1

ASSUME DistributorAssumption == D \in Threads /\ IsFiniteSet(Threads)
ASSUME CallsAssumption == Calls \subseteq Nat /\ IsFiniteSet(Calls)
ASSUME SizeAssumption == CallBufSize \in Nat /\ CallBufSize >= 2

(* The recycle queue has CALL_BUF_SIZE + 2 slots, a ring holds one call    *)
(* less than CALL_BUF_SIZE.  There are too few calls to fill both and to   *)
(* leave one in D's hands and one in a handler's: 1024 < 511 + 514 + 2.    *)
ASSUME RoomAssumption ==
  /\ QueueSize > CallBufSize
  /\ Cardinality(Calls) < RingCapacity + QueueSize + 2

VARIABLES
  avail,        \* calls the guest owns, or has put on the virtqueue
  dpc,          \* D: its place in a turn
  hold, to,     \* the call D is pushing, and the thread it is for
  ring,         \* ring[h]: call_buf of h's thread context
  work          \* work[h]: the call h is handling

lvars == <<avail, dpc, hold, to, ring, work>>
lifevars == <<vars, lvars>>

LifeInit ==
  /\ Init
  /\ avail = Calls
  /\ dpc = "turn" /\ hold = NULL /\ to = D
  /\ ring = [h \in Handlers |-> <<>>]
  /\ work = [h \in Handlers |-> NULL]

-------------------------------------------------------------------------------
(* A turn of virtqueue_data_distribute_and_recycle begins by packing a     *)
(* call, if the guest has put one on the virtqueue.  Which of the free     *)
(* call structures it gets makes no difference: the first one.             *)
(* push_to_thread runs the callback of a control call, of a call for no    *)
(* device and of one without a context itself, and pushes any other.       *)
D_PackNothing ==
  /\ dpc = "turn"
  /\ dpc' = "recycle"
  /\ UNCHANGED <<vars, avail, hold, to, ring, work>>

D_Pack(c, p) ==
  /\ dpc = "turn"
  /\ c \in avail /\ \A d \in avail : c <= d
  /\ avail' = avail \ {c}
  /\ \/ /\ p = D
        /\ P_Begin(D, c)
        /\ dpc' = "callback"
        /\ UNCHANGED <<hold, to>>
     \/ /\ p # D
        /\ hold' = c /\ to' = p /\ dpc' = "push"
        /\ UNCHANGED vars
  /\ UNCHANGED <<ring, work>>

(* Mutant: a turn that has pushed a call recycles none.                    *)
D_PushOrRecycle ==
  /\ dpc = "push" /\ Len(ring[to]) < RingCapacity
  /\ ring' = [ring EXCEPT ![to] = Append(@, hold)]
  /\ hold' = NULL /\ to' = D /\ dpc' = "turn"
  /\ UNCHANGED <<vars, avail, work>>

(* call_push: waits while the ring is full.                                *)
D_Push ==
  /\ dpc = "push" /\ Len(ring[to]) < RingCapacity
  /\ ring' = [ring EXCEPT ![to] = Append(@, hold)]
  /\ hold' = NULL /\ to' = D /\ dpc' = "recycle"
  /\ UNCHANGED <<vars, avail, work>>

(* D runs push_free_callback itself.                                       *)
D_Callback ==
  /\ dpc = "callback"
  /\ push_free_callback(D)
  /\ dpc' = IF pc'[D] = "idle" THEN "recycle" ELSE "callback"
  /\ UNCHANGED <<avail, hold, to, ring, work>>

(* The turn ends by recycling one call, if the slot after header has one.  *)
D_Recycle ==
  /\ dpc = "recycle"
  /\ \/ /\ rpc = "poll" /\ queue[After(header)] = NULL
        /\ dpc' = "turn"
        /\ UNCHANGED <<vars, avail>>
     \/ /\ recycle
        /\ dpc' = IF rpc = "release" THEN "turn" ELSE "recycle"
        /\ avail' = IF rpc = "release" THEN avail \cup {out_call} ELSE avail
  /\ UNCHANGED <<hold, to, ring, work>>

distribute ==
  \/ D_PackNothing \/ (\E c \in Calls, p \in Threads : D_Pack(c, p))
  \/ D_Push \/ D_Callback \/ D_Recycle

-------------------------------------------------------------------------------
(* Mutant: the call stays in the ring until it has been handled.           *)
H_PopKeeps(h) ==
  /\ pc[h] = "idle" /\ work[h] = NULL /\ ring[h] # <<>>
  /\ work' = [work EXCEPT ![h] = Head(ring[h])]
  /\ UNCHANGED <<vars, avail, dpc, hold, to, ring>>

(* handle_thread_run: pop the oldest call, handle it, run its callback.    *)
H_Pop(h) ==
  /\ pc[h] = "idle" /\ work[h] = NULL /\ ring[h] # <<>>
  /\ work' = [work EXCEPT ![h] = Head(ring[h])]
  /\ ring' = [ring EXCEPT ![h] = Tail(@)]
  /\ UNCHANGED <<vars, avail, dpc, hold, to>>

H_Handle(h) ==
  /\ work[h] # NULL
  /\ P_Begin(h, work[h])
  /\ work' = [work EXCEPT ![h] = NULL]
  /\ UNCHANGED <<avail, dpc, hold, to, ring>>

H_Callback(h) ==
  /\ push_free_callback(h)
  /\ UNCHANGED lvars

handle_thread_run(h) == H_Pop(h) \/ H_Handle(h) \/ H_Callback(h)

LifeNext ==
  \/ distribute
  \/ \E h \in Handlers : handle_thread_run(h)

LifeSpec == LifeInit /\ [][LifeNext]_lifevars

(* D polls and the handling threads run; the guest may stop at any time.   *)
FairLifeSpec ==
  /\ LifeSpec
  /\ WF_lifevars(distribute)
  /\ \A h \in Handlers : WF_lifevars(handle_thread_run(h))

-------------------------------------------------------------------------------
(* To the guest this is the call service: the calls of one thread are      *)
(* served in the order of their issue, each once, and come back once,      *)
(* after they were served.  A call counts as served when its callback      *)
(* begins.                                                                 *)
InHand(h) == IF work[h] # NULL THEN <<work[h]>> ELSE <<>>
Pushing(h) == IF to = h THEN <<hold>> ELSE <<>>

Service == INSTANCE CallService WITH
  Servers <- Handlers,
  todo <- [h \in Handlers |-> InHand(h) \o ring[h] \o Pushing(h)],
  served <- Calls \ idle

ImplementsService == Service!Spec

(* What a scan meets for ever.                                             *)
QueueFull == \A i \in Slots : queue[After(i)] # NULL

(* "The size is CALL_BUF_SIZE+2 to guarantee that the queue does not       *)
(* overflow": true of one handling thread.  No callback finds the queue    *)
(* full, unless callbacks have overlapped.                                 *)
QueueFitsOneHandler ==
  Cardinality(Handlers) = 1 /\ ~overlap /\ QueueFull =>
    \A p \in Threads : pc[p] \in {"idle", "tail"}

(* The calls under way never get stuck: as long as there are any, the      *)
(* guest gets one back in the end, as long as no two callbacks have        *)
(* overlapped and D does not run a callback with the recycle queue full,   *)
(* where it would wait for itself.  Rings and recycle queue are first-in   *)
(* first-out, so no call is passed over for ever either.                   *)
DWaitsForItself == dpc = "callback" /\ pc[D] # "tail" /\ QueueFull
CallsComeBack ==
  []<>(avail = Calls \/ rpc = "release" \/ overlap \/ DWaitsForItself)
===============================================================================

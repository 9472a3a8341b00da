----------------------------- MODULE RecycleQueue -----------------------------
(***************************************************************************)
(* call_recycle_queue: the queue through which finished calls return to    *)
(* the thread that gives their buffers back to the guest.  Any thread that *)
(* runs a call's callback enqueues without a lock (push_free_callback);    *)
(* one thread dequeues (virtqueue_data_distribute_and_recycle).  The code  *)
(* exists twice: teleport_express_distribute.c for the output queue, and   *)
(* input_call_release / express_input_device_sync of                       *)
(* teleport_express_register.c for the input queue.                        *)
(*                                                                         *)
(* The slot at header is empty; the oldest call is meant to be in the slot *)
(* after it.  Each action is one access to shared memory.                  *)
(***************************************************************************)
EXTENDS Integers

CONSTANTS Calls,       \* the Teleport_Express_Call structures
          Threads,     \* the threads that run callbacks
          QueueSize,   \* CALL_BUF_SIZE + 2
          NULL

ASSUME QueueSizeAssumption == QueueSize \in Nat /\ QueueSize >= 2
ASSUME NullAssumption == NULL \notin Calls

VARIABLES
  queue, header, tail,      \* call_recycle_queue, _header, _tail
  pc,                       \* pc[p]: where thread p is in push_free_callback
  call, origin_tail, t,     \* its argument and its locals
  rpc, out_call,            \* the recycling thread and its local
  idle,                     \* calls the guest owns
  overlap                   \* history: two callbacks have overlapped

Slots == 0 .. QueueSize - 1

After(i) == (i + 1) % QueueSize

qvars == <<queue, header, tail>>
pvars == <<pc, call, origin_tail, t>>
rvars == <<rpc, out_call>>
vars  == <<qvars, pvars, rvars, idle, overlap>>

TypeOK ==
  /\ queue \in [Slots -> Calls \cup {NULL}]
  /\ header \in Slots /\ tail \in Slots
  /\ pc \in [Threads -> {"idle", "scan", "swap", "tail"}]
  /\ call \in [Threads -> Calls \cup {NULL}]
  /\ origin_tail \in [Threads -> Slots] /\ t \in [Threads -> Slots]
  /\ rpc \in {"poll", "clear", "advance", "release"}
  /\ out_call \in Calls \cup {NULL}
  /\ idle \in SUBSET Calls
  /\ overlap \in BOOLEAN

Init ==
  /\ queue = [i \in Slots |-> NULL] /\ header = 0 /\ tail = 0
  /\ pc = [p \in Threads |-> "idle"]
  /\ call = [p \in Threads |-> NULL]
  /\ origin_tail = [p \in Threads |-> 0] /\ t = [p \in Threads |-> 0]
  /\ rpc = "poll" /\ out_call = NULL
  /\ idle = Calls
  /\ overlap = FALSE

-------------------------------------------------------------------------------
(* push_free_callback: thread p is done with call c and reads the tail,    *)
(* once.                                                                   *)
P_Begin(p, c) ==
  /\ pc[p] = "idle" /\ c \in idle
  /\ idle' = idle \ {c}
  /\ call' = [call EXCEPT ![p] = c]
  /\ origin_tail' = [origin_tail EXCEPT ![p] = tail]
  /\ t' = [t EXCEPT ![p] = tail]
  /\ pc' = [pc EXCEPT ![p] = "scan"]
  /\ overlap' = (overlap \/ \E q \in Threads : pc[q] # "idle")
  /\ UNCHANGED <<qvars, rvars>>

(* The inner loop: walk to the first empty slot.                           *)
P_Scan(p) ==
  /\ pc[p] = "scan"
  /\ \/ /\ queue[After(t[p])] # NULL
        /\ t' = [t EXCEPT ![p] = After(t[p])]
        /\ UNCHANGED pc
     \/ /\ queue[After(t[p])] = NULL
        /\ pc' = [pc EXCEPT ![p] = "swap"]
        /\ UNCHANGED t
  /\ UNCHANGED <<qvars, rvars, call, origin_tail, idle, overlap>>

(* Mutant: the slot is written without comparing it first.                 *)
P_SwapPlainStore(p) ==
  /\ pc[p] = "swap"
  /\ queue' = [queue EXCEPT ![After(t[p])] = call[p]]
  /\ pc' = [pc EXCEPT ![p] = "tail"]
  /\ UNCHANGED <<header, tail, rvars, call, origin_tail, t, idle, overlap>>

(* The compare-and-swap of the slot from NULL to the call.                 *)
P_Swap(p) ==
  /\ pc[p] = "swap"
  /\ \/ /\ queue[After(t[p])] = NULL
        /\ queue' = [queue EXCEPT ![After(t[p])] = call[p]]
        /\ pc' = [pc EXCEPT ![p] = "tail"]
     \/ /\ queue[After(t[p])] # NULL
        /\ pc' = [pc EXCEPT ![p] = "scan"]
        /\ UNCHANGED queue
  /\ UNCHANGED <<header, tail, rvars, call, origin_tail, t, idle, overlap>>

(* The callback returns; its locals are gone.                              *)
P_Return(p) ==
  /\ pc' = [pc EXCEPT ![p] = "idle"]
  /\ call' = [call EXCEPT ![p] = NULL]
  /\ origin_tail' = [origin_tail EXCEPT ![p] = 0]
  /\ t' = [t EXCEPT ![p] = 0]

(* Mutant: the tail is moved one slot too far.                             *)
P_TailTooFar(p) ==
  /\ pc[p] = "tail"
  /\ tail' = IF tail = origin_tail[p] THEN After(After(t[p])) ELSE tail
  /\ P_Return(p)
  /\ UNCHANGED <<queue, header, rvars, idle, overlap>>

(* The compare-and-swap of the tail; its failure is ignored.               *)
P_Tail(p) ==
  /\ pc[p] = "tail"
  /\ tail' = IF tail = origin_tail[p] THEN After(t[p]) ELSE tail
  /\ P_Return(p)
  /\ UNCHANGED <<queue, header, rvars, idle, overlap>>

push_free_callback(p) == P_Scan(p) \/ P_Swap(p) \/ P_Tail(p)

-------------------------------------------------------------------------------
(* The recycling thread takes the call in the slot after header, if any;   *)
(* then it empties the slot, moves header and gives the call's buffers     *)
(* back (release_one_call).                                                *)
R_Take ==
  /\ rpc = "poll" /\ queue[After(header)] # NULL
  /\ out_call' = queue[After(header)]
  /\ rpc' = "clear"
  /\ UNCHANGED <<qvars, pvars, idle, overlap>>

R_Clear ==
  /\ rpc = "clear"
  /\ queue' = [queue EXCEPT ![After(header)] = NULL]
  /\ rpc' = "advance"
  /\ UNCHANGED <<header, tail, pvars, out_call, idle, overlap>>

R_Advance ==
  /\ rpc = "advance"
  /\ header' = After(header)
  /\ rpc' = "release"
  /\ UNCHANGED <<queue, tail, pvars, out_call, idle, overlap>>

R_Release ==
  /\ rpc = "release"
  /\ idle' = idle \cup {out_call}
  /\ rpc' = "poll" /\ out_call' = NULL
  /\ UNCHANGED <<qvars, pvars, overlap>>

recycle == R_Take \/ R_Clear \/ R_Advance \/ R_Release

Next ==
  \/ \E p \in Threads : push_free_callback(p) \/ \E c \in Calls : P_Begin(p, c)
  \/ recycle

Spec == Init /\ [][Next]_vars

(* Host threads keep running; nothing forces another call to finish.       *)
FairSpec ==
  /\ Spec
  /\ \A p \in Threads : WF_vars(push_free_callback(p))
  /\ WF_vars(recycle)

-------------------------------------------------------------------------------
(* The places where call c can be: in the hands of a thread that has not   *)
(* enqueued it yet, in a slot, or with the recycling thread.               *)
HeldBy(c)  == {p \in Threads : pc[p] \in {"scan", "swap"} /\ call[p] = c}
SlotsOf(c) == {i \in Slots : queue[i] = c}
Taken(c)   == rpc \in {"advance", "release"} /\ out_call = c

(* No call is lost and none is duplicated, however many threads enqueue at *)
(* once: a call the guest does not own is in exactly one place, so its     *)
(* buffers are given back exactly once.                                    *)
EachCallInOnePlace ==
  \A c \in Calls :
    /\ c \in idle => HeldBy(c) = {} /\ SlotsOf(c) = {} /\ ~Taken(c)
    /\ c \notin idle =>
         \/ \E p \in Threads : HeldBy(c) = {p} /\ SlotsOf(c) = {} /\ ~Taken(c)
         \/ \E i \in Slots : HeldBy(c) = {} /\ SlotsOf(c) = {i} /\ ~Taken(c)
         \/ HeldBy(c) = {} /\ SlotsOf(c) = {} /\ Taken(c)

(* While the recycling thread empties a slot no enqueuer writes to it: the *)
(* plain stores of the dequeuer never wipe out somebody's swap.            *)
DequeuerOwnsItsSlot ==
  rpc = "clear" => queue[After(header)] = out_call
===============================================================================

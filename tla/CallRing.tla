------------------------------- MODULE CallRing -------------------------------
(***************************************************************************)
(* The ring of calls of one Thread_Context (express_handle_thread.c): the  *)
(* distributing thread D appends with call_push, the device's handle       *)
(* thread H removes with call_pop and runs handle_thread_run until it pops *)
(* the call marked is_end, after which it deletes the event and frees the  *)
(* context.  Both sides sleep on ONE auto-reset event, data_event.         *)
(*                                                                         *)
(* Each action is one access to state the threads share.  read_loc and     *)
(* write_loc are volatile; stores reach the other thread in program order. *)
(***************************************************************************)
EXTENDS Integers, Sequences, EventBit

CONSTANTS Calls,          \* the Teleport_Express_Call structures of the pool
          CallBufSize,    \* CALL_BUF_SIZE
          WaitCanFail,    \* TRUE: the POSIX wait_event, which can end unsignalled
          NULL

ASSUME CallBufSizeAssumption == CallBufSize \in Nat /\ CallBufSize >= 2
ASSUME NullAssumption == NULL \notin Calls
ASSUME WaitCanFailAssumption == WaitCanFail \in BOOLEAN

VARIABLES
  call_buf, read_loc, write_loc,
  thread_run,      \* Thread_Context.thread_run
  memory,          \* "live", "no_event" (event deleted) or "freed"
  registered,      \* get_context still returns this context
  should_stop,     \* teleport_express_should_stop
  is_end,          \* the calls whose is_end field is set
  idle,            \* calls that are not in flight: the guest can issue them
  dpc, dcall,      \* D: where it is, and the argument of call_push
  hpc, hcall       \* H: where it is, and the call call_pop returned last

ring   == <<call_buf, read_loc, write_loc>>
life   == <<thread_run, memory>>
dvars  == <<dpc, dcall, registered, is_end>>
hvars  == <<hpc, hcall>>
vars   == <<ring, signal_state, life, should_stop, idle, dvars, hvars>>

Locs == 0 .. CallBufSize - 1

DLocs == {"idle", "full?", "wait", "stop?", "store", "publish", "set"}
HLocs == {"init", "loop", "empty?", "wait", "stop?", "take", "clear", "advance",
          "set", "dispatch", "delete", "free", "done", "stopped"}

TypeOK ==
  /\ call_buf \in [Locs -> Calls \cup {NULL}]
  /\ read_loc \in Locs /\ write_loc \in Locs
  /\ signal_state \in BOOLEAN /\ should_stop \in BOOLEAN /\ registered \in BOOLEAN
  /\ thread_run \in 0 .. 2 /\ memory \in {"live", "no_event", "freed"}
  /\ is_end \in SUBSET Calls /\ idle \in SUBSET Calls
  /\ dpc \in DLocs /\ dcall \in Calls \cup {NULL}
  /\ hpc \in HLocs /\ hcall \in Calls \cup {NULL}

(* thread_context_create: the zeroed context and its new handle thread.    *)
Init ==
  /\ call_buf = [i \in Locs |-> NULL]
  /\ read_loc = 0 /\ write_loc = 0
  /\ signal_state = FALSE
  /\ thread_run = 1 /\ memory = "live" /\ registered = TRUE
  /\ should_stop = FALSE
  /\ is_end = {} /\ idle = Calls
  /\ dpc = "idle" /\ dcall = NULL
  /\ hpc = "init" /\ hcall = NULL

(* Mutant: no slot is kept free, so that a full ring looks empty.          *)
IsFullNoSpare == write_loc = read_loc /\ call_buf[write_loc] # NULL

IsFull == (write_loc + 1) % CallBufSize = read_loc
IsEmpty == write_loc = read_loc

-------------------------------------------------------------------------------
(* The distributing thread.                                                *)

(* Mutant: the context stays in the device's map after the end call.       *)
push_to_thread_keeps(c, last) ==
  /\ dpc = "idle" /\ registered /\ c \in idle
  /\ idle' = idle \ {c}
  /\ dcall' = c
  /\ is_end' = IF last THEN is_end \cup {c} ELSE is_end \ {c}
  /\ dpc' = "full?"
  /\ UNCHANGED <<ring, signal_state, life, should_stop, registered, hvars>>

(* push_to_thread: a packed call for this context.  A terminate call that  *)
(* makes remove_context drop the context is marked is_end; get_context     *)
(* never returns this context again.                                       *)
push_to_thread(c, last) ==
  /\ dpc = "idle" /\ registered /\ c \in idle
  /\ idle' = idle \ {c}
  /\ dcall' = c
  /\ is_end' = IF last THEN is_end \cup {c} ELSE is_end \ {c}
  /\ registered' = ~last
  /\ dpc' = "full?"
  /\ UNCHANGED <<ring, signal_state, life, should_stop, hvars>>

D_Full ==
  /\ dpc = "full?"
  /\ dpc' = IF IsFull THEN "wait" ELSE "store"
  /\ UNCHANGED <<ring, signal_state, life, should_stop, idle, dcall, registered, is_end, hvars>>

(* The outcomes of a wait for 0xffffffff ms on the auto-reset event: it    *)
(* takes the signal, or it leaves the event alone.  The latter happens     *)
(* when pthread_cond_timedwait refuses the deadline (tv_nsec above 10^9,   *)
(* which depends on the time of day) and when the time is up, after 49     *)
(* days.  The Windows build waits with INFINITE.                           *)
TakesSignal == signal_state /\ signal_state' = FALSE
WaitFails   == WaitCanFail /\ UNCHANGED signal_state

D_Wait ==
  /\ dpc = "wait" /\ TakesSignal
  /\ dpc' = "stop?"
  /\ UNCHANGED <<ring, life, should_stop, idle, dcall, registered, is_end, hvars>>

D_WaitFails ==
  /\ dpc = "wait" /\ WaitFails
  /\ dpc' = "stop?"
  /\ UNCHANGED <<ring, life, should_stop, idle, dcall, registered, is_end, hvars>>

(* Mutant: an "if" instead of the "while": no second look at the ring.     *)
D_StopNoRecheck ==
  /\ dpc = "stop?"
  /\ dpc' = IF should_stop THEN "idle" ELSE "store"
  /\ UNCHANGED <<ring, signal_state, life, should_stop, idle, dcall, registered, is_end, hvars>>

(* On shutdown call_push returns without queueing the call.                *)
D_Stop ==
  /\ dpc = "stop?"
  /\ dpc' = IF should_stop THEN "idle" ELSE "full?"
  /\ UNCHANGED <<ring, signal_state, life, should_stop, idle, dcall, registered, is_end, hvars>>

D_Store ==
  /\ dpc = "store"
  /\ call_buf' = [call_buf EXCEPT ![write_loc] = dcall]
  /\ dpc' = "publish"
  /\ UNCHANGED <<read_loc, write_loc, signal_state, life, should_stop, idle, dcall,
                 registered, is_end, hvars>>

D_Publish ==
  /\ dpc = "publish"
  /\ write_loc' = (write_loc + 1) % CallBufSize
  /\ dpc' = "set"
  /\ UNCHANGED <<call_buf, read_loc, signal_state, life, should_stop, idle, dcall,
                 registered, is_end, hvars>>

D_Set ==
  /\ dpc = "set"
  /\ signal_state' = TRUE
  /\ dpc' = "idle"
  /\ UNCHANGED <<ring, life, should_stop, idle, dcall, registered, is_end, hvars>>

call_push == D_Full \/ D_Wait \/ D_Stop \/ D_Store \/ D_Publish \/ D_Set

-------------------------------------------------------------------------------
(* The handle thread.                                                      *)

H_Init ==
  /\ hpc = "init"
  /\ thread_run' = 2
  /\ hpc' = "loop"
  /\ UNCHANGED <<ring, signal_state, memory, should_stop, idle, dvars, hcall>>

H_Loop ==
  /\ hpc = "loop"
  /\ hpc' = IF thread_run # 0 THEN "empty?" ELSE "delete"
  /\ UNCHANGED <<ring, signal_state, life, should_stop, idle, dvars, hcall>>

H_Empty ==
  /\ hpc = "empty?"
  /\ hpc' = IF IsEmpty THEN "wait" ELSE "take"
  /\ UNCHANGED <<ring, signal_state, life, should_stop, idle, dvars, hcall>>

H_Wait ==
  /\ hpc = "wait" /\ TakesSignal
  /\ hpc' = "stop?"
  /\ UNCHANGED <<ring, life, should_stop, idle, dvars, hcall>>

H_WaitFails ==
  /\ hpc = "wait" /\ WaitFails
  /\ hpc' = "stop?"
  /\ UNCHANGED <<ring, life, should_stop, idle, dvars, hcall>>

(* On shutdown call_pop returns NULL and handle_thread_run returns: the    *)
(* context is not freed.                                                   *)
H_Stop ==
  /\ hpc = "stop?"
  /\ hpc' = IF should_stop THEN "stopped" ELSE "empty?"
  /\ UNCHANGED <<ring, signal_state, life, should_stop, idle, dvars, hcall>>

(* An empty slot makes call_pop return NULL without moving read_loc;       *)
(* handle_thread_run then tests the stop flag and goes round its loop.     *)
H_Take ==
  /\ hpc = "take"
  /\ \/ /\ call_buf[read_loc] # NULL
        /\ hcall' = call_buf[read_loc]
        /\ hpc' = "clear"
     \/ /\ call_buf[read_loc] = NULL
        /\ hpc' = IF should_stop THEN "stopped" ELSE "loop"
        /\ UNCHANGED hcall
  /\ UNCHANGED <<ring, signal_state, life, should_stop, idle, dvars>>

H_Clear ==
  /\ hpc = "clear"
  /\ call_buf' = [call_buf EXCEPT ![read_loc] = NULL]
  /\ hpc' = "advance"
  /\ UNCHANGED <<read_loc, write_loc, signal_state, life, should_stop, idle, dvars, hcall>>

H_Advance ==
  /\ hpc = "advance"
  /\ read_loc' = (read_loc + 1) % CallBufSize
  /\ hpc' = "set"
  /\ UNCHANGED <<call_buf, write_loc, signal_state, life, should_stop, idle, dvars, hcall>>

H_Set ==
  /\ hpc = "set"
  /\ signal_state' = TRUE
  /\ hpc' = "dispatch"
  /\ UNCHANGED <<ring, life, should_stop, idle, dvars, hcall>>

call_pop == H_Empty \/ H_Wait \/ H_Stop \/ H_Take \/ H_Clear \/ H_Advance \/ H_Set

(* handle_thread_run with the call it got: on shutdown the thread returns  *)
(* and drops the call; the is_end call ends the loop; any other call goes  *)
(* to call_handle, which runs the call's callback when it is done.         *)
H_Dispatch ==
  /\ hpc = "dispatch"
  /\ \/ /\ should_stop
        /\ hpc' = "stopped"
        /\ UNCHANGED <<thread_run, idle>>
     \/ /\ ~should_stop
        /\ idle' = idle \cup {hcall}
        /\ thread_run' = IF hcall \in is_end THEN 0 ELSE thread_run
        /\ hpc' = "loop"
  /\ UNCHANGED <<ring, signal_state, memory, should_stop, dvars, hcall>>

H_Delete ==
  /\ hpc = "delete"
  /\ memory' = "no_event"
  /\ hpc' = "free"
  /\ UNCHANGED <<ring, signal_state, thread_run, should_stop, idle, dvars, hcall>>

H_Free ==
  /\ hpc = "free"
  /\ memory' = "freed"
  /\ hpc' = "done"
  /\ UNCHANGED <<ring, signal_state, thread_run, should_stop, idle, dvars, hcall>>

handle_thread_run == H_Init \/ H_Loop \/ call_pop \/ H_Dispatch \/ H_Delete \/ H_Free

(* shutdown_notify_callback of express_gpu_render.c.                       *)
Shutdown ==
  /\ ~should_stop
  /\ should_stop' = TRUE
  /\ UNCHANGED <<ring, signal_state, life, idle, dvars, hvars>>

Next ==
  \/ D_WaitFails
  \/ H_WaitFails
  \/ \E c \in Calls, last \in BOOLEAN : push_to_thread(c, last)
  \/ call_push
  \/ handle_thread_run
  \/ Shutdown

Spec == Init /\ [][Next]_vars

(* Both are running host threads: each keeps taking the steps it can take. *)
(* Nothing forces the guest to issue a call or the user to shut down.      *)
FairSpec == Spec /\ WF_vars(call_push) /\ WF_vars(handle_thread_run)

-------------------------------------------------------------------------------
(* The slot call_push writes is free: "error push find not null" is never  *)
(* printed and no queued call is overwritten, whatever H does between the  *)
(* full test and the store.                                                *)
PushFindsFreeSlot == dpc = "store" => call_buf[write_loc] = NULL

(* The slot call_pop reads holds a call: "call_pop obtained empty call!"   *)
(* is never logged, although D stores and publishes in two steps.          *)
PopFindsCall == hpc = "take" => call_buf[read_loc] # NULL

(* When handle_thread_run frees the context no call is left in the ring,   *)
(* and D is not inside call_push on it, except for the last statement of   *)
(* the push that carried the is_end call: signalling data_event.           *)
FreedContextIsDrained ==
  memory # "live" => /\ IsEmpty
                     /\ dpc \in {"idle", "set"}
                     /\ dpc = "set" => dcall \in is_end

(* call_pop "blocks until the next call arrives": once there is a call in  *)
(* the ring, a sleeping H wakes up (shutdown aside).                       *)
PopWakesUp == (hpc = "wait" /\ ~IsEmpty) ~> (hpc # "wait" \/ should_stop)

(* Every call that is in the ring is handed to the handle thread, unless   *)
(* the machine shuts down first or the one event has lost a wake-up: D and *)
(* H both sleep on it although the ring is full.                           *)
BothAsleep == dpc = "wait" /\ hpc = "wait" /\ IsFull /\ ~signal_state
QueuedCallIsHandled ==
  \A c \in Calls :
    (\E i \in Locs : call_buf[i] = c) ~> (hcall = c \/ should_stop \/ BothAsleep)

-------------------------------------------------------------------------------
(* The ring implements the bounded queue.  A pop takes effect when H reads *)
(* the slot, a push when D publishes write_loc.                            *)

(* The ring index n places after l, and the number of places from a to b.  *)
After(l, n) == IF l + n < CallBufSize THEN l + n ELSE l + n - CallBufSize
Span(a, b) == IF a <= b THEN b - a ELSE b - a + CallBufSize

(* H has taken the call at read_loc but read_loc still counts it.          *)
HeadTaken == hpc \in {"clear", "advance"}
QueueHead == IF HeadTaken THEN After(read_loc, 1) ELSE read_loc

QueuedCalls ==
  [k \in 1 .. Span(QueueHead, write_loc) |-> call_buf[After(QueueHead, k - 1)]]

Fifo == INSTANCE CallFifo WITH Capacity <- CallBufSize - 1, queue <- QueuedCalls, out <- hcall

(* Calls leave the ring in the order they entered it, each exactly once,   *)
(* and at most CALL_BUF_SIZE - 1 are in it.                                *)
ImplementsFifo == Fifo!Spec
===============================================================================

------------------------------ MODULE Distribute ------------------------------
(***************************************************************************)
(* How calls travel through teleport-express: the guest puts them on the   *)
(* virtqueue and kicks; either the kick handler V                          *)
(* (teleport_express_output_handle, on the thread of the VM exit) or the   *)
(* distributing thread D (call_distribute_thread, polling every            *)
(* millisecond) packs them, pushes them to the handling threads, recycles  *)
(* finished ones and notifies the guest.  V and D exclude each other with  *)
(* atomic_distribute_thread_running, here "lock": 0 free, 1 taken, 2 taken *)
(* by V while D asks for it.                                               *)
(*                                                                         *)
(* One turn of virtqueue_data_distribute_and_recycle is one action; the    *)
(* call rings, the recycle queue and the handling threads are abstracted   *)
(* to the sets of calls they hold (see CallRing and RecycleQueue).  D's    *)
(* wait has a timeout of 1 ms, so D can always wake up; recycle_event only *)
(* makes that happen sooner and is left out.                               *)
(***************************************************************************)
EXTENDS Integers, Sequences

CONSTANTS Calls,
          Sync,            \* the calls with FUN_NEED_SYNC
          Ctrl,            \* the calls for EXPRESS_CTRL_DEVICE_ID
          ReleaseLimit     \* 128: notify after so many releases

ASSUME SubsetAssumption == Sync \subseteq Calls /\ Ctrl \subseteq Calls
ASSUME LimitAssumption == ReleaseLimit \in Nat \ {0}

VARIABLES
  lock,                   \* atomic_distribute_thread_running
  run,                    \* distribute_thread_run
  should_stop,
  vq,                     \* calls on the virtqueue, oldest first
  handling, finished,     \* calls with a device, and on the recycle queue
  untold,                 \* released calls with no notification since
  idle,                   \* calls the guest owns
  kick,                   \* a kick V has not seen yet
  dpc, release_cnt,       \* D and its count of releases to announce
  vpc, need_irq,          \* V and its local flag
  raced                   \* history: D went on without the lock

calls == <<vq, handling, finished, untold, idle>>
dvars == <<dpc, release_cnt, raced>>
vvars == <<vpc, need_irq, kick>>
vars  == <<lock, run, should_stop, calls, dvars, vvars>>

DLocs == {"none", "start", "acquire", "body", "notify", "unlock", "wait", "try",
          "announce", "spin", "check", "done"}
VLocs == {"out", "loop", "body", "notify", "unlock"}

TypeOK ==
  /\ lock \in 0 .. 2 /\ run \in 0 .. 2
  /\ should_stop \in BOOLEAN /\ kick \in BOOLEAN /\ need_irq \in BOOLEAN /\ raced \in BOOLEAN
  /\ vq \in Seq(Calls)
  /\ handling \in SUBSET Calls /\ finished \in SUBSET Calls
  /\ untold \in SUBSET Calls /\ idle \in SUBSET Calls
  /\ dpc \in DLocs /\ vpc \in VLocs
  /\ release_cnt \in 0 .. ReleaseLimit

Init ==
  /\ lock = 0 /\ run = 0 /\ should_stop = FALSE
  /\ vq = <<>> /\ handling = {} /\ finished = {} /\ untold = {} /\ idle = Calls
  /\ kick = FALSE
  /\ dpc = "none" /\ release_cnt = 0
  /\ vpc = "out" /\ need_irq = FALSE
  /\ raced = FALSE

-------------------------------------------------------------------------------
(* The guest (external): issue a call and kick.                            *)
Submit(c) ==
  /\ c \in idle
  /\ idle' = idle \ {c} /\ untold' = untold \ {c}
  /\ vq' = Append(vq, c)
  /\ kick' = TRUE
  /\ UNCHANGED <<lock, run, should_stop, handling, finished, dvars, vpc, need_irq>>

(* A device finishes a call and runs its callback.                         *)
Finish(c) ==
  /\ c \in handling
  /\ handling' = handling \ {c}
  /\ finished' = finished \cup {c}
  /\ UNCHANGED <<lock, run, should_stop, vq, untold, idle, dvars, vvars>>

Shutdown ==
  /\ ~should_stop
  /\ should_stop' = TRUE
  /\ UNCHANGED <<lock, run, calls, dvars, vvars>>

-------------------------------------------------------------------------------
(* virtqueue_data_distribute_and_recycle with both flags set: pack one     *)
(* call and push it (a control call is served and finished on the spot),   *)
(* then recycle one finished call, any of them (the order of the queue is   *)
(* RecycleQueue's matter).  released is the set of at most one recycled    *)
(* call.                                                                   *)
CanPop == vq # <<>>
Packed == IF CanPop THEN {Head(vq)} ELSE {}

Irq(released) ==
  Packed \cap Ctrl \cap Sync # {} \/ released \cap Sync # {}

DistributeAndRecycle(released) ==
  /\ LET ready == finished \cup (Packed \cap Ctrl)
     IN  /\ IF ready = {} THEN released = {} ELSE \E c \in ready : released = {c}
         /\ finished' = ready \ released
  /\ vq' = IF CanPop THEN Tail(vq) ELSE vq
  /\ handling' = handling \cup (Packed \ Ctrl)
  /\ untold' = untold \cup released
  /\ idle' = idle \cup released

Recyclable == {{}} \cup {{c} : c \in Calls}

-------------------------------------------------------------------------------
(* The distributing thread.                                                *)
D_Start ==
  /\ dpc = "start"
  /\ run' = 2
  /\ dpc' = "acquire"
  /\ UNCHANGED <<lock, should_stop, calls, release_cnt, raced, vvars>>

(* The loop's head: leave on shutdown, keeping the lock.                   *)
D_Continue(d) == IF should_stop THEN "done" ELSE d

D_Acquire ==
  /\ dpc = "acquire" /\ lock = 0
  /\ lock' = 1
  /\ dpc' = D_Continue("body")
  /\ UNCHANGED <<run, should_stop, calls, release_cnt, raced, vvars>>

(* One turn.  With work done D goes to the test of release_cnt, otherwise  *)
(* it prepares to sleep.                                                   *)
D_Body ==
  /\ dpc = "body"
  /\ \E released \in Recyclable :
       /\ DistributeAndRecycle(released)
       /\ release_cnt' = IF released # {} THEN release_cnt + 1 ELSE release_cnt
       /\ dpc' = IF CanPop \/ released # {} THEN "check" ELSE "notify"
  /\ UNCHANGED <<lock, run, should_stop, raced, vvars>>

(* Mutant: D sleeps without announcing what it released.                   *)
D_NotifyForgotten ==
  /\ dpc = "notify"
  /\ dpc' = "unlock"
  /\ UNCHANGED <<lock, run, should_stop, calls, release_cnt, raced, vvars>>

(* virtio_notify before going to sleep.                                    *)
D_Notify ==
  /\ dpc = "notify"
  /\ untold' = IF release_cnt # 0 THEN {} ELSE untold
  /\ release_cnt' = 0
  /\ dpc' = "unlock"
  /\ UNCHANGED <<lock, run, should_stop, vq, handling, finished, idle, raced, vvars>>

D_Unlock ==
  /\ dpc = "unlock"
  /\ lock' = 0
  /\ dpc' = "wait"
  /\ UNCHANGED <<run, should_stop, calls, release_cnt, raced, vvars>>

(* Mutant: the wait has no timeout, only a finished call ends it.          *)
D_WakeOnRecycle ==
  /\ dpc = "wait" /\ finished # {}
  /\ dpc' = D_Continue("try")
  /\ UNCHANGED <<lock, run, should_stop, calls, release_cnt, raced, vvars>>

(* distribute_wait returns: signalled or after its timeout.                *)
D_Wake ==
  /\ dpc = "wait"
  /\ dpc' = D_Continue("try")
  /\ UNCHANGED <<lock, run, should_stop, calls, release_cnt, raced, vvars>>

(* The first compare-and-swap, 0 to 1.                                     *)
D_Try ==
  /\ dpc = "try"
  /\ lock' = IF lock = 0 THEN 1 ELSE lock
  /\ dpc' = IF lock = 1 THEN "announce" ELSE "check"
  /\ UNCHANGED <<run, should_stop, calls, release_cnt, raced, vvars>>

(* The second one, 1 to 2.  When V has just released the lock it fails and *)
(* D goes on: "he finished before I could set 2, so of course I go on".    *)
D_Announce ==
  /\ dpc = "announce"
  /\ lock' = IF lock = 1 THEN 2 ELSE lock
  /\ dpc' = IF lock = 1 THEN "spin" ELSE "check"
  /\ raced' = (raced \/ lock # 1)
  /\ UNCHANGED <<run, should_stop, calls, release_cnt, vvars>>

(* Mutant: D takes the lock it asked for without waiting for V.            *)
D_SpinNot ==
  /\ dpc = "spin"
  /\ lock' = 1
  /\ dpc' = "check"
  /\ UNCHANGED <<run, should_stop, calls, release_cnt, raced, vvars>>

D_Spin ==
  /\ dpc = "spin" /\ lock = 0
  /\ lock' = 1
  /\ dpc' = "check"
  /\ UNCHANGED <<run, should_stop, calls, release_cnt, raced, vvars>>

(* The end of the loop: under load, notify every ReleaseLimit releases.    *)
D_Check ==
  /\ dpc = "check"
  /\ IF release_cnt >= ReleaseLimit
     THEN release_cnt' = 0 /\ untold' = {}
     ELSE UNCHANGED <<release_cnt, untold>>
  /\ dpc' = D_Continue("body")
  /\ UNCHANGED <<lock, run, should_stop, vq, handling, finished, idle, raced, vvars>>

call_distribute_thread ==
  \/ D_Start \/ D_Acquire \/ D_Body \/ D_Notify \/ D_Unlock \/ D_Wake
  \/ D_Try \/ D_Announce \/ D_Spin \/ D_Check

-------------------------------------------------------------------------------
(* The first element is no call: it tells the host the guest's null        *)
(* pointer and is given back without a notification.                       *)
guest_null_ptr_init ==
  /\ CanPop
  /\ vq' = Tail(vq) /\ idle' = idle \cup {Head(vq)}

(* The kick handler.  The first kick creates D; kicks are ignored until D  *)
(* runs; then V takes the lock if it is free and otherwise leaves the work *)
(* to D.                                                                   *)
V_Enter ==
  /\ vpc = "out" /\ kick
  /\ kick' = FALSE
  /\ need_irq' = FALSE
  /\ \/ /\ run = 0
        /\ guest_null_ptr_init
        /\ run' = 1 /\ dpc' = "start"
        /\ UNCHANGED <<lock, vpc>>
     \/ /\ run = 2 /\ lock = 0
        /\ lock' = 1 /\ vpc' = "loop"
        /\ UNCHANGED <<run, dpc, vq, idle>>
     \/ /\ run = 1 \/ (run = 2 /\ lock # 0)
        /\ UNCHANGED <<lock, run, dpc, vpc, vq, idle>>
  /\ UNCHANGED <<should_stop, handling, finished, untold, release_cnt, raced>>

(* As soon as D asks, V stops.                                             *)
V_Loop ==
  /\ vpc = "loop"
  /\ vpc' = IF lock = 2 THEN "notify" ELSE "body"
  /\ UNCHANGED <<lock, run, should_stop, calls, dvars, need_irq, kick>>

V_Body ==
  /\ vpc = "body"
  /\ \E released \in Recyclable :
       /\ DistributeAndRecycle(released)
       /\ need_irq' = (need_irq \/ Irq(released))
       /\ vpc' = IF CanPop \/ released # {} THEN "loop" ELSE "notify"
  /\ UNCHANGED <<lock, run, should_stop, dvars, kick>>

V_Notify ==
  /\ vpc = "notify"
  /\ untold' = IF need_irq THEN {} ELSE untold
  /\ vpc' = "unlock"
  /\ UNCHANGED <<lock, run, should_stop, vq, handling, finished, idle, dvars, need_irq, kick>>

V_Unlock ==
  /\ vpc = "unlock"
  /\ lock' = 0
  /\ vpc' = "out"
  /\ UNCHANGED <<run, should_stop, calls, dvars, need_irq, kick>>

output_handle == V_Enter \/ V_Loop \/ V_Body \/ V_Notify \/ V_Unlock

Next ==
  \/ call_distribute_thread
  \/ output_handle
  \/ \E c \in Calls : Submit(c) \/ Finish(c)
  \/ Shutdown

Spec == Init /\ [][Next]_vars

(* D and V are host threads and devices finish what they are given; the    *)
(* guest may stop issuing calls at any time.  D's spins are covered by     *)
(* weak fairness only: a spin that sees the lock free now and then may     *)
(* miss it each time.                                                      *)
DistributeFairness ==
  /\ WF_vars(call_distribute_thread)
  /\ WF_vars(output_handle)
  /\ \A c \in Calls : WF_vars(Finish(c))
FairSpec == Spec /\ DistributeFairness

-------------------------------------------------------------------------------
DInside == dpc \in {"body", "notify", "unlock", "check"}
VInside == vpc \in {"loop", "body", "notify", "unlock"}

(* "Only this one place dequeues, so there is no concurrency problem": as  *)
(* long as D has not gone on without the lock (raced), the lock excludes   *)
(* the two threads, and it is taken exactly while one of them is inside.   *)
ExclusionUntilRaced ==
  ~raced => /\ ~(DInside /\ VInside)
            /\ DInside => lock = 1
            /\ VInside => lock # 0
            /\ lock = 2 => dpc = "spin"
            /\ lock # 0 => DInside \/ VInside \/ dpc = "done"

(* A call on the virtqueue is distributed, by V or by D, even when the     *)
(* kick was ignored because D was starting or the lock was taken.          *)
Queued(c) == \E i \in 1 .. Len(vq) : vq[i] = c
SubmittedIsDistributed ==
  \A c \in Calls : []<>(~Queued(c) \/ should_stop)

(* The guest is notified after the release of a call it waits for, no      *)
(* matter which thread released it and who held the lock, provided the     *)
(* load ends at some time: as long as the guest is busy V may stay in its  *)
(* loop, because D asks V to leave (lock 2) once and then only spins.      *)
GuestPauses == <>[][idle \subseteq idle']_vars
SyncReleaseIsAnnounced ==
  GuestPauses => \A c \in Sync : []<>(c \notin untold \/ should_stop)
===============================================================================

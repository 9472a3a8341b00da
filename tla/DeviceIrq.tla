------------------------------ MODULE DeviceIrq -------------------------------
(***************************************************************************)
(* The interrupts of an input device.  The guest lends the host one call   *)
(* per device, its irq call, through the input virtqueue; to interrupt the *)
(* guest a device thread takes the call out of device_context->irq_call    *)
(* and sends it back (set_express_device_irq).  The guest then registers   *)
(* the call again, or releases the device's interrupts.                    *)
(*                                                                         *)
(* The input virtqueue is emptied by two threads: the kick handler and the *)
(* input thread, which polls every millisecond; register_input_vq_locker   *)
(* admits one of them at a time and a thread that finds it taken leaves.   *)
(* irq_call is NULL (the call is under way), RELEASED (the pointer 1: the  *)
(* interrupts were released while the call was under way) or the call.     *)
(*                                                                         *)
(* A finished call goes back through call_recycle_queue, which the thread  *)
(* with the locker empties; that thread and the device threads fill it     *)
(* without a lock (input_call_release, as push_free_callback in            *)
(* RecycleQueue).  A slot is known by its distance from the header, so     *)
(* that a step of the header renumbers the slots.                          *)
(***************************************************************************)
EXTENDS Integers, Sequences

CONSTANTS Setters,                  \* device threads that raise interrupts
          CALL, RELEASED, NULL,     \* the contents of irq_call
          QueueSize                 \* CALL_BUF_SIZE + 2

Threads == {"kick", "input"}
Senders == Threads \cup Setters     \* the threads that run input_call_release

ASSUME IrqCallAssumption == CALL # RELEASED /\ CALL # NULL /\ RELEASED # NULL
ASSUME SettersAssumption == Threads \cap Setters = {}
ASSUME QueueAssumption == QueueSize \in Nat /\ QueueSize >= 3

VARIABLES
  inq,                     \* input virtqueue: "register" and "release" calls
  kick, locker,
  irq_enabled, irq_call,   \* the Device_Context
  lpc,                     \* thread -> where in register_input_buffer_call
  spc,                     \* setter -> where in set_express_device_irq
  queue, tail,             \* call_recycle_queue, call_recycle_queue_tail
  cb,                      \* sender -> where in input_call_release, its locals
  guest,                   \* the calls the guest owns
  open,                    \* the guest wants interrupts
  more,                    \* the guest's irq loop goes on: last irq was real
  robbed,                  \* history: a setter interfered with a release
  should_stop

qvars == <<queue, tail, cb>>
gvars == <<guest, open, more>>
vars  == <<inq, kick, locker, irq_enabled, irq_call, lpc, spc, qvars, gvars, robbed, should_stop>>

Kinds == {"register", "release"}

QueueSlots == 0 .. QueueSize - 1
After(i) == (i + 1) % QueueSize
Before(i) == (i + QueueSize - 1) % QueueSize
NoCallback == [at |-> "none", origin_tail |-> 0, t |-> 0]

TypeOK ==
  /\ inq \in Seq(Kinds) /\ Len(inq) <= 2
  /\ kick \in BOOLEAN /\ locker \in 0 .. 1
  /\ irq_enabled \in BOOLEAN
  /\ irq_call \in {CALL, RELEASED, NULL}
  /\ lpc \in [Threads -> {"out", "next", "reg_swap", "reg_again", "reg_send", "reg_enable",
                          "rel_disable", "rel_swap", "rel_send", "rel_clear", "rel_done",
                          "sync", "unlock"}]
  /\ spc \in [Setters -> {"idle", "swap", "send"}]
  /\ queue \in [QueueSlots -> Kinds \cup {"none"}] /\ tail \in QueueSlots
  /\ cb \in [Senders -> [at : {"none", "scan", "tail"}, origin_tail : QueueSlots, t : QueueSlots]]
  /\ guest \in SUBSET Kinds
  /\ open \in BOOLEAN /\ more \in BOOLEAN
  /\ robbed \in BOOLEAN /\ should_stop \in BOOLEAN

Init ==
  /\ inq = <<>> /\ kick = FALSE /\ locker = 0
  /\ irq_enabled = FALSE /\ irq_call = NULL
  /\ lpc = [t \in Threads |-> "out"]
  /\ spc = [s \in Setters |-> "idle"]
  /\ queue = [i \in QueueSlots |-> "none"] /\ tail = 0
  /\ cb = [a \in Senders |-> NoCallback]
  /\ guest = Kinds /\ open = FALSE /\ more = FALSE
  /\ robbed = FALSE /\ should_stop = FALSE

-------------------------------------------------------------------------------
(* The guest (external).  Its irq loop registers the call when the device  *)
(* is opened and again after each real interrupt, also when the device is  *)
(* being closed meanwhile; the reply of a release ends the loop.           *)
GuestSend(kind) ==
  /\ guest' = guest \ {kind}
  /\ inq' = Append(inq, kind)
  /\ kick' = TRUE
  /\ UNCHANGED <<locker, irq_enabled, irq_call, lpc, spc, qvars, robbed, should_stop>>

GuestRegister ==
  /\ "register" \in guest
  /\ more \/ "release" \in guest
  /\ GuestSend("register")
  /\ open' = (open \/ ~more)
  /\ UNCHANGED more

GuestRelease ==
  /\ open /\ "release" \in guest
  /\ GuestSend("release")
  /\ open' = FALSE
  /\ UNCHANGED more

Shutdown ==
  /\ ~should_stop
  /\ should_stop' = TRUE
  /\ UNCHANGED <<inq, kick, locker, irq_enabled, irq_call, lpc, spc, qvars, gvars, robbed>>

-------------------------------------------------------------------------------
At(t, from, to) == lpc[t] = from /\ lpc' = [lpc EXCEPT ![t] = to]

(* input_call_release: thread a reads the tail once, walks from there to   *)
(* the first empty slot and puts the call into it, and moves the tail, if  *)
(* it is still where it was.  A compare-and-exchange of a slot that fails  *)
(* changes nothing, and the walk goes on.                                  *)
CB_Begin(a) ==
  /\ cb[a].at = "none"
  /\ cb' = [cb EXCEPT ![a] = [at |-> "scan", origin_tail |-> tail, t |-> tail]]
  /\ UNCHANGED <<queue, tail>>

CB_Scan(a, call) ==
  /\ cb[a].at = "scan"
  /\ IF queue[After(cb[a].t)] # "none"
     THEN cb' = [cb EXCEPT ![a].t = After(@)] /\ UNCHANGED queue
     ELSE /\ queue' = [queue EXCEPT ![After(cb[a].t)] = call]
          /\ cb' = [cb EXCEPT ![a].at = "tail"]
  /\ UNCHANGED tail

CB_Tail(a) ==
  /\ cb[a].at = "tail"
  /\ tail' = IF tail = cb[a].origin_tail THEN After(cb[a].t) ELSE tail
  /\ cb' = [cb EXCEPT ![a] = NoCallback]
  /\ UNCHANGED queue

(* A kick, or the input thread's timeout; the thread that fails to get the *)
(* locker goes away.                                                       *)
L_Enter(t) ==
  /\ At(t, "out", IF locker = 0 THEN "next" ELSE "out")
  /\ IF t = "kick" THEN kick ELSE locker = 0 /\ ~should_stop
  /\ locker' = 1
  /\ kick' = IF t = "kick" THEN FALSE ELSE kick
  /\ UNCHANGED <<inq, irq_enabled, irq_call, spc, qvars, gvars, robbed, should_stop>>

(* push_to_device: the next call decides.                                  *)
L_Next(t) ==
  /\ inq # <<>>
  /\ At(t, "next", IF Head(inq) = "register" THEN "reg_swap" ELSE "rel_disable")
  /\ inq' = Tail(inq)
  /\ UNCHANGED <<kick, locker, irq_enabled, irq_call, spc, qvars, gvars, robbed, should_stop>>

(* common_device_irq_register: publish the call.                           *)
L_RegSwap(t) ==
  /\ At(t, "reg_swap", IF irq_call = RELEASED THEN "reg_again" ELSE "reg_enable")
  /\ irq_call' = CALL
  /\ UNCHANGED <<inq, kick, locker, irq_enabled, spc, qvars, gvars, robbed, should_stop>>

(* The interrupts were released meanwhile: take the call out again and     *)
(* send it back with zeros, unless a setter has taken it.                  *)
L_RegAgain(t) ==
  /\ At(t, "reg_again", CASE irq_call = NULL -> "reg_enable"
                          [] irq_call = CALL -> "reg_send"
                          [] OTHER           -> "next")
  /\ irq_call' = NULL
  /\ more' = (more /\ irq_call # CALL)
  /\ robbed' = (robbed \/ irq_call = NULL)
  /\ UNCHANGED <<inq, kick, locker, irq_enabled, spc, qvars, guest, open, should_stop>>

L_RegEnable(t) ==
  /\ At(t, "reg_enable", "next")
  /\ irq_enabled' = TRUE
  /\ UNCHANGED <<inq, kick, locker, irq_call, spc, qvars, gvars, robbed, should_stop>>

(* common_device_irq_release.                                              *)
L_RelDisable(t) ==
  /\ At(t, "rel_disable", "rel_swap")
  /\ irq_enabled' = FALSE
  /\ UNCHANGED <<inq, kick, locker, irq_call, spc, qvars, gvars, robbed, should_stop>>

(* Mutant: no mark is left for a call that is under way.                   *)
L_RelSwapNoMark(t) ==
  /\ At(t, "rel_swap", IF irq_call = CALL THEN "rel_send" ELSE "rel_done")
  /\ irq_call' = NULL
  /\ more' = (more /\ irq_call # CALL)
  /\ UNCHANGED <<inq, kick, locker, irq_enabled, spc, qvars, guest, open, robbed, should_stop>>

L_RelSwap(t) ==
  /\ At(t, "rel_swap", IF irq_call = CALL THEN "rel_send" ELSE "rel_done")
  /\ irq_call' = RELEASED
  /\ more' = (more /\ irq_call # CALL)
  /\ UNCHANGED <<inq, kick, locker, irq_enabled, spc, qvars, guest, open, robbed, should_stop>>

L_RelClear(t) ==
  /\ At(t, "rel_clear", "rel_done")
  /\ irq_call' = NULL
  /\ UNCHANGED <<inq, kick, locker, irq_enabled, spc, qvars, gvars, robbed, should_stop>>

(* The callback of the irq call that is sent back, or of the release.      *)
L_Callback(t) ==
  /\ lpc[t] \in {"reg_send", "rel_send", "rel_done"}
  /\ \/ CB_Begin(t) /\ UNCHANGED lpc
     \/ CB_Scan(t, IF lpc[t] = "rel_done" THEN "release" ELSE "register") /\ UNCHANGED lpc
     \/ CB_Tail(t) /\ lpc' = [lpc EXCEPT ![t] = IF @ = "rel_send" THEN "rel_clear" ELSE "next"]
  /\ UNCHANGED <<inq, kick, locker, irq_enabled, irq_call, spc, gvars, robbed, should_stop>>

(* There is no call left.                                                  *)
L_Last(t) ==
  /\ inq = <<>>
  /\ At(t, "next", "sync")
  /\ UNCHANGED <<inq, kick, locker, irq_enabled, irq_call, spc, qvars, gvars, robbed, should_stop>>

(* express_input_device_sync: give the call in the slot after the header   *)
(* back and advance the header, until that slot is empty.                  *)
Renumbered(c) ==
  IF c.at = "none" THEN c ELSE [c EXCEPT !.origin_tail = Before(@), !.t = Before(@)]

L_Sync(t) ==
  /\ lpc[t] = "sync" /\ queue[1] # "none"
  /\ guest' = guest \cup {queue[1]}
  /\ queue' = [i \in QueueSlots |-> IF i = 0 THEN "none" ELSE queue[After(i)]]
  /\ tail' = Before(tail)
  /\ cb' = [a \in Senders |-> Renumbered(cb[a])]
  /\ UNCHANGED <<inq, kick, locker, irq_enabled, irq_call, lpc, spc, open, more, robbed, should_stop>>

L_Synced(t) ==
  /\ At(t, "sync", "unlock") /\ queue[1] = "none"
  /\ UNCHANGED <<inq, kick, locker, irq_enabled, irq_call, spc, qvars, gvars, robbed, should_stop>>

L_Unlock(t) ==
  /\ At(t, "unlock", "out")
  /\ locker' = 0
  /\ UNCHANGED <<inq, kick, irq_enabled, irq_call, spc, qvars, gvars, robbed, should_stop>>

register_input_buffer_call(t) ==
  \/ L_Next(t) \/ L_RegSwap(t) \/ L_RegAgain(t) \/ L_RegEnable(t)
  \/ L_RelDisable(t) \/ L_RelSwap(t) \/ L_RelClear(t)
  \/ L_Callback(t) \/ L_Last(t) \/ L_Sync(t) \/ L_Synced(t) \/ L_Unlock(t)

-------------------------------------------------------------------------------
(* set_express_device_irq.                                                 *)
S_Check(s) ==
  /\ spc[s] = "idle" /\ irq_enabled
  /\ spc' = [spc EXCEPT ![s] = "swap"]
  /\ UNCHANGED <<inq, kick, locker, irq_enabled, irq_call, lpc, qvars, gvars, robbed, should_stop>>

(* Mutant: the call is read, not taken.                                    *)
S_SwapReadsOnly(s) ==
  /\ spc[s] = "swap"
  /\ spc' = [spc EXCEPT ![s] = IF irq_call = CALL THEN "send" ELSE "idle"]
  /\ more' = (more \/ irq_call = CALL)
  /\ robbed' = (robbed \/ irq_call = RELEASED)
  /\ UNCHANGED <<irq_call, inq, kick, locker, irq_enabled, lpc, qvars, guest, open, should_stop>>

(* Take what is in irq_call and write the data of the interrupt into it;   *)
(* give up if there is no call.                                            *)
S_Swap(s) ==
  /\ spc[s] = "swap"
  /\ irq_call' = NULL
  /\ spc' = [spc EXCEPT ![s] = IF irq_call = CALL THEN "send" ELSE "idle"]
  /\ more' = (more \/ irq_call = CALL)
  /\ robbed' = (robbed \/ irq_call = RELEASED)
  /\ UNCHANGED <<inq, kick, locker, irq_enabled, lpc, qvars, guest, open, should_stop>>

(* The callback of the call that was taken.                                *)
S_Send(s) ==
  /\ spc[s] = "send"
  /\ CB_Begin(s) \/ CB_Scan(s, "register")
  /\ UNCHANGED <<inq, kick, locker, irq_enabled, irq_call, lpc, spc, gvars, robbed, should_stop>>

S_Sent(s) ==
  /\ spc[s] = "send"
  /\ CB_Tail(s)
  /\ spc' = [spc EXCEPT ![s] = "idle"]
  /\ UNCHANGED <<inq, kick, locker, irq_enabled, irq_call, lpc, gvars, robbed, should_stop>>

set_express_device_irq(s) == S_Swap(s) \/ S_Send(s) \/ S_Sent(s)

Next ==
  \/ GuestRegister \/ GuestRelease \/ Shutdown
  \/ \E t \in Threads : L_Enter(t) \/ register_input_buffer_call(t)
  \/ \E s \in Setters : S_Check(s) \/ set_express_device_irq(s)

Spec == Init /\ [][Next]_vars

-------------------------------------------------------------------------------
(* Thread a has the irq call in its hands, to put it into the queue.       *)
Sends(a) ==
  /\ cb[a].at # "tail"
  /\ IF a \in Threads THEN lpc[a] \in {"reg_send", "rel_send"} ELSE spc[a] = "send"

(* The places where the irq call can be.                                   *)
Places ==
     (IF "register" \in guest THEN {<<"guest", 0>>} ELSE {})
     \cup {<<"inq", i>> : i \in {j \in 1 .. Len(inq) : inq[j] = "register"}}
     \cup {<<t, 0>> : t \in {u \in Threads : lpc[u] = "reg_swap"}}
     \cup (IF irq_call = CALL THEN {<<"irq_call", 0>>} ELSE {})
     \cup {<<"sender", a>> : a \in {b \in Senders : Sends(b)}}
     \cup {<<"queue", i>> : i \in {j \in QueueSlots : queue[j] = "register"}}

(* However register, release and interrupts interleave, and although the   *)
(* queue is filled without a lock, the irq call is always in exactly one   *)
(* place: it is neither lost nor sent back twice.                          *)
IrqCallInOnePlace == \E p \in Places : Places = {p}

(* Two callbacks that overlap may leave the tail behind the header; the    *)
(* next call is then put into a slot that express_input_device_sync has    *)
(* passed, and stays there until the queue has gone round.                 *)
Stranded == queue[1] = "none" /\ \E i \in QueueSlots : queue[i] # "none"

(* "Already released, so the call must be sent back now": once the guest   *)
(* has asked to release the interrupts it gets both calls back, even if    *)
(* the device never interrupts again; unless a device thread that had seen *)
(* the interrupts enabled took the mark of the release, or the call that   *)
(* register put back (robbed), or the queue has a call stranded.           *)
Closed == ~open /\ "release" \in guest
ReleaseReturnsCall ==
  []<>(open \/ guest = Kinds \/ should_stop \/ robbed \/ Stranded)
===============================================================================

----------------------------- MODULE MemTransfer ------------------------------
(***************************************************************************)
(* The asynchronous transfers of express-mem and their two users: the      *)
(* guest's uploads (gbuffer_data_guest_to_host) and the output side of the *)
(* video decoder (fill_one_output_buffer).  A transfer is a task in the    *)
(* queue of a GThreadPool; a worker maps the destination, lets pre_cb fill *)
(* it, ends the DMA and signals the task's sync id.                        *)
(*                                                                         *)
(* A buffer is "guest" (the guest may use it), "codec" (in the decoder's   *)
(* output_buffers) or "out" (handed to a transfer).  The guest takes an    *)
(* "out" buffer back when it has been signalled: by the sync id, or, for a *)
(* buffer in guest memory, by the event FillBufferDone.                    *)
(***************************************************************************)
EXTENDS Integers, Sequences, FiniteSets

CONSTANTS Decoders, Workers,     \* threads; MAX_MEM_WORKER_THREADS = |Workers|
          Gbuffers, GuestBufs,   \* output buffers: gbuffers, guest memory
          MaxLost                \* bound: lost frames that are counted

Bufs == Gbuffers \cup GuestBufs

ASSUME BufsAssumption == Gbuffers \cap GuestBufs = {}
ASSUME ThreadsAssumption == IsFiniteSet(Decoders) /\ IsFiniteSet(Workers)
ASSUME LostAssumption == MaxLost \in Nat \ {0}

VARIABLES
  st, signalled,   \* buffer -> who has it; the buffers signalled to the guest
  alive,           \* gbuffers in the global map
  queue,           \* tasks of the pool no worker has taken
  dpc,             \* decoder -> "idle" or "fill"
  wpc, wtask,      \* worker -> place, task
  frames,          \* AVFrames the decoder has allocated and nobody has freed
  lost,            \* history: how many of them nobody will free
  stuck            \* history: buffers whose transfer failed or was refused

bvars == <<st, signalled, alive>>
vars  == <<bvars, queue, dpc, wpc, wtask, frames, lost, stuck>>

(* "upload": guest memory to texture; "frame": a decoded frame to the      *)
(* gbuffer's texture; "guest": a decoded frame to guest memory.            *)
Kinds == {"upload", "frame", "guest"}
Task  == [kind : Kinds, buf : Bufs]
NoTask == [kind |-> "none"]

MAX_MEM_WORKER_THREADS == Cardinality(Workers)

TypeOK ==
  /\ st \in [Bufs -> {"guest", "codec", "out"}]
  /\ signalled \in SUBSET Bufs /\ alive \in SUBSET Gbuffers
  /\ queue \in Seq(Task)
  /\ dpc \in [Decoders -> {"idle", "fill"}]
  /\ wpc \in [Workers -> {"idle", "map", "pre", "end", "signal", "exit"}]
  /\ wtask \in [Workers -> Task \cup {NoTask}]
  /\ frames \in Nat /\ lost \in 0 .. MaxLost
  /\ stuck \in SUBSET Bufs

Init ==
  /\ st = [b \in Bufs |-> "guest"]
  /\ signalled = {} /\ alive = {}
  /\ queue = <<>>
  /\ dpc = [d \in Decoders |-> "idle"]
  /\ wpc = [w \in Workers |-> "idle"] /\ wtask = [w \in Workers |-> NoTask]
  /\ frames = 0
  /\ lost = 0 /\ stuck = {}

-------------------------------------------------------------------------------
(* mem_transfer_async with different devices.                              *)
mem_transfer_async(kind, b) == queue' = Append(queue, [kind |-> kind, buf |-> b])

mem_transfer_is_busy == Len(queue) > MAX_MEM_WORKER_THREADS

(* A frame is lost, besides the others that are not freed.                 *)
Lose(others) ==
  IF lost < MaxLost THEN lost' = lost + 1 /\ frames' = others + 1
  ELSE lost' = lost /\ frames' = others

(* The guest (external) waits for the signal before it touches a buffer.   *)
GuestTakesBack(b) ==
  /\ st[b] = "out" /\ b \in signalled
  /\ st' = [st EXCEPT ![b] = "guest"]
  /\ signalled' = signalled \ {b}
  /\ UNCHANGED <<alive, queue, dpc, wpc, wtask, frames, lost, stuck>>

(* FUNID_Alloc_Gbuffer.                                                    *)
Alloc_Gbuffer(b) ==
  /\ st[b] = "guest" /\ b \in Gbuffers \ alive
  /\ alive' = alive \cup {b}
  /\ UNCHANGED <<st, signalled, queue, dpc, wpc, wtask, frames, lost, stuck>>

(* FUNID_Terminate_Gbuffer for a gbuffer no surface is destroying.         *)
Terminate_Gbuffer(b) ==
  /\ st[b] = "guest" /\ b \in alive
  /\ alive' = alive \ {b}
  /\ UNCHANGED <<st, signalled, queue, dpc, wpc, wtask, frames, lost, stuck>>

(* gbuffer_data_guest_to_host: without a gbuffer, or if the size is not    *)
(* the gbuffer's or the gbuffer has no guest_data (which one that the      *)
(* decoder created has not), nothing happens and nothing is signalled.     *)
gbuffer_data_guest_to_host(b) ==
  /\ st[b] = "guest" /\ b \in Gbuffers
  /\ st' = [st EXCEPT ![b] = "out"]
  /\ \/ b \in alive /\ mem_transfer_async("upload", b) /\ UNCHANGED stuck
     \/ stuck' = stuck \cup {b} /\ UNCHANGED queue
  /\ UNCHANGED <<signalled, alive, dpc, wpc, wtask, frames, lost>>

(* DCODEC_FUN_ProcessThisBuffer with an output buffer.                     *)
ProcessThisBuffer(b) ==
  /\ st[b] = "guest"
  /\ st' = [st EXCEPT ![b] = "codec"]
  /\ UNCHANGED <<signalled, alive, queue, dpc, wpc, wtask, frames, lost, stuck>>

(* dcodec_flush_buffers of the output queue: no transfer is to be waited   *)
(* for.                                                                    *)
dcodec_flush_buffers ==
  /\ st' = [b \in Bufs |-> IF st[b] = "codec" THEN "out" ELSE st[b]]
  /\ signalled' = signalled \cup {b \in Bufs : st[b] = "codec"}
  /\ UNCHANGED <<alive, queue, dpc, wpc, wtask, frames, lost, stuck>>

-------------------------------------------------------------------------------
(* fill_one_output_buffer allocates a frame and returns at once, without   *)
(* the frame, while the transfers are busy.                                *)
D_Busy(d) ==
  /\ dpc[d] = "idle"
  /\ \E b \in Bufs : st[b] = "codec"
  /\ IF mem_transfer_is_busy THEN Lose(frames) /\ UNCHANGED dpc
     ELSE dpc' = [dpc EXCEPT ![d] = "fill"] /\ UNCHANGED <<frames, lost>>
  /\ UNCHANGED <<bvars, queue, wpc, wtask, stuck>>

(* No frame is available.                                                  *)
D_NoFrame(d) ==
  /\ dpc[d] = "fill"
  /\ dpc' = [dpc EXCEPT ![d] = "idle"]
  /\ UNCHANGED <<bvars, queue, wpc, wtask, frames, lost, stuck>>

(* The decoder is drained: dcodec_fill_eos_output_buffer returns an empty  *)
(* buffer, for which no transfer is to be waited for.                      *)
D_Eos(d, b) ==
  /\ dpc[d] = "fill" /\ st[b] = "codec"
  /\ dpc' = [dpc EXCEPT ![d] = "idle"]
  /\ st' = [st EXCEPT ![b] = "out"]
  /\ signalled' = signalled \cup {b}
  /\ UNCHANGED <<alive, queue, wpc, wtask, frames, lost, stuck>>

(* The descriptor leaves output_buffers.                                   *)
D_Pop(d, b) ==
  /\ dpc[d] = "fill" /\ st[b] = "codec"
  /\ dpc' = [dpc EXCEPT ![d] = "idle"]
  /\ st' = [st EXCEPT ![b] = "out"]
  /\ UNCHANGED <<wpc, wtask, lost>>

(* CODEC_BUFFER_TYPE_GUEST_MEM: the task gets the frame and the            *)
(* descriptor.                                                             *)
D_ToGuest(d, b) ==
  /\ D_Pop(d, b) /\ b \in GuestBufs
  /\ mem_transfer_async("guest", b)
  /\ frames' = frames + 1
  /\ UNCHANGED <<signalled, alive, stuck>>

(* The format has no texture format: the frame is freed.                   *)
D_BadFormat(d, b) ==
  /\ D_Pop(d, b) /\ b \in Gbuffers
  /\ stuck' = stuck \cup {b}
  /\ UNCHANGED <<signalled, alive, queue, frames>>

(* "output buffer type not supported yet": the frame is freed, and the     *)
(* guest hears nothing of its buffer.                                      *)
D_Unsupported(d, b) ==
  /\ D_Pop(d, b)
  /\ stuck' = stuck \cup {b}
  /\ UNCHANGED <<signalled, alive, queue, frames>>

(* A frame of the GPU: converted in place, source and destination of the   *)
(* transfer are both the texture and the sync id is signalled at once.     *)
D_InGpu(d, b) ==
  /\ D_Pop(d, b) /\ b \in Gbuffers
  /\ alive' = alive \cup {b}
  /\ signalled' = signalled \cup {b}
  /\ UNCHANGED <<queue, frames, stuck>>

(* A frame in host memory: the task gets it; the guest is notified and the *)
(* descriptor freed ahead of time.                                         *)
D_ToTexture(d, b) ==
  /\ D_Pop(d, b) /\ b \in Gbuffers
  /\ alive' = alive \cup {b}
  /\ mem_transfer_async("frame", b)
  /\ frames' = frames + 1
  /\ UNCHANGED <<signalled, stuck>>

fill_one_output_buffer(d) ==
  \/ D_NoFrame(d)
  \/ \E b \in Bufs :
       \/ D_Eos(d, b) \/ D_ToGuest(d, b) \/ D_BadFormat(d, b) \/ D_Unsupported(d, b)
       \/ D_InGpu(d, b) \/ D_ToTexture(d, b)

-------------------------------------------------------------------------------
(* express_mem_worker.                                                     *)
WGo(w, from, to) == wpc[w] = from /\ wpc' = [wpc EXCEPT ![w] = to]

K_Take(w) ==
  /\ queue # <<>>
  /\ WGo(w, "idle", IF Head(queue).kind = "guest" THEN "pre" ELSE "map")
  /\ wtask' = [wtask EXCEPT ![w] = Head(queue)]
  /\ queue' = Tail(queue)
  /\ UNCHANGED <<bvars, dpc, frames, lost, stuck>>

K_Map(w) ==
  /\ WGo(w, "map", "pre")
  /\ UNCHANGED <<bvars, queue, dpc, wtask, frames, lost, stuck>>

(* glMapBufferRange fails: "goto EXIT".                                    *)
K_MapFails(w) ==
  /\ WGo(w, "map", "exit")
  /\ IF wtask[w].kind = "frame" THEN Lose(frames - 1) ELSE UNCHANGED <<frames, lost>>
  /\ stuck' = stuck \cup {wtask[w].buf}
  /\ UNCHANGED <<bvars, queue, dpc, wtask>>

(* Mutant: the sync id is signalled before the data is in the texture.     *)
K_PreSignals(w) ==
  /\ WGo(w, "pre", IF wtask[w].kind = "guest" THEN "exit" ELSE "end")
  /\ frames' = IF wtask[w].kind = "upload" THEN frames ELSE frames - 1
  /\ signalled' = signalled \cup {wtask[w].buf}
  /\ UNCHANGED <<st, alive, queue, dpc, wtask, lost, stuck>>

(* Mutant: swscale_task_cb does not free the frame.                        *)
K_PreKeepsFrame(w) ==
  /\ WGo(w, "pre", IF wtask[w].kind = "guest" THEN "exit" ELSE "end")
  /\ signalled' = IF wtask[w].kind = "guest" THEN signalled \cup {wtask[w].buf} ELSE signalled
  /\ UNCHANGED <<st, alive, queue, dpc, wtask, frames, lost, stuck>>

(* pre_cb: guest_to_host_dma_task, or swscale_task_cb, which frees the     *)
(* frame and sends FillBufferDone for a buffer in guest memory.            *)
K_Pre(w) ==
  /\ WGo(w, "pre", IF wtask[w].kind = "guest" THEN "exit" ELSE "end")
  /\ frames' = IF wtask[w].kind = "upload" THEN frames ELSE frames - 1
  /\ signalled' = IF wtask[w].kind = "guest" THEN signalled \cup {wtask[w].buf} ELSE signalled
  /\ UNCHANGED <<st, alive, queue, dpc, wtask, lost, stuck>>

(* swscale_task_cb returns early: no scaling parameters for the format.    *)
K_PreFails(w) ==
  /\ WGo(w, "pre", IF wtask[w].kind = "guest" THEN "exit" ELSE "end")
  /\ wtask[w].kind # "upload"
  /\ Lose(frames - 1)
  /\ stuck' = IF wtask[w].kind = "guest" THEN stuck \cup {wtask[w].buf} ELSE stuck
  /\ UNCHANGED <<bvars, queue, dpc, wtask>>

(* end_dma_to_gbuffer.                                                     *)
K_End(w) ==
  /\ WGo(w, "end", "signal")
  /\ UNCHANGED <<bvars, queue, dpc, wtask, frames, lost, stuck>>

(* Mutant: a decoded frame is not signalled.                               *)
K_SignalUploads(w) ==
  /\ WGo(w, "signal", "exit")
  /\ signalled' = IF wtask[w].kind = "upload" THEN signalled \cup {wtask[w].buf} ELSE signalled
  /\ UNCHANGED <<st, alive, queue, dpc, wtask, frames, lost, stuck>>

K_Signal(w) ==
  /\ WGo(w, "signal", "exit")
  /\ signalled' = signalled \cup {wtask[w].buf}
  /\ UNCHANGED <<st, alive, queue, dpc, wtask, frames, lost, stuck>>

(* No caller has a post_cb; the task is freed.                             *)
K_Exit(w) ==
  /\ WGo(w, "exit", "idle")
  /\ wtask' = [wtask EXCEPT ![w] = NoTask]
  /\ UNCHANGED <<bvars, queue, dpc, frames, lost, stuck>>

express_mem_worker(w) ==
  \/ K_Take(w) \/ K_Map(w) \/ K_MapFails(w) \/ K_Pre(w) \/ K_PreFails(w)
  \/ K_End(w) \/ K_Signal(w) \/ K_Exit(w)

-------------------------------------------------------------------------------
Next ==
  \/ \E b \in Bufs :
       \/ GuestTakesBack(b) \/ Alloc_Gbuffer(b) \/ Terminate_Gbuffer(b)
       \/ gbuffer_data_guest_to_host(b) \/ ProcessThisBuffer(b)
  \/ dcodec_flush_buffers
  \/ \E d \in Decoders : D_Busy(d) \/ fill_one_output_buffer(d)
  \/ \E w \in Workers : express_mem_worker(w)

Spec == Init /\ [][Next]_vars

-------------------------------------------------------------------------------
(* The tasks that still own a decoded frame.                               *)
HeldFrames ==
  {b \in Bufs :
     \/ \E i \in 1 .. Len(queue) : queue[i].kind # "upload" /\ queue[i].buf = b
     \/ \E w \in Workers : /\ wpc[w] \in {"map", "pre"}
                           /\ wtask[w].kind # "upload" /\ wtask[w].buf = b}

(* mem_transfer_is_busy is tested long before the task is queued: the      *)
(* decoders together overshoot the limit by no more than their number.     *)
Decoded == {i \in 1 .. Len(queue) : queue[i].kind # "upload"}
DecodedTasksAreBounded ==
  Cardinality(Decoded) <= MAX_MEM_WORKER_THREADS + Cardinality(Decoders)

(* The raw Hardware_Buffer pointer of a task is valid when the worker uses *)
(* it, if the guest terminates no buffer before it is signalled: the       *)
(* signal is the last thing that happens to a transfer's gbuffer.          *)
WorkerUsesLiveGbuffer ==
  \A w \in Workers :
    wpc[w] \in {"map", "pre", "end"} /\ wtask[w].kind # "guest" => wtask[w].buf \in alive

(* "mFrame is freed by swscale_task_cb": of the frames that nobody has     *)
(* freed each belongs to a task that will still free it, but for those     *)
(* that are lost: swscale_task_cb returned early, the texture was not      *)
(* mapped, or the decoder was turned away because the transfers were busy. *)
FrameIsFreedOrLost == frames = Cardinality(HeldFrames) + lost

(* A buffer handed to a transfer is returned to the guest, unless its      *)
(* transfer failed or was refused.  (A buffer that is out can only go back *)
(* to the guest, so it is enough that it is not out for ever.)             *)
BufferComesBack ==
  \A b \in Bufs : []<>(st[b] # "out" \/ b \in stuck)
===============================================================================

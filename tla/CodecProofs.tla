----------------------------- MODULE CodecProofs ------------------------------
(***************************************************************************)
(* The transfers of MemTransfer use only gbuffers that live, free every    *)
(* frame, and are bounded although mem_transfer_is_busy is tested early:   *)
(* for any number of decoders, workers and buffers, and for the decoder    *)
(* component of Codec, whose steps are steps of MemTransfer or leave its   *)
(* variables alone.                                                        *)
(*                                                                         *)
(* The invariant is that a task has its buffer for itself: the buffer is   *)
(* out, no other task has it, and it is not signalled before the task is   *)
(* over, so that the guest does not touch it.                              *)
(*                                                                         *)
(* Of Codec it is shown that the decoder does not rest with buffers in     *)
(* both queues, from what its counters of notifications and its queues of  *)
(* buffers have to do with each other.                                     *)
(***************************************************************************)
EXTENDS Codec, FiniteSetTheorems, TLAPS

At(w) == wpc[w] \in {"map", "pre", "end", "signal"}
Owns(t) ==
  /\ t \in Task /\ st[t.buf] = "out" /\ t.buf \notin signalled
  /\ t.kind # "guest" => t.buf \in alive

Typed ==
  /\ st \in [Bufs -> {"guest", "codec", "out"}]
  /\ queue \in Seq(Task)
  /\ wpc \in [Workers -> {"idle", "map", "pre", "end", "signal", "exit"}]
  /\ DOMAIN wtask = Workers /\ wtask = [w \in Workers |-> wtask[w]]

Own ==
  /\ \A i \in 1 .. Len(queue) : Owns(queue[i])
  /\ \A w \in Workers : At(w) => Owns(wtask[w])
  /\ \A w \in Workers : wpc[w] = "map" => wtask[w].kind # "guest"
  /\ \A b \in Bufs : b \in signalled => st[b] = "out"

Alone ==
  /\ \A i, j \in 1 .. Len(queue) : queue[i].buf = queue[j].buf => i = j
  /\ \A i \in 1 .. Len(queue), w \in Workers : At(w) => queue[i].buf # wtask[w].buf
  /\ \A v, w \in Workers : At(v) /\ At(w) /\ wtask[v].buf = wtask[w].buf => v = w

TransferIInv == Typed /\ Own /\ Alone

-------------------------------------------------------------------------------
LEMMA TransferInit == Init => TransferIInv
BY DEF Init, TransferIInv, Typed, Own, Alone, At

(* A buffer that is not out is queued for a transfer.                      *)
LEMMA PushKeeps ==
  ASSUME TransferIInv, NEW b \in Bufs, NEW kind \in Kinds, st[b] # "out",
         st' = [st EXCEPT ![b] = "out"], mem_transfer_async(kind, b),
         alive \subseteq alive', kind # "guest" => b \in alive',
         UNCHANGED <<signalled, wpc, wtask>>
  PROVE  TransferIInv'
<1> USE DEF TransferIInv, At
<1>1. [kind |-> kind, buf |-> b] \in Task
  BY DEF Task
<1>2. /\ queue' \in Seq(Task) /\ Len(queue') = Len(queue) + 1 /\ Len(queue) \in Nat
      /\ queue'[Len(queue) + 1] = [kind |-> kind, buf |-> b]
      /\ \A i \in 1 .. Len(queue) : queue'[i] = queue[i]
  BY <1>1 DEF mem_transfer_async, Typed
<1>3. \A t : Owns(t) => t.buf # b /\ Owns(t)'
  BY DEF Owns, Typed, Task
<1>4. Owns([kind |-> kind, buf |-> b])'
  BY <1>1 DEF Owns, Own, Typed
<1>5. Typed'
  BY <1>2 DEF Typed
<1>6. Own'
  BY <1>2, <1>3, <1>4 DEF Own, Typed
<1>7. Alone'
  BY <1>2, <1>3 DEF Alone, Own
<1> QED BY <1>5, <1>6, <1>7

(* The buffers of the guest and of the decoder, and what is returned       *)
(* without a transfer: no task has them.                                   *)
LEMMA BufferKeeps ==
  ASSUME TransferIInv,
         st' \in [Bufs -> {"guest", "codec", "out"}],
         \A b \in Bufs : st[b] = "out" => \/ st'[b] = "out" /\ (b \in signalled' => b \in signalled)
                                          \/ b \in signalled,
         \A b \in Bufs : b \in signalled' => st'[b] = "out",
         \A b \in alive : b \in alive' \/ (b \in Bufs /\ st[b] # "out"),
         UNCHANGED <<queue, wpc, wtask>>
  PROVE  TransferIInv'
<1> USE DEF TransferIInv, At
<1>1. \A t : Owns(t) => Owns(t)'
  BY DEF Owns, Typed, Task
<1>2. Typed'
  BY DEF Typed
<1>3. Own'
  BY <1>1 DEF Own
<1>4. Alone'
  BY DEF Alone
<1> QED BY <1>2, <1>3, <1>4

LEMMA GuestKeeps ==
  ASSUME TransferIInv, NEW b \in Bufs,
         \/ GuestTakesBack(b) \/ Alloc_Gbuffer(b) \/ Terminate_Gbuffer(b)
         \/ gbuffer_data_guest_to_host(b) \/ ProcessThisBuffer(b)
  PROVE  TransferIInv'
<1> USE DEF TransferIInv, Typed, Own
<1>1. CASE GuestTakesBack(b)
  BY <1>1, BufferKeeps DEF GuestTakesBack
<1>2. CASE Alloc_Gbuffer(b) \/ Terminate_Gbuffer(b)
  BY <1>2, BufferKeeps DEF Alloc_Gbuffer, Terminate_Gbuffer
<1>3. CASE gbuffer_data_guest_to_host(b) /\ b \in alive /\ mem_transfer_async("upload", b)
  BY <1>3, PushKeeps, Zenon DEF gbuffer_data_guest_to_host, Kinds
<1>4. CASE gbuffer_data_guest_to_host(b) /\ UNCHANGED queue
  BY <1>4, BufferKeeps DEF gbuffer_data_guest_to_host
<1>5. CASE ProcessThisBuffer(b)
  BY <1>5, BufferKeeps DEF ProcessThisBuffer
<1> QED BY <1>1, <1>2, <1>3, <1>4, <1>5 DEF gbuffer_data_guest_to_host

LEMMA DecoderKeeps ==
  ASSUME TransferIInv, NEW d \in Decoders, D_Busy(d) \/ fill_one_output_buffer(d)
  PROVE  TransferIInv'
<1> USE DEF TransferIInv, Typed, Own
<1>1. CASE D_Busy(d) \/ D_NoFrame(d)
  BY <1>1, BufferKeeps DEF D_Busy, D_NoFrame, bvars
<1>2. ASSUME NEW b \in Bufs, D_Eos(d, b) \/ D_BadFormat(d, b) \/ D_Unsupported(d, b) \/ D_InGpu(d, b)
      PROVE  TransferIInv'
  BY <1>2, BufferKeeps DEF D_Eos, D_BadFormat, D_Unsupported, D_InGpu, D_Pop
<1>3. ASSUME NEW b \in Bufs, D_ToGuest(d, b) \/ D_ToTexture(d, b)
      PROVE  TransferIInv'
  BY <1>3, PushKeeps DEF D_ToGuest, D_ToTexture, D_Pop, Kinds
<1> QED BY <1>1, <1>2, <1>3 DEF fill_one_output_buffer

(* A worker takes the first task, and lets go of it when it signals.       *)
LEMMA WorkerKeeps ==
  ASSUME TransferIInv, NEW w \in Workers, express_mem_worker(w)
  PROVE  TransferIInv'
<1> USE DEF TransferIInv, WGo
<1>1. CASE K_Take(w)
  <2>1. /\ queue # <<>> /\ queue' = Tail(queue) /\ wpc[w] = "idle"
        /\ wpc' = [wpc EXCEPT ![w] = IF Head(queue).kind = "guest" THEN "pre" ELSE "map"]
        /\ wtask' = [wtask EXCEPT ![w] = Head(queue)]
        /\ UNCHANGED <<st, signalled, alive>>
    BY <1>1 DEF K_Take, bvars
  <2>2. /\ queue' \in Seq(Task) /\ Len(queue') = Len(queue) - 1 /\ Len(queue) \in Nat \ {0}
        /\ Head(queue) = queue[1] /\ \A i \in 1 .. Len(queue') : queue'[i] = queue[i + 1]
    BY <2>1 DEF Typed
  <2>3. \A t : Owns(t)' <=> Owns(t)
    BY <2>1 DEF Owns
  <2>4. Typed'
    BY <2>1, <2>2, Zenon DEF Typed
  <2>5. /\ At(w)' /\ wtask'[w] = queue[1]
        /\ \A v \in Workers : v # w => (At(v)' <=> At(v)) /\ wtask'[v] = wtask[v]
    BY <2>1, <2>2 DEF Typed, At
  <2>6. Own'
    BY <2>1, <2>2, <2>3, <2>5 DEF Own, Typed
  <2>7. Alone'
    <3>1. \A i \in 1 .. Len(queue') : i + 1 \in 1 .. Len(queue) /\ i + 1 # 1 /\ queue'[i] = queue[i + 1]
      BY <2>2
    <3>2. 1 \in 1 .. Len(queue)
      BY <2>2
    <3>3. ASSUME NEW i \in 1 .. Len(queue'), NEW j \in 1 .. Len(queue'), queue'[i].buf = queue'[j].buf
          PROVE  i = j
      <4>1. i + 1 = j + 1
        BY <3>1, <3>3 DEF Alone
      <4> QED BY <4>1
    <3>4. ASSUME NEW i \in 1 .. Len(queue'), NEW v \in Workers, At(v)'
          PROVE  queue'[i].buf # wtask'[v].buf
      BY <2>5, <3>1, <3>2, <3>4 DEF Alone
    <3>5. ASSUME NEW u \in Workers, NEW v \in Workers, At(u)', At(v)', wtask'[u].buf = wtask'[v].buf
          PROVE  u = v
      BY <2>5, <3>2, <3>5 DEF Alone
    <3> QED BY <3>3, <3>4, <3>5 DEF Alone
  <2> QED BY <2>4, <2>6, <2>7
<1>2. CASE K_Exit(w)
  BY <1>2 DEF K_Exit, bvars, Typed, Own, Owns, Alone, At
<1>3. CASE K_Map(w) \/ K_MapFails(w) \/ K_PreFails(w) \/ K_End(w)
  BY <1>3 DEF K_Map, K_MapFails, K_PreFails, K_End, bvars, Typed, Own, Owns, Alone, At
<1>4. CASE K_Pre(w) \/ K_Signal(w)
  <2>1. /\ At(w) /\ queue' = queue /\ wtask' = wtask /\ st' = st /\ alive' = alive
        /\ \/ At(w)' /\ signalled' = signalled
           \/ ~At(w)' /\ signalled' = signalled \cup {wtask[w].buf}
        /\ wpc'[w] # "map" /\ Typed'
        /\ \A v \in Workers : v # w => wpc'[v] = wpc[v]
    BY <1>4 DEF K_Pre, K_Signal, Typed, At
  <2>2. \A t : Owns(t) /\ t.buf # wtask[w].buf => Owns(t)'
    BY <2>1 DEF Owns
  <2>3. Own'
    <3>1. \A b \in Bufs : b \in signalled' => st'[b] = "out"
      BY <2>1 DEF Own, Owns
    <3>2. \A i \in 1 .. Len(queue) : Owns(queue[i])'
      BY <2>1, <2>2 DEF Own, Alone
    <3>3. \A v \in Workers : At(v)' => Owns(wtask[v])'
      BY <2>1, <2>2 DEF Own, Owns, Alone, At
    <3> QED BY <2>1, <3>1, <3>2, <3>3 DEF Own
  <2>4. Alone'
    BY <2>1 DEF Alone, At
  <2> QED BY <2>1, <2>3, <2>4
<1> QED BY <1>1, <1>2, <1>3, <1>4 DEF express_mem_worker

LEMMA TransferStep == TransferIInv /\ [Next]_vars => TransferIInv'
<1> SUFFICES ASSUME TransferIInv, [Next]_vars PROVE TransferIInv'
  OBVIOUS
<1>1. CASE UNCHANGED vars
  BY <1>1 DEF vars, bvars, TransferIInv, Typed, Own, Owns, Alone, At
<1>2. CASE dcodec_flush_buffers
  BY <1>2, BufferKeeps DEF dcodec_flush_buffers, TransferIInv, Typed, Own
<1> QED BY <1>1, <1>2, GuestKeeps, DecoderKeeps, WorkerKeeps DEF Next

(* However uploads, decoding and the guest's use of its buffers interleave,*)
(* express_mem_worker never uses a Hardware_Buffer that has been freed.    *)
THEOREM WorkersAreSafe == Spec => []WorkerUsesLiveGbuffer
<1>1. Spec => []TransferIInv
  BY TransferInit, TransferStep, PTL DEF Spec
<1>2. TransferIInv => WorkerUsesLiveGbuffer
  BY DEF TransferIInv, Own, Owns, At, WorkerUsesLiveGbuffer
<1> QED BY <1>1, <1>2, PTL

-------------------------------------------------------------------------------
(* Frames: a frame that is handed over gets a holder, and a task that is   *)
(* done with its frame, or loses it, has it no more.                       *)
FramesIInv ==
  /\ lost \in 0 .. MaxLost
  /\ IsFiniteSet(HeldFrames) /\ frames = Cardinality(HeldFrames) + lost

LEMMA HeldPush ==
  ASSUME TransferIInv, NEW b \in Bufs, NEW kind \in Kinds, st[b] # "out",
         mem_transfer_async(kind, b), UNCHANGED <<wpc, wtask>>
  PROVE  /\ kind = "upload" => HeldFrames' = HeldFrames
         /\ kind # "upload" => HeldFrames' = HeldFrames \cup {b} /\ b \notin HeldFrames
<1>1. [kind |-> kind, buf |-> b] \in Task
  BY DEF Task
<1>2. /\ Len(queue') = Len(queue) + 1 /\ Len(queue) \in Nat
      /\ queue'[Len(queue) + 1] = [kind |-> kind, buf |-> b]
      /\ \A i \in 1 .. Len(queue) : queue'[i] = queue[i]
  BY <1>1 DEF mem_transfer_async, TransferIInv, Typed
<1>3. b \notin HeldFrames
  BY DEF HeldFrames, TransferIInv, Own, Owns, At
<1>4. \A c \in Bufs : c \in HeldFrames' <=> c \in HeldFrames \/ (kind # "upload" /\ c = b)
  BY <1>2 DEF HeldFrames
<1>5. HeldFrames \subseteq Bufs /\ HeldFrames' \subseteq Bufs
  BY DEF HeldFrames
<1> QED BY <1>3, <1>4, <1>5

LEMMA FramesPush ==
  ASSUME FramesIInv, UNCHANGED lost, NEW b,
         HeldFrames' = HeldFrames \cup {b}, b \notin HeldFrames, frames' = frames + 1
  PROVE  FramesIInv'
<1>1. /\ IsFiniteSet(HeldFrames') /\ Cardinality(HeldFrames') = Cardinality(HeldFrames) + 1
      /\ Cardinality(HeldFrames) \in Nat
  BY FS_AddElement, FS_CardinalityType DEF FramesIInv
<1> QED BY <1>1, LostAssumption DEF FramesIInv

(* No task gets or loses a frame; the decoder may lose one it has not      *)
(* handed to a task.                                                       *)
LEMMA FramesSame ==
  ASSUME FramesIInv, HeldFrames' = HeldFrames, UNCHANGED <<frames, lost>> \/ Lose(frames)
  PROVE  FramesIInv'
<1>1. Cardinality(HeldFrames) \in Nat
  BY FS_CardinalityType DEF FramesIInv
<1> QED BY <1>1, LostAssumption DEF FramesIInv, Lose

(* A task frees its frame, or loses it.                                    *)
LEMMA FramesLeave ==
  ASSUME FramesIInv, NEW b \in HeldFrames, HeldFrames' = HeldFrames \ {b},
         (frames' = frames - 1 /\ UNCHANGED lost) \/ Lose(frames - 1)
  PROVE  FramesIInv'
<1>1. /\ IsFiniteSet(HeldFrames') /\ Cardinality(HeldFrames') = Cardinality(HeldFrames) - 1
      /\ Cardinality(HeldFrames) \in Nat
  BY FS_RemoveElement, FS_CardinalityType DEF FramesIInv
<1> QED BY <1>1, LostAssumption DEF FramesIInv, Lose

LEMMA FramesGuest ==
  ASSUME TransferIInv, FramesIInv,
         \/ dcodec_flush_buffers
         \/ \E b \in Bufs : \/ GuestTakesBack(b) \/ Alloc_Gbuffer(b) \/ Terminate_Gbuffer(b)
                            \/ gbuffer_data_guest_to_host(b) \/ ProcessThisBuffer(b)
  PROVE  FramesIInv'
<1>1. ASSUME NEW b \in Bufs, gbuffer_data_guest_to_host(b), mem_transfer_async("upload", b)
      PROVE  FramesIInv'
  BY <1>1, HeldPush, FramesSame DEF gbuffer_data_guest_to_host, Kinds
<1>2. ASSUME UNCHANGED <<queue, wpc, wtask, frames, lost>> PROVE FramesIInv'
  BY <1>2, FramesSame DEF HeldFrames
<1> QED
  BY <1>1, <1>2
  DEF dcodec_flush_buffers, GuestTakesBack, Alloc_Gbuffer, Terminate_Gbuffer,
      gbuffer_data_guest_to_host, ProcessThisBuffer

LEMMA FramesDecoder ==
  ASSUME TransferIInv, FramesIInv, NEW d \in Decoders, D_Busy(d) \/ fill_one_output_buffer(d)
  PROVE  FramesIInv'
<1>1. ASSUME NEW b \in Bufs, D_ToGuest(d, b) \/ D_ToTexture(d, b) PROVE FramesIInv'
  BY <1>1, HeldPush, FramesPush DEF D_ToGuest, D_ToTexture, D_Pop, Kinds
<1>2. ASSUME UNCHANGED <<queue, wpc, wtask>>, UNCHANGED <<frames, lost>> \/ Lose(frames)
      PROVE  FramesIInv'
  BY <1>2, FramesSame DEF HeldFrames
<1>3. CASE D_Busy(d)
  BY <1>2, <1>3 DEF D_Busy
<1> QED
  BY <1>1, <1>2, <1>3
  DEF fill_one_output_buffer, D_NoFrame, D_Eos, D_BadFormat, D_Unsupported, D_InGpu, D_Pop

LEMMA FramesWorker ==
  ASSUME TransferIInv, FramesIInv, NEW w \in Workers, express_mem_worker(w)
  PROVE  FramesIInv'
<1> USE DEF TransferIInv, WGo
<1>0. HeldFrames \subseteq Bufs /\ HeldFrames' \subseteq Bufs
  BY DEF HeldFrames
<1>1. CASE K_Take(w)
  <2>1. /\ Len(queue') = Len(queue) - 1 /\ Len(queue) \in Nat \ {0}
        /\ \A i \in 1 .. Len(queue') : queue'[i] = queue[i + 1]
        /\ wpc[w] = "idle" /\ wpc'[w] \in {"map", "pre"} /\ wtask'[w] = queue[1]
        /\ \A v \in Workers : v # w => wpc'[v] = wpc[v] /\ wtask'[v] = wtask[v]
        /\ UNCHANGED <<frames, lost>>
    BY <1>1 DEF K_Take, Typed
  <2>2. \A i \in 1 .. Len(queue) : i = 1 \/ (i - 1 \in 1 .. Len(queue') /\ queue[i] = queue'[i - 1])
    BY <2>1
  <2>3. ASSUME NEW b \in Bufs, b \in HeldFrames PROVE b \in HeldFrames'
    <3>1. CASE \E i \in 1 .. Len(queue) : queue[i].kind # "upload" /\ queue[i].buf = b
      BY <2>1, <2>2, <3>1 DEF HeldFrames
    <3>2. CASE \E v \in Workers : /\ wpc[v] \in {"map", "pre"}
                                  /\ wtask[v].kind # "upload" /\ wtask[v].buf = b
      BY <2>1, <3>2 DEF HeldFrames
    <3> QED BY <2>3, <3>1, <3>2 DEF HeldFrames
  <2>4. ASSUME NEW b \in Bufs, b \in HeldFrames' PROVE b \in HeldFrames
    <3>0. 1 \in 1 .. Len(queue) /\ \A i \in 1 .. Len(queue') : i + 1 \in 1 .. Len(queue)
      BY <2>1
    <3>1. CASE \E i \in 1 .. Len(queue') : queue'[i].kind # "upload" /\ queue'[i].buf = b
      BY <2>1, <3>0, <3>1 DEF HeldFrames
    <3>2. CASE \E v \in Workers : /\ wpc'[v] \in {"map", "pre"}
                                  /\ wtask'[v].kind # "upload" /\ wtask'[v].buf = b
      BY <2>1, <3>0, <3>2 DEF HeldFrames
    <3> QED BY <2>4, <3>1, <3>2 DEF HeldFrames
  <2>5. HeldFrames' = HeldFrames
    BY <1>0, <2>3, <2>4
  <2> QED BY <2>1, <2>5, FramesSame
<1>2. CASE (K_Pre(w) \/ K_PreFails(w) \/ K_MapFails(w)) /\ wtask[w].kind # "upload"
  <2>0. wpc[w] \in {"map", "pre"} /\ wtask[w].kind \in Kinds /\ wtask[w].buf \in Bufs
    BY <1>2 DEF K_Pre, K_PreFails, K_MapFails, Own, Owns, At, Task
  <2>1. /\ wpc'[w] \notin {"map", "pre"}
        /\ \A v \in Workers : v # w => wpc'[v] = wpc[v]
        /\ UNCHANGED <<queue, wtask>>
    BY <1>2 DEF K_Pre, K_PreFails, K_MapFails, Typed
  <2>2. wtask[w].buf \in HeldFrames
    BY <1>2, <2>0 DEF HeldFrames
  <2>3. wtask[w].buf \notin HeldFrames'
    BY <2>0, <2>1 DEF HeldFrames, Alone, At
  <2>4. \A b \in Bufs : b # wtask[w].buf => (b \in HeldFrames' <=> b \in HeldFrames)
    BY <2>1 DEF HeldFrames
  <2>5. HeldFrames' = HeldFrames \ {wtask[w].buf}
    BY <1>0, <2>3, <2>4
  <2>6. wpc[w] = "map" => wtask[w].kind = "frame"
    BY <1>2, <2>0 DEF Own, Kinds
  <2>7. (frames' = frames - 1 /\ UNCHANGED lost) \/ Lose(frames - 1)
    BY <1>2, <2>6 DEF K_Pre, K_PreFails, K_MapFails
  <2> QED BY <2>2, <2>5, <2>7, FramesLeave
<1>3. CASE \/ K_Map(w) \/ K_End(w) \/ K_Signal(w) \/ K_Exit(w)
           \/ (K_Pre(w) \/ K_MapFails(w)) /\ wtask[w].kind = "upload"
  <2>1. HeldFrames' = HeldFrames
    BY <1>3 DEF K_Map, K_End, K_Signal, K_Exit, K_Pre, K_MapFails, Typed, HeldFrames
  <2>2. UNCHANGED <<frames, lost>>
    BY <1>3 DEF K_Map, K_End, K_Signal, K_Exit, K_Pre, K_MapFails
  <2> QED BY <2>1, <2>2, FramesSame
<1> QED BY <1>1, <1>2, <1>3 DEF express_mem_worker, K_PreFails

LEMMA FramesStep == TransferIInv /\ FramesIInv /\ [Next]_vars => FramesIInv'
<1> SUFFICES ASSUME TransferIInv, FramesIInv, [Next]_vars PROVE FramesIInv'
  OBVIOUS
<1>1. CASE UNCHANGED vars
  BY <1>1 DEF vars, FramesIInv, HeldFrames
<1> QED BY <1>1, FramesGuest, FramesDecoder, FramesWorker DEF Next

(* swscale_task_cb frees every AVFrame that fill_one_output_buffer         *)
(* allocates, once; but for those lost when it returns early, when the     *)
(* texture is not mapped, or when the transfers are busy.                  *)
THEOREM FramesAreFreed == Spec => []FrameIsFreedOrLost
<1>1. Init => FramesIInv
  <2>1. Init => HeldFrames = {} /\ frames = 0 /\ lost = 0
    BY DEF Init, HeldFrames
  <2> QED BY <2>1, FS_EmptySet, LostAssumption DEF FramesIInv
<1>2. Spec => [](TransferIInv /\ FramesIInv)
  BY <1>1, TransferInit, TransferStep, FramesStep, PTL DEF Spec
<1>3. FramesIInv => FrameIsFreedOrLost
  BY DEF FramesIInv, FrameIsFreedOrLost
<1> QED BY <1>2, <1>3, PTL

-------------------------------------------------------------------------------
(* The bound of the queue: a decoder that has seen the transfers not busy  *)
(* adds one task, and before it looks again it has left "fill".            *)
Filling == {d \in Decoders : dpc[d] = "fill"}
Limit == Cardinality(Workers) + Cardinality(Decoders)
BoundIInv ==
  /\ queue \in Seq(Task) /\ dpc \in [Decoders -> {"idle", "fill"}]
  /\ Cardinality(Decoded) + Cardinality(Filling) <= Limit

LEMMA Finite ==
  ASSUME BoundIInv
  PROVE  /\ IsFiniteSet(Decoded) /\ Cardinality(Decoded) \in Nat /\ Cardinality(Decoded) <= Len(queue)
         /\ IsFiniteSet(Filling) /\ Cardinality(Filling) \in Nat
         /\ Cardinality(Workers) \in Nat /\ Cardinality(Decoders) \in Nat
<1>1. Len(queue) \in Nat
  BY DEF BoundIInv
<1>2. IsFiniteSet(1 .. Len(queue)) /\ Cardinality(1 .. Len(queue)) = Len(queue)
  <2>1. 1 \in Int /\ Len(queue) \in Int
    BY <1>1
  <2>2. /\ IsFiniteSet(1 .. Len(queue))
        /\ Cardinality(1 .. Len(queue)) = IF 1 > Len(queue) THEN 0 ELSE Len(queue) - 1 + 1
    BY <2>1, FS_Interval, Zenon
  <2> QED BY <1>1, <2>2
<1>3. IsFiniteSet(Decoded) /\ Cardinality(Decoded) <= Len(queue)
  BY <1>2, FS_Subset DEF Decoded
<1>4. IsFiniteSet(Filling)
  BY ThreadsAssumption, FS_Subset DEF Filling
<1> QED BY <1>3, <1>4, ThreadsAssumption, FS_CardinalityType

(* What mem_transfer_async does to the tasks with a frame.                 *)
LEMMA DecodedPush ==
  ASSUME BoundIInv, NEW b \in Bufs, NEW kind \in Kinds, mem_transfer_async(kind, b)
  PROVE  /\ queue' \in Seq(Task)
         /\ kind = "upload" => Cardinality(Decoded') = Cardinality(Decoded)
         /\ kind # "upload" => Cardinality(Decoded') = Cardinality(Decoded) + 1
<1>1. [kind |-> kind, buf |-> b] \in Task
  BY DEF Task
<1>2. /\ queue' \in Seq(Task) /\ Len(queue') = Len(queue) + 1 /\ Len(queue) \in Nat
      /\ queue'[Len(queue) + 1] = [kind |-> kind, buf |-> b]
      /\ \A i \in 1 .. Len(queue) : queue'[i] = queue[i]
  BY <1>1 DEF mem_transfer_async, BoundIInv
<1>3. Len(queue) + 1 \notin Decoded
  BY <1>2 DEF Decoded
<1>4. CASE kind = "upload"
  <2>1. Decoded' = Decoded
    BY <1>2, <1>4 DEF Decoded
  <2> QED BY <1>2, <1>4, <2>1
<1>5. CASE kind # "upload"
  <2>1. Decoded' = Decoded \cup {Len(queue) + 1}
    BY <1>2, <1>5 DEF Decoded
  <2> QED BY <1>2, <1>3, <1>5, <2>1, Finite, FS_AddElement, Zenon
<1> QED BY <1>4, <1>5

LEMMA DecodedPop ==
  ASSUME BoundIInv, queue # <<>>, queue' = Tail(queue)
  PROVE  queue' \in Seq(Task) /\ Cardinality(Decoded') \in Nat
         /\ Cardinality(Decoded') <= Cardinality(Decoded)
<1>1. /\ queue' \in Seq(Task) /\ Len(queue') = Len(queue) - 1 /\ Len(queue) \in Nat \ {0}
      /\ \A i \in 1 .. Len(queue') : queue'[i] = queue[i + 1]
  BY DEF BoundIInv
<1> DEFINE S == Decoded \ {1}
           f == [i \in S |-> i - 1]
<1>2. /\ \A i \in S : i \in Int /\ i - 1 \in Decoded'
      /\ \A j \in Decoded' : j \in Int /\ j + 1 \in S /\ (j + 1) - 1 = j
  BY <1>1 DEF Decoded
<1>3. f \in Surjection(S, Decoded')
  BY <1>2 DEF Surjection
<1>4. IsFiniteSet(S) /\ Cardinality(S) \in Nat /\ Cardinality(S) <= Cardinality(Decoded)
  BY Finite, FS_Subset, FS_CardinalityType
<1>5. IsFiniteSet(Decoded') /\ Cardinality(Decoded') <= Cardinality(S)
  BY <1>3, <1>4, FS_Surjection
<1>6. Cardinality(Decoded') \in Nat
  BY <1>5, FS_CardinalityType
<1> QED BY <1>1, <1>4, <1>5, <1>6, Finite

(* A decoder leaves "fill".                                                *)
LEMMA FillingLeaves ==
  ASSUME BoundIInv, NEW d \in Decoders, dpc[d] = "fill", dpc' = [dpc EXCEPT ![d] = "idle"]
  PROVE  /\ dpc' \in [Decoders -> {"idle", "fill"}]
         /\ Cardinality(Filling') = Cardinality(Filling) - 1
<1>1. Filling' = Filling \ {d} /\ d \in Filling
  BY DEF BoundIInv, Filling
<1>2. dpc' \in [Decoders -> {"idle", "fill"}]
  BY SMTT(20) DEF BoundIInv
<1> QED BY <1>1, <1>2, Finite, FS_RemoveElement, ZenonT(30)

LEMMA BoundStep == BoundIInv /\ [Next]_vars => BoundIInv'
<1> SUFFICES ASSUME BoundIInv, [Next]_vars PROVE BoundIInv'
  OBVIOUS
<1>1. ASSUME UNCHANGED <<queue, dpc>> PROVE BoundIInv'
  BY <1>1 DEF BoundIInv, Decoded, Filling, Limit
<1>2. ASSUME NEW b \in Bufs, gbuffer_data_guest_to_host(b) PROVE BoundIInv'
  <2>1. CASE mem_transfer_async("upload", b)
    <3>1. Filling' = Filling /\ Limit' = Limit
      BY <1>2 DEF gbuffer_data_guest_to_host, Filling, Limit
    <3>2. queue' \in Seq(Task) /\ Cardinality(Decoded') = Cardinality(Decoded)
      BY <1>2, <2>1, DecodedPush DEF gbuffer_data_guest_to_host, Kinds
    <3> QED BY <1>2, <3>1, <3>2 DEF gbuffer_data_guest_to_host, BoundIInv
  <2>2. CASE UNCHANGED queue
    BY <1>1, <1>2, <2>2 DEF gbuffer_data_guest_to_host
  <2> QED BY <1>2, <2>1, <2>2 DEF gbuffer_data_guest_to_host
<1>3. ASSUME NEW d \in Decoders, D_Busy(d) PROVE BoundIInv'
  <2>0. CASE mem_transfer_is_busy
    BY <1>1, <1>3, <2>0 DEF D_Busy
  <2> SUFFICES ASSUME ~mem_transfer_is_busy PROVE BoundIInv'
    BY <2>0
  <2>1. /\ Len(queue) <= Cardinality(Workers) /\ UNCHANGED queue
        /\ dpc' \in [Decoders -> {"idle", "fill"}]
    BY <1>3, Finite
    DEF D_Busy, mem_transfer_is_busy, MAX_MEM_WORKER_THREADS, BoundIInv
  <2>2. Decoded' = Decoded /\ Filling' \subseteq Decoders
    BY <2>1 DEF Decoded, Filling
  <2>3. Cardinality(Filling') <= Cardinality(Decoders) /\ Cardinality(Filling') \in Nat
    BY <2>2, ThreadsAssumption, FS_Subset, FS_CardinalityType
  <2>4. Len(queue) \in Nat
    BY DEF BoundIInv
  <2> QED BY <2>1, <2>2, <2>3, <2>4, Finite DEF BoundIInv, Limit
<1>4. ASSUME NEW d \in Decoders, fill_one_output_buffer(d) PROVE BoundIInv'
  <2>1. /\ dpc' \in [Decoders -> {"idle", "fill"}]
        /\ Cardinality(Filling') = Cardinality(Filling) - 1
    BY <1>4, FillingLeaves
    DEF fill_one_output_buffer, D_NoFrame, D_Eos, D_ToGuest, D_BadFormat, D_Unsupported,
        D_InGpu, D_ToTexture, D_Pop
  <2>2. ASSUME NEW b \in Bufs, D_ToGuest(d, b) \/ D_ToTexture(d, b)
        PROVE  queue' \in Seq(Task) /\ Cardinality(Decoded') = Cardinality(Decoded) + 1
    BY <2>2, DecodedPush DEF D_ToGuest, D_ToTexture, Kinds
  <2>3. ASSUME UNCHANGED queue
        PROVE  queue' \in Seq(Task) /\ Cardinality(Decoded') = Cardinality(Decoded)
    BY <2>3 DEF Decoded, BoundIInv
  <2>4. /\ queue' \in Seq(Task)
        /\ Cardinality(Decoded') \in {Cardinality(Decoded), Cardinality(Decoded) + 1}
    BY <1>4, <2>2, <2>3
    DEF fill_one_output_buffer, D_NoFrame, D_Eos, D_BadFormat, D_Unsupported, D_InGpu
  <2> QED BY <2>1, <2>4, Finite DEF BoundIInv, Limit
<1>5. ASSUME NEW w \in Workers, K_Take(w) PROVE BoundIInv'
  <2>1. Filling' = Filling /\ Limit' = Limit /\ UNCHANGED dpc
    BY <1>5 DEF K_Take, Filling, Limit
  <2>2. /\ queue' \in Seq(Task) /\ Cardinality(Decoded') \in Nat
        /\ Cardinality(Decoded') <= Cardinality(Decoded)
    BY <1>5, DecodedPop DEF K_Take
  <2> QED BY <2>1, <2>2, Finite DEF BoundIInv, Limit
<1> QED
  BY <1>1, <1>2, <1>3, <1>4, <1>5
  DEF Next, vars, GuestTakesBack, Alloc_Gbuffer, Terminate_Gbuffer, ProcessThisBuffer,
      dcodec_flush_buffers, express_mem_worker, K_Map, K_MapFails, K_Pre, K_PreFails, K_End, K_Signal,
      K_Exit

(* fill_one_output_buffer tests mem_transfer_is_busy long before it queues *)
(* its task; still the tasks with a frame never exceed the number of the   *)
(* workers and of the decoders.                                            *)
THEOREM DecodedIsBounded == Spec => []DecodedTasksAreBounded
<1>1. Init => BoundIInv
  <2> SUFFICES ASSUME Init PROVE BoundIInv
    OBVIOUS
  <2>1. Decoded = {} /\ Filling = {} /\ queue \in Seq(Task) /\ dpc \in [Decoders -> {"idle", "fill"}]
    BY DEF Init, Decoded, Filling
  <2>2. Cardinality(Workers) \in Nat /\ Cardinality(Decoders) \in Nat
    BY ThreadsAssumption, FS_CardinalityType
  <2> QED BY <2>1, <2>2, FS_EmptySet DEF BoundIInv, Limit
<1>2. Spec => []BoundIInv
  BY <1>1, BoundStep, PTL DEF Spec
<1>3. BoundIInv => DecodedTasksAreBounded
  BY Finite DEF BoundIInv, DecodedTasksAreBounded, Limit, MAX_MEM_WORKER_THREADS
<1> QED BY <1>2, <1>3, PTL

-------------------------------------------------------------------------------
(* The decoder component: when D fills an output buffer there is one.      *)
OutputIInv ==
  /\ output_buffers \in Seq(Bufs)
  /\ cpc = "got" => output_buffers # <<>>
  /\ after # "got"

LEMMA OutputInit == CodecInit => OutputIInv
BY DEF CodecInit, OutputIInv

LEMMA OutputStep == OutputIInv /\ [CodecNext]_codecvars => OutputIInv'
<1> SUFFICES ASSUME OutputIInv, CodecNext \/ UNCHANGED codecvars PROVE OutputIInv'
  BY DEF codecvars
<1> USE DEF OutputIInv
<1>1. ASSUME UNCHANGED <<output_buffers, cpc, after>> PROVE OutputIInv'
  BY <1>1
<1>2. ASSUME NEW s, NEW pc, Say(s, pc), pc # "got", output_buffers' \in Seq(Bufs) PROVE OutputIInv'
  BY <1>2 DEF Say
<1>3. ASSUME NEW input, NEW status, NEW did, Loop(input, status, did), UNCHANGED after,
             output_buffers' \in Seq(Bufs)
      PROVE  OutputIInv'
  BY <1>3 DEF Loop
<1>4. CASE D_Open \/ D_Config \/ D_Decode(FALSE) \/ D_Decode(TRUE)
  BY <1>2, <1>4 DEF D_Open, D_Config, D_Decode, Emptied
<1>5. CASE D_OpenFails(0) \/ D_OpenFails(Cardinality(Configs)) \/ D_DecodeFails \/ D_ReceiveFails
  BY <1>2, <1>5 DEF D_OpenFails, D_DecodeFails, D_ReceiveFails, Emptied, Fails
<1>6. CASE D_NoOutput \/ D_Again
  BY <1>3, <1>6 DEF D_NoOutput, D_Again, TurnEnds, component
<1>7. CASE D_Asks \/ D_QueueFull
  BY <1>7 DEF D_Asks, D_QueueFull, component
<1>8. CASE D_End \/ D_Frame
  <2>1. output_buffers' \in Seq(Bufs)
    BY <1>8, SMTT(20) DEF D_End, D_Frame, Filled
  <2> QED BY <1>2, <1>8, <2>1 DEF D_End, D_Frame, Filled, Fails
<1>9. CASE N_Lock(D) \/ N_Write(D) \/ D_Publish
  BY <1>9 DEF N_Lock, N_Write, D_Publish, component, run
<1>10. ASSUME NEW b \in Inputs, NEW flag \in Flags, ProcessInput(b, flag) PROVE OutputIInv'
  BY <1>3, <1>10, Zenon DEF ProcessInput, Process
<1>11. ASSUME NEW b \in Bufs, ProcessOutput(b) PROVE OutputIInv'
  <2>1. output_buffers' \in Seq(Bufs)
    BY <1>11 DEF ProcessOutput, Process
  <2> QED BY <1>3, <1>11, <2>1 DEF ProcessOutput, Process
<1>12. ASSUME SendIdle \/ \E input, output \in BOOLEAN : SendFlush(input, output) PROVE OutputIInv'
  <2>1. output_buffers' \in Seq(Bufs)
    <3>1. UNCHANGED output_buffers \/ output_buffers' = <<>>
      BY <1>12 DEF SendIdle, SendFlush, FlushOutput
    <3>2. <<>> \in Seq(Bufs)
      OBVIOUS
    <3> QED BY <3>1, <3>2, Zenon
  <2> QED BY <1>2, <1>12, <2>1 DEF SendIdle, SendFlush
<1>13. ASSUME \/ ResetComponent \/ GuestReads \/ UNCHANGED codecvars
              \/ \E b \in Bufs : GuestTakes(b) \/ GuestUses(b)
              \/ \E w \in Workers : worker(w) \/ W_Fails(w)
       PROVE  OutputIInv'
  BY <1>1, <1>13, Zenon
  DEF ResetComponent, GuestReads, GuestTakes, GuestUses, worker, W_Step, N_Lock, N_Write, W_Publish,
      W_Fails, component, run, codecvars
<1> QED
  BY <1>4, <1>5, <1>6, <1>7, <1>8, <1>9, <1>10, <1>11, <1>12, <1>13, Zenon
  DEF CodecNext, dcodec_process_buffers

(* Every step of the decoder is a step of the transfers, D being one of    *)
(* the decoders, or leaves them alone.                                     *)
LEMMA CodecStepIsTransferStep == OutputIInv /\ [CodecNext]_codecvars => [Next]_vars
<1> SUFFICES ASSUME OutputIInv, CodecNext \/ UNCHANGED codecvars PROVE [Next]_vars
  BY DEF codecvars
<1>1. CASE UNCHANGED vars
  BY <1>1
<1>2. CASE D_Busy(D) \/ fill_one_output_buffer(D)
  BY <1>2, DecoderAssumption DEF Next
<1>3. CASE D_End
  <2>1. Head(output_buffers) \in Bufs
    BY <1>3 DEF D_End, Filled, OutputIInv
  <2> QED BY <1>2, <1>3, <2>1 DEF D_End, fill_one_output_buffer
<1>4. CASE D_Frame
  <2>0. Head(output_buffers) \in Bufs
    BY <1>4 DEF D_Frame, Filled, OutputIInv
  <2>1. \E b \in Bufs : D_ToGuest(D, b) \/ D_Unsupported(D, b) \/ D_InGpu(D, b) \/ D_ToTexture(D, b)
                       \/ D_BadFormat(D, b)
    BY <1>4, <2>0 DEF D_Frame
  <2> QED BY <1>2, <2>1 DEF fill_one_output_buffer
<1>5. CASE D_Asks \/ D_Again \/ D_ReceiveFails
  BY <1>1, <1>2, <1>5 DEF D_Asks, D_Again, D_ReceiveFails, fill_one_output_buffer
<1>6. CASE SendIdle \/ \E input, output \in BOOLEAN : SendFlush(input, output)
  BY <1>1, <1>6 DEF SendIdle, SendFlush, FlushOutput, Next
<1>7. ASSUME NEW b \in Bufs, ProcessOutput(b) \/ GuestTakes(b) \/ GuestUses(b) PROVE [Next]_vars
  BY <1>7 DEF ProcessOutput, GuestTakes, GuestUses, Next
<1>8. ASSUME NEW w \in Workers, worker(w) \/ W_Fails(w) PROVE [Next]_vars
  <2>1. CASE N_Lock(w) \/ N_Write(w)
    BY <1>1, <2>1 DEF N_Lock, N_Write
  <2>2. CASE W_Step(w) \/ W_Publish(w) \/ W_Fails(w)
    BY <2>2, Zenon DEF W_Step, W_Publish, W_Fails, express_mem_worker, Next
  <2> QED BY <1>8, <2>1, <2>2 DEF worker
<1>9. ASSUME \/ D_Open \/ D_Config \/ D_Decode(FALSE) \/ D_Decode(TRUE) \/ D_QueueFull \/ D_NoOutput
             \/ N_Lock(D) \/ N_Write(D) \/ D_Publish
             \/ D_OpenFails(0) \/ D_OpenFails(Cardinality(Configs)) \/ D_DecodeFails
             \/ (\E b \in Inputs, flag \in Flags : ProcessInput(b, flag))
             \/ ResetComponent \/ GuestReads \/ UNCHANGED codecvars
      PROVE  [Next]_vars
  <2>1. UNCHANGED vars
    BY <1>9, Zenon
    DEF D_Open, D_Config, D_Decode, D_QueueFull, D_NoOutput, N_Lock, N_Write, D_Publish, D_OpenFails,
        D_DecodeFails, Emptied, ProcessInput, ResetComponent, GuestReads, codecvars
  <2> QED BY <2>1
<1> QED
  BY <1>3, <1>4, <1>5, <1>6, <1>7, <1>8, <1>9, Zenon DEF CodecNext, dcodec_process_buffers

LEMMA CodecTransfers == CodecSpec => Spec /\ [](OutputIInv /\ TransferIInv)
<1>1. CodecInit => Init
  BY DEF CodecInit
<1>2. CodecSpec => []OutputIInv
  BY OutputInit, OutputStep, PTL DEF CodecSpec
<1>3. CodecSpec => Spec
  BY <1>1, <1>2, CodecStepIsTransferStep, PTL DEF CodecSpec, Spec
<1>4. Spec => []TransferIInv
  BY TransferInit, TransferStep, PTL DEF Spec
<1> QED BY <1>2, <1>3, <1>4, PTL

(* So the transfers keep their promises while the decoder component runs,  *)
(* is flushed, reset and set idle (dcodec_component.c): its workers use no *)
(* freed gbuffer, free every frame, and are not flooded.                   *)
THEOREM CodecKeepsTransfers ==
  CodecSpec => [](WorkerUsesLiveGbuffer /\ FrameIsFreedOrLost /\ DecodedTasksAreBounded)
BY CodecTransfers, WorkersAreSafe, FramesAreFreed, DecodedIsBounded, PTL

-------------------------------------------------------------------------------
(* The callbacks: who writes to the ring has the mutex, and what is in the *)
(* slot is its own message.                                                *)
NotifyIInv ==
  /\ npc \in [Notifiers -> {"out", "wait", "publish"}]
  /\ \A t \in Notifiers : npc[t] # "out" => holder = t /\ Sends(t)
  /\ \A t \in Notifiers : npc[t] = "publish" => slot = Message(t)
  /\ cpc # "say" => say = <<>>
  /\ after # "say"

(* The queues: D has an input buffer when it empties one, and has seen     *)
(* data before it opens FFmpeg's decoder.                                  *)
QueueIInv ==
  /\ input_buffers \in Seq(Inputs \X Flags)
  /\ say \in Seq(Callback) /\ callbacks \in Seq(Callback)
  /\ cpc = "empty" => input_buffers # <<>>
  /\ cpc = "empty" /\ ~is_open => \E i \in 1 .. Len(input_buffers) : input_buffers[i][2] # "config"
  /\ cpc = "say" /\ after = "empty" => is_open /\ input_buffers # <<>>
  /\ ~is_open /\ cpc # "empty" => mStatus \in {"AWAITING_INPUT", "ERROR_SIGNALED"}

LEMMA NotifyInit == CodecInit => NotifyIInv
BY DEF CodecInit, NotifyIInv

(* The steps of D that are no part of dcodec_notify_guest.                 *)
LEMMA NotifyDecoder ==
  ASSUME NotifyIInv, cpc # "say", UNCHANGED <<note, wpc, wtask>>, after' # "say",
         cpc' # "say" => say' = <<>>
  PROVE  NotifyIInv'
<1> USE DEF NotifyIInv, note, Sends, Message, Notifiers
<1>1. npc[D] = "out"
  OBVIOUS
<1> QED BY <1>1, DecoderAssumption

LEMMA NotifySay ==
  ASSUME NotifyIInv, cpc # "say", UNCHANGED <<note, wpc, wtask>>, NEW s, NEW pc, Say(s, pc), pc # "say"
  PROVE  NotifyIInv'
<1>1. after' # "say" /\ (cpc' # "say" => say' = <<>>)
  BY DEF Say, NotifyIInv
<1> QED BY <1>1, NotifyDecoder

(* The steps of others that send nothing.                                  *)
LEMMA NotifyOthers ==
  ASSUME NotifyIInv, UNCHANGED <<run, npc, holder, slot>>,
         \A w \in Workers : npc[w] # "out" => wpc'[w] = wpc[w] /\ wtask'[w] = wtask[w]
  PROVE  NotifyIInv'
<1> USE DEF NotifyIInv, run, Notifiers
<1>1. \A t \in Notifiers : npc[t] # "out" => Sends(t)' = Sends(t) /\ Message(t)' = Message(t)
  BY DEF Sends, Message
<1> QED BY <1>1

LEMMA NotifyLock ==
  ASSUME NotifyIInv, NEW t \in Notifiers, N_Lock(t) \/ N_Write(t) PROVE NotifyIInv'
<1>1. /\ \A u \in Notifiers : Sends(u)' = Sends(u) /\ Message(u)' = Message(u)
      /\ UNCHANGED <<cpc, say, after>>
  BY DEF N_Lock, N_Write, Sends, Message, run, vars
<1>2. CASE N_Lock(t)
  <2>1. \A u \in Notifiers : npc[u] = "out" /\ npc'[u] = IF u = t THEN "wait" ELSE "out"
    BY <1>2, DecoderAssumption DEF N_Lock, NotifyIInv, Notifiers
  <2>2. npc' \in [Notifiers -> {"out", "wait", "publish"}] /\ holder' = t /\ Sends(t)
    BY <1>2 DEF N_Lock, NotifyIInv
  <2> QED BY <1>1, <2>1, <2>2 DEF NotifyIInv
<1>3. CASE N_Write(t)
  <2>1. \A u \in Notifiers : u # t => npc'[u] = npc[u] /\ npc[u] = "out"
    BY <1>3 DEF N_Write, NotifyIInv
  <2>2. npc' \in [Notifiers -> {"out", "wait", "publish"}] /\ holder' = t /\ Sends(t) /\ slot' = Message(t)
    BY <1>3 DEF N_Write, NotifyIInv
  <2> QED BY <1>1, <2>1, <2>2 DEF NotifyIInv
<1> QED BY <1>2, <1>3

LEMMA NotifyPublish ==
  ASSUME NotifyIInv, NEW t \in Notifiers, N_Publish(t),
         cpc' # "say" => say' = <<>>, after' # "say"
  PROVE  NotifyIInv'
<1>1. \A u \in Notifiers : npc'[u] = "out"
  BY DEF N_Publish, NotifyIInv
<1>2. npc' \in [Notifiers -> {"out", "wait", "publish"}]
  BY DEF N_Publish, NotifyIInv
<1> QED BY <1>1, <1>2 DEF NotifyIInv

LEMMA NotifyWorker ==
  ASSUME TransferIInv, NotifyIInv, NEW w \in Workers, W_Step(w) \/ W_Fails(w) PROVE NotifyIInv'
<1>1. UNCHANGED <<run, npc, holder, slot>>
  BY DEF W_Step, W_Fails, note
<1>2. npc[w] = "out"
  <2>1. wpc[w] # "pre" \/ wtask[w].kind # "guest" \/ npc[w] = "out"
    BY ZenonT(30) DEF W_Step, W_Fails, K_Take, K_Map, K_End, K_Signal, K_Exit, K_MapFails, WGo
  <2> QED BY <2>1, DecoderAssumption DEF NotifyIInv, Sends, Notifiers
<1>3. \A v \in Workers : v # w => wpc'[v] = wpc[v] /\ wtask'[v] = wtask[v]
  BY DEF W_Step, W_Fails, K_Take, K_Map, K_End, K_Signal, K_Exit, K_Pre, K_MapFails, K_PreFails, WGo,
         TransferIInv, Typed
<1> QED BY <1>1, <1>2, <1>3, NotifyOthers

LEMMA NotifyStep == TransferIInv /\ QueueIInv /\ NotifyIInv /\ [CodecNext]_codecvars => NotifyIInv'
<1> SUFFICES ASSUME TransferIInv, QueueIInv, NotifyIInv, CodecNext \/ UNCHANGED codecvars PROVE NotifyIInv'
  BY DEF codecvars
<1>0. D \in Notifiers /\ Workers \subseteq Notifiers
  BY DEF Notifiers
<1>1. CASE D_Open \/ D_Config \/ D_Decode(FALSE) \/ D_Decode(TRUE)
  BY <1>1, NotifySay DEF D_Open, D_Config, D_Decode, Emptied, vars
<1>2. CASE D_OpenFails(0) \/ D_OpenFails(Cardinality(Configs)) \/ D_DecodeFails \/ D_ReceiveFails
  BY <1>2, NotifySay DEF D_OpenFails, D_DecodeFails, D_ReceiveFails, D_NoFrame, Emptied, Fails, vars
<1>3. CASE D_NoOutput \/ D_Again \/ D_Asks \/ D_QueueFull
  <2>1. cpc # "say" /\ cpc' # "say" /\ UNCHANGED <<note, wpc, wtask, say, after>>
    BY <1>3 DEF D_NoOutput, D_Again, D_Asks, D_QueueFull, TurnEnds, Loop, D_NoFrame, D_Busy, vars
  <2> QED BY <2>1, NotifyDecoder DEF NotifyIInv
<1>4. CASE D_End \/ D_Frame
  <2>1. cpc # "say" /\ UNCHANGED <<note, wpc, wtask>>
    BY <1>4 DEF D_End, D_Frame, Filled, D_Eos, D_ToGuest, D_Unsupported, D_InGpu, D_ToTexture, D_BadFormat, D_Pop
  <2>2. \E s, pc : Say(s, pc) /\ pc # "say"
    BY <1>4 DEF D_End, D_Frame, Fails
  <2> QED BY <2>1, <2>2, NotifySay, SMTT(20)
<1>5. ASSUME NEW t \in Notifiers, N_Lock(t) \/ N_Write(t) PROVE NotifyIInv'
  BY <1>5, NotifyLock
<1>6. CASE D_Publish
  <2>1. N_Publish(D) /\ npc[D] = "publish"
    BY <1>6 DEF D_Publish, N_Publish
  <2>2. cpc = "say"
    BY <1>0, <2>1 DEF NotifyIInv, Sends
  <2>3. after' # "say"
    BY <1>6 DEF D_Publish, NotifyIInv
  <2>4. cpc' # "say" => say' = <<>>
    BY <1>6, <2>2 DEF D_Publish, QueueIInv
  <2> QED BY <1>0, <2>1, <2>3, <2>4, NotifyPublish
<1>7. ASSUME NEW input, NEW output, Process(input, output), UNCHANGED <<wpc, wtask>> PROVE NotifyIInv'
  <2>1. cpc = "idle" /\ cpc' # "say" /\ UNCHANGED <<note, say, after>>
    BY <1>7 DEF Process, Loop
  <2> QED BY <1>7, <2>1, NotifyDecoder DEF NotifyIInv
<1>8. ASSUME SendIdle \/ \E input, output \in BOOLEAN : SendFlush(input, output) PROVE NotifyIInv'
  <2>1. cpc # "say" /\ UNCHANGED <<note, wpc, wtask>>
    BY <1>8 DEF SendIdle, SendFlush, FlushOutput, dcodec_flush_buffers, vars
  <2>2. PICK s, pc : Say(s, pc) /\ pc # "say"
    BY <1>8 DEF SendIdle, SendFlush
  <2> QED BY <2>1, <2>2, NotifySay, Zenon
<1>9. ASSUME NEW w \in Workers, W_Publish(w) PROVE NotifyIInv'
  BY <1>0, <1>9, NotifyPublish DEF W_Publish, run, NotifyIInv
<1>10. ASSUME NEW w \in Workers, W_Step(w) \/ W_Fails(w) PROVE NotifyIInv'
  BY <1>10, NotifyWorker
<1>11. ASSUME \/ ResetComponent \/ GuestReads \/ UNCHANGED codecvars
              \/ \E b \in Bufs : GuestTakes(b) \/ GuestUses(b)
       PROVE  NotifyIInv'
  <2>1. UNCHANGED <<run, npc, holder, slot, wpc, wtask>>
    BY <1>11, Zenon DEF ResetComponent, GuestReads, GuestTakes, GuestUses, GuestTakesBack, Alloc_Gbuffer,
                 Terminate_Gbuffer, gbuffer_data_guest_to_host, note, codecvars, vars
  <2> QED BY <2>1, NotifyOthers
<1>12. ASSUME NEW b, NEW flag, ProcessInput(b, flag) PROVE NotifyIInv'
  BY <1>7, <1>12 DEF ProcessInput, vars
<1>13. ASSUME NEW b, ProcessOutput(b) PROVE NotifyIInv'
  BY <1>7, <1>13 DEF ProcessOutput, ProcessThisBuffer
<1> QED
  BY <1>0, <1>1, <1>2, <1>3, <1>4, <1>5, <1>6, <1>8, <1>9, <1>10, <1>11, <1>12, <1>13, ZenonT(30)
  DEF CodecNext, dcodec_process_buffers, worker

LEMMA QueueInit == CodecInit => QueueIInv
BY DEF CodecInit, QueueIInv

LEMMA Ids ==
  ASSUME QueueIInv
  PROVE  /\ InputIds \in Seq(Inputs) /\ Len(InputIds) = Len(input_buffers)
         /\ Len(input_buffers) \in Nat
         /\ \A i \in 1 .. Len(input_buffers) : InputIds[i] = input_buffers[i][1]
         /\ InputIds \in Seq(Callback)
<1>1. input_buffers \in Seq(Inputs \X Flags) /\ Len(input_buffers) \in Nat
  BY DEF QueueIInv
<1>2. \A i \in 1 .. Len(input_buffers) : input_buffers[i][1] \in Inputs
  BY <1>1
<1> QED BY <1>1, <1>2 DEF InputIds, Callback

LEMMA ConfigsBound ==
  ASSUME QueueIInv
  PROVE  /\ Cardinality(Configs) \in 0 .. Len(input_buffers)
         /\ (\E i \in 1 .. Len(input_buffers) : input_buffers[i][2] # "config")
              => Cardinality(Configs) < Len(input_buffers)
<1> DEFINE n == Len(input_buffers)
<1>1. n \in Nat /\ Configs \subseteq 1 .. n
  BY Ids DEF Configs
<1>2. IsFiniteSet(1 .. n) /\ Cardinality(1 .. n) = n
  BY <1>1, FS_Interval
<1>3. /\ IsFiniteSet(Configs) /\ Cardinality(Configs) <= n
      /\ Cardinality(Configs) = n => Configs = 1 .. n
  BY <1>1, <1>2, FS_Subset, ZenonT(30)
<1>4. Cardinality(Configs) \in Nat
  BY <1>3, FS_CardinalityType
<1>5. ASSUME NEW i \in 1 .. n, input_buffers[i][2] # "config" PROVE i \notin Configs
  <2>1. i \in 1 .. i
    BY <1>1
  <2> QED BY <1>5, <2>1 DEF Configs
<1> QED BY <1>1, <1>3, <1>4, <1>5

LEMMA QueueSame ==
  ASSUME QueueIInv, UNCHANGED <<input_buffers, say, callbacks, cpc, after, is_open, mStatus>>
  PROVE  QueueIInv'
BY DEF QueueIInv

(* D has an open decoder, or signals an error, or has been reset.          *)
LEMMA QueueSay ==
  ASSUME QueueIInv, NEW s \in Seq(Callback), NEW pc, pc # "say", Say(s, pc), UNCHANGED callbacks,
         input_buffers' \in Seq(Inputs \X Flags),
         pc = "empty" => is_open' /\ input_buffers' # <<>>,
         is_open' \/ mStatus' \in {"AWAITING_INPUT", "ERROR_SIGNALED"}
  PROVE  QueueIInv'
<1>1. CASE s = <<>>
  BY <1>1, Zenon DEF Say, QueueIInv
<1>2. CASE s # <<>>
  BY <1>2 DEF Say, QueueIInv
<1> QED BY <1>1, <1>2

LEMMA QueueLoop ==
  ASSUME QueueIInv, NEW did, Loop(input_buffers', mStatus', did), UNCHANGED <<say, after, callbacks>>,
         input_buffers' \in Seq(Inputs \X Flags),
         \/ is_open' \/ mStatus' \in {"AWAITING_INPUT", "ERROR_SIGNALED"}
         \/ did /\ \E i \in 1 .. Len(input_buffers') : input_buffers'[i][2] # "config"
  PROVE  QueueIInv'
<1>1. /\ cpc' \in {"idle", "empty", "fill"}
      /\ cpc' = "empty" => input_buffers' # <<>>
      /\ mStatus' \in {"AWAITING_INPUT", "ERROR_SIGNALED"} => cpc' = "idle"
  BY DEF Loop
<1>2. CASE is_open' \/ mStatus' \in {"AWAITING_INPUT", "ERROR_SIGNALED"}
  BY <1>1, <1>2 DEF QueueIInv
<1>3. CASE /\ did /\ mStatus' \notin {"AWAITING_INPUT", "ERROR_SIGNALED"}
           /\ \E i \in 1 .. Len(input_buffers') : input_buffers'[i][2] # "config"
  <2>1. input_buffers' # <<>>
    BY <1>3
  <2>2. cpc' = "empty"
    BY <1>3, <2>1 DEF Loop
  <2> QED BY <1>1, <1>3, <2>1, <2>2 DEF QueueIInv
<1> QED BY <1>2, <1>3

LEMMA QueueProcess ==
  ASSUME QueueIInv, NEW input \in Seq(Inputs \X Flags), NEW output, Process(input, output)
  PROVE  QueueIInv'
<1> DEFINE first == mStatus = "AWAITING_INPUT" /\ input # <<>>
<1>1. cpc = "idle" /\ UNCHANGED <<is_open, say, after, callbacks>> /\ input_buffers' = input
  BY ZenonT(30) DEF Process, ffmpeg, note
<1>2. CASE first /\ input[Len(input)][2] = "config"
  <2>1. UNCHANGED <<mStatus, cpc>>
    BY <1>2 DEF Process
  <2> QED BY <1>1, <2>1, SMTT(20) DEF QueueIInv
<1>3. CASE first /\ input[Len(input)][2] # "config"
  <2>1. mStatus' = "INPUT_DATA_AVAILABLE" /\ Loop(input_buffers', mStatus', TRUE)
    BY <1>1, <1>3, Zenon DEF Process
  <2>2. Len(input) \in 1 .. Len(input)
    BY <1>3
  <2>3. \E i \in 1 .. Len(input_buffers') : input_buffers'[i][2] # "config"
    BY <1>1, <1>3, <2>2
  <2> QED BY <1>1, <2>1, <2>3, QueueLoop, Zenon
<1>4. CASE ~first
  <2>1. mStatus' = mStatus /\ Loop(input_buffers', mStatus', TRUE)
    BY <1>1, <1>4, Zenon DEF Process
  <2>2. is_open' \/ mStatus' \in {"AWAITING_INPUT", "ERROR_SIGNALED"}
    BY <1>1, <2>1 DEF QueueIInv
  <2> QED BY <1>1, <2>1, <2>2, QueueLoop, Zenon
<1> QED BY <1>2, <1>3, <1>4

(* D is not waiting to open the decoder: it is open, or nothing is done.   *)
LEMMA OpenOrNot ==
  ASSUME QueueIInv, cpc # "empty" \/ is_open
  PROVE  is_open \/ mStatus \in {"AWAITING_INPUT", "ERROR_SIGNALED"}
BY DEF QueueIInv

LEMMA QueueOpens ==
  ASSUME QueueIInv, D_Open PROVE QueueIInv'
<1> DEFINE n == Cardinality(Configs)
<1>1. n \in 0 .. Len(input_buffers) /\ n < Len(input_buffers) /\ Len(input_buffers) \in Nat
  BY ConfigsBound, Ids DEF D_Open, QueueIInv
<1>2. input_buffers' = SubSeq(input_buffers, n + 1, Len(input_buffers)) /\ is_open' /\ UNCHANGED callbacks
  BY DEF D_Open, Takes, note
<1>3. Say(SubSeq(InputIds, 1, n), "empty")
  BY DEF D_Open
<1> HIDE DEF n
<1>4. input_buffers' \in Seq(Inputs \X Flags) /\ input_buffers' # <<>>
  <2>1. input_buffers \in Seq(Inputs \X Flags)
    BY DEF QueueIInv
  <2> DEFINE r == SubSeq(input_buffers, n + 1, Len(input_buffers))
  <2>2. Len(r) = Len(input_buffers) - n /\ r \in Seq(Inputs \X Flags)
    BY <1>1, <2>1
  <2>3. input_buffers' = r
    BY <1>2
  <2> HIDE DEF r
  <2>4. Len(r) # 0
    BY <1>1, <2>2
  <2>5. r # <<>>
    BY <2>4
  <2> QED BY <2>2, <2>3, <2>5
<1>5. SubSeq(InputIds, 1, n) \in Seq(Callback)
  BY <1>1, Ids
<1> QED BY <1>2, <1>3, <1>4, <1>5, QueueSay, Zenon

LEMMA QueueOpenFails ==
  ASSUME QueueIInv, NEW n \in 0 .. Len(input_buffers), D_OpenFails(n) PROVE QueueIInv'
<1>1. Len(input_buffers) \in Nat /\ input_buffers \in Seq(Inputs \X Flags)
  BY Ids DEF QueueIInv
<1>2. /\ input_buffers' = SubSeq(input_buffers, n + 1, Len(input_buffers)) /\ UNCHANGED callbacks
      /\ mStatus' = "ERROR_SIGNALED" /\ Say(Append(SubSeq(InputIds, 1, n), "event"), "idle")
  BY DEF D_OpenFails, Takes, note, Fails
<1>3. input_buffers' \in Seq(Inputs \X Flags)
  BY <1>1, <1>2
<1>4. SubSeq(InputIds, 1, n) \in Seq(Callback)
  BY <1>1, Ids
<1> DEFINE r == Append(SubSeq(InputIds, 1, n), "event")
<1>5. r \in Seq(Callback)
  BY <1>4 DEF Callback
<1>6. Say(r, "idle")
  BY <1>2
<1> HIDE DEF r
<1> QED BY <1>2, <1>3, <1>5, <1>6, QueueSay

LEMMA QueueEmptied ==
  ASSUME QueueIInv, Emptied,
         \/ \E pc \in {"fill"} : Say(<<Head(InputIds)>>, pc)
         \/ Fails(<<Head(InputIds)>>)
  PROVE  QueueIInv'
<1>1. /\ input_buffers # <<>> /\ input_buffers \in Seq(Inputs \X Flags) /\ is_open /\ is_open' = is_open
      /\ input_buffers' = Tail(input_buffers) /\ UNCHANGED callbacks
  BY DEF Emptied, QueueIInv, note
<1>2. input_buffers' \in Seq(Inputs \X Flags)
  BY <1>1
<1>3. Head(InputIds) \in Callback
  <2>1. InputIds \in Seq(Callback) /\ InputIds # <<>>
    BY <1>1, Ids
  <2> QED BY <2>1
<1>4. <<Head(InputIds)>> \in Seq(Callback) /\ Append(<<Head(InputIds)>>, "event") \in Seq(Callback)
  BY <1>3 DEF Callback
<1>5. CASE Say(<<Head(InputIds)>>, "fill")
  BY <1>1, <1>2, <1>4, <1>5, QueueSay, Zenon
<1>6. CASE Fails(<<Head(InputIds)>>)
  BY <1>1, <1>2, <1>4, <1>6, QueueSay, Zenon DEF Fails
<1> QED BY <1>5, <1>6, SMTT(20)

LEMMA QueueFilled ==
  ASSUME QueueIInv, OutputIInv, D_End \/ D_Frame PROVE QueueIInv'
<1>1. /\ cpc = "got" /\ UNCHANGED <<input_buffers, is_open, callbacks>>
      /\ output_buffers \in Seq(Bufs) /\ output_buffers # <<>>
  BY DEF D_End, D_Frame, Filled, OutputIInv, note
<1>2. <<Head(output_buffers)>> \in Seq(Callback) /\ <<>> \in Seq(Callback)
  BY <1>1 DEF Callback
<1>3. Append(<<>>, "event") \in Seq(Callback)
  BY DEF Callback
<1>4. input_buffers' \in Seq(Inputs \X Flags)
  BY <1>1 DEF QueueIInv
<1>5. CASE D_End
  <2>1. is_open
    BY <1>1, <1>5 DEF D_End, QueueIInv
  <2>2. Say(<<Head(output_buffers)>>, "fill")
    BY <1>5 DEF D_End
  <2> QED BY <1>1, <1>2, <1>4, <2>1, <2>2, QueueSay, ZenonT(30)
<1>6. CASE D_Frame
  <2>1. \/ UNCHANGED mStatus /\ (Say(<<>>, "fill") \/ Say(<<Head(output_buffers)>>, "fill"))
        \/ mStatus' = "ERROR_SIGNALED" /\ Say(Append(<<>>, "event"), "idle")
    BY <1>6 DEF D_Frame, Fails
  <2>2. is_open' \/ mStatus' \in {"AWAITING_INPUT", "ERROR_SIGNALED"}
    BY <1>1, <2>1 DEF QueueIInv
  <2> QED BY <1>1, <1>2, <1>3, <1>4, <2>1, <2>2, QueueSay, Zenon
<1> QED BY <1>5, <1>6

LEMMA QueuePublish ==
  ASSUME TransferIInv, QueueIInv, NotifyIInv, NEW t \in Notifiers, N_Publish(t)
  PROVE  callbacks' = Append(callbacks, Message(t)) /\ callbacks' \in Seq(Callback)
<1>1. slot = Message(t) /\ Sends(t)
  BY DEF N_Publish, NotifyIInv
<1>2. Message(t) \in Callback
  <2>1. CASE t = D
    <3>1. say # <<>> /\ say \in Seq(Callback)
      BY <1>1, <2>1 DEF Sends, QueueIInv
    <3> QED BY <2>1, <3>1 DEF Message
  <2>2. CASE t # D
    <3>1. t \in Workers /\ wpc[t] = "pre"
      BY <1>1, <2>2, SMTT(20) DEF Sends, Notifiers
    <3>2. wtask[t] \in Task
      BY <3>1 DEF TransferIInv, Own, Owns, At
    <3>3. wtask[t].buf \in Bufs
      BY <3>2 DEF Task
    <3> QED BY <2>2, <3>3 DEF Message, Callback
  <2> QED BY <2>1, <2>2
<1>3. callbacks \in Seq(Callback) /\ callbacks' = Append(callbacks, Message(t))
  BY <1>1 DEF N_Publish, QueueIInv
<1> QED BY <1>2, <1>3

LEMMA QueueFlush ==
  ASSUME QueueIInv, OutputIInv, NEW input \in BOOLEAN, NEW output \in BOOLEAN, SendFlush(input, output)
  PROVE  QueueIInv'
<1> DEFINE s == IF input THEN Append(InputIds, "event") ELSE <<>>
           r == IF output THEN Append(output_buffers, "event") ELSE <<>>
<1>1. "event" \in Callback /\ InputIds \in Seq(Callback) /\ output_buffers \in Seq(Callback)
  BY Ids DEF Callback, OutputIInv
<1>2. s \in Seq(Callback) /\ r \in Seq(Callback)
  BY <1>1
<1>3. Say(s \o r, "idle") /\ cpc = "idle" /\ UNCHANGED callbacks
  BY DEF SendFlush, note
<1>4. s \o r \in Seq(Callback)
  BY <1>2
<1>5. input_buffers' \in Seq(Inputs \X Flags)
  <2>1. input_buffers' = <<>> \/ input_buffers' = input_buffers
    BY DEF SendFlush
  <2>2. <<>> \in Seq(Inputs \X Flags) /\ input_buffers \in Seq(Inputs \X Flags)
    BY DEF QueueIInv
  <2> QED BY <2>1, <2>2, Zenon
<1>6. is_open' \/ mStatus' \in {"AWAITING_INPUT", "ERROR_SIGNALED"}
  BY <1>3, OpenOrNot DEF SendFlush, dcodec_reset_component, ffmpeg
<1> QED BY <1>3, <1>4, <1>5, <1>6, QueueSay, Zenon

LEMMA QueueIdle ==
  ASSUME QueueIInv, OutputIInv, SendIdle PROVE QueueIInv'
<1> DEFINE s == InputIds \o output_buffers \o <<"event">>
<1>1. "event" \in Callback /\ InputIds \in Seq(Callback) /\ output_buffers \in Seq(Callback)
  BY Ids DEF Callback, OutputIInv
<1>2. s \in Seq(Callback)
  <2>1. InputIds \o output_buffers \in Seq(Callback)
    BY <1>1
  <2> QED BY <1>1, <2>1
<1>3. Say(s, "idle") /\ UNCHANGED callbacks /\ mStatus' = "AWAITING_INPUT" /\ input_buffers' = <<>>
  BY DEF SendIdle, note, dcodec_reset_component
<1>4. input_buffers' \in Seq(Inputs \X Flags)
  BY <1>3
<1> QED BY <1>2, <1>3, <1>4, QueueSay, ZenonT(30)

LEMMA QueueStep ==
  TransferIInv /\ OutputIInv /\ NotifyIInv /\ QueueIInv /\ [CodecNext]_codecvars => QueueIInv'
<1> SUFFICES ASSUME TransferIInv, OutputIInv, NotifyIInv, QueueIInv, CodecNext \/ UNCHANGED codecvars
             PROVE  QueueIInv'
  BY DEF codecvars
<1>0. input_buffers \in Seq(Inputs \X Flags)
  BY DEF QueueIInv
<1>1. CASE D_Open
  BY <1>1, QueueOpens
<1>2. CASE D_OpenFails(0) \/ D_OpenFails(Cardinality(Configs))
  <2>1. 0 \in 0 .. Len(input_buffers)
    BY Ids
  <2> QED BY <1>2, <2>1, QueueOpenFails, ConfigsBound
<1>3. CASE D_Config \/ D_Decode(FALSE) \/ D_Decode(TRUE) \/ D_DecodeFails
  BY <1>3, QueueEmptied DEF D_Config, D_Decode, D_DecodeFails
<1>4. CASE D_NoOutput \/ D_Again
  <2>1. TurnEnds /\ cpc # "empty"
    BY <1>4 DEF D_NoOutput, D_Again
  <2>2. \E did : Loop(input_buffers', mStatus', did)
    BY <2>1 DEF TurnEnds, component
  <2>3. UNCHANGED <<say, after, callbacks, is_open, mStatus, input_buffers>>
    BY <2>1 DEF TurnEnds, component, ffmpeg, note
  <2> QED BY <1>0, <2>1, <2>2, <2>3, OpenOrNot, QueueLoop
<1>5. CASE D_Asks \/ D_QueueFull
  BY <1>5 DEF D_Asks, D_QueueFull, component, ffmpeg, note, QueueIInv
<1>6. CASE D_ReceiveFails
  <2>1. Append(<<>>, "event") \in Seq(Callback)
    BY DEF Callback
  <2> QED BY <1>0, <1>6, <2>1, QueueSay, ZenonT(30) DEF D_ReceiveFails, Fails, note
<1>7. CASE D_End \/ D_Frame
  BY <1>7, QueueFilled
<1>8. ASSUME NEW t, N_Lock(t) \/ N_Write(t) PROVE QueueIInv'
  BY <1>8, QueueSame DEF N_Lock, N_Write, component, ffmpeg, run
<1>9. CASE D_Publish
  <2>1. callbacks' \in Seq(Callback) /\ cpc = "say" /\ say # <<>>
    BY <1>9, QueuePublish, Zenon DEF D_Publish, Notifiers, N_Publish, NotifyIInv, Sends
  <2>2. say' \in Seq(Callback)
    BY <1>9, <2>1 DEF D_Publish, QueueIInv
  <2> QED BY <1>9, <2>1, <2>2 DEF D_Publish, component, ffmpeg, QueueIInv, NotifyIInv
<1>10. ASSUME NEW b \in Inputs, NEW flag \in Flags, ProcessInput(b, flag) PROVE QueueIInv'
  <2>1. Append(input_buffers, <<b, flag>>) \in Seq(Inputs \X Flags)
    BY <1>0
  <2> QED BY <1>10, <2>1, QueueProcess, Zenon DEF ProcessInput
<1>11. ASSUME NEW b, ProcessOutput(b) PROVE QueueIInv'
  BY <1>0, <1>11, QueueProcess, SMTT(20) DEF ProcessOutput
<1>12. CASE ResetComponent
  BY <1>12, ZenonT(30) DEF ResetComponent, dcodec_reset_component, run, note, QueueIInv
<1>13. ASSUME NEW w \in Workers, W_Publish(w) PROVE QueueIInv'
  <2>1. callbacks' \in Seq(Callback)
    BY <1>13, QueuePublish, SMTT(20) DEF W_Publish, Notifiers
  <2> QED BY <1>13, <2>1, Zenon DEF W_Publish, component, ffmpeg, run, QueueIInv
<1>14. CASE GuestReads
  <2>1. callbacks' \in Seq(Callback)
    BY <1>14 DEF GuestReads, QueueIInv
  <2> QED BY <1>14, <2>1 DEF GuestReads, component, ffmpeg, run, QueueIInv
<1>15. ASSUME \/ UNCHANGED codecvars
              \/ \E b \in Bufs : GuestTakes(b) \/ GuestUses(b)
              \/ \E w \in Workers : W_Step(w) \/ W_Fails(w)
       PROVE  QueueIInv'
  <2>1. UNCHANGED <<component, ffmpeg, run, note>>
    BY <1>15, Zenon DEF codecvars, GuestTakes, GuestUses, W_Step, W_Fails
  <2> QED BY <2>1, QueueSame DEF component, ffmpeg, run, note
<1> QED
  BY <1>1, <1>2, <1>3, <1>4, <1>5, <1>6, <1>7, <1>8, <1>9, <1>10, <1>11, <1>12, <1>13, <1>14, <1>15,
     QueueFlush, QueueIdle, Zenon
  DEF CodecNext, dcodec_process_buffers, worker

CodecIInv == TransferIInv /\ OutputIInv /\ NotifyIInv /\ QueueIInv

LEMMA CodecInvariant == CodecSpec => []CodecIInv
<1>1. CodecInit => NotifyIInv /\ QueueIInv
  BY NotifyInit, QueueInit
<1>2. (TransferIInv /\ OutputIInv) /\ (NotifyIInv /\ QueueIInv) /\ [CodecNext]_codecvars
        => (NotifyIInv /\ QueueIInv)'
  BY NotifyStep, QueueStep
<1> QED BY <1>1, <1>2, CodecTransfers, PTL DEF CodecSpec, CodecIInv

(* Once it has seen data the decoder goes on as long as both queues hold   *)
(* buffers, also when it has callbacks to send first.                      *)
RestIInv ==
  /\ cpc = "idle" \/ (cpc = "say" /\ after = "idle") =>
       \/ input_buffers = <<>> \/ output_buffers = <<>>
       \/ mStatus \in {"AWAITING_INPUT", "ERROR_SIGNALED"}

LEMMA RestStep == NotifyIInv /\ RestIInv /\ [CodecNext]_codecvars => RestIInv'
<1> SUFFICES ASSUME NotifyIInv, RestIInv, CodecNext \/ UNCHANGED codecvars PROVE RestIInv'
  BY DEF codecvars
<1> USE DEF RestIInv
<1>1. ASSUME UNCHANGED <<input_buffers, output_buffers, mStatus>>,
             UNCHANGED <<cpc, after>> \/ cpc' \notin {"idle", "say"}
      PROVE  RestIInv'
  BY <1>1
<1>2. ASSUME NEW s, NEW pc \in {"empty", "fill"}, Say(s, pc), cpc # "say" PROVE RestIInv'
  BY <1>2 DEF Say
<1>3. ASSUME NEW s, Fails(s) PROVE RestIInv'
  BY <1>3 DEF Fails
<1>4. CASE D_Open \/ D_Config \/ D_Decode(FALSE) \/ D_Decode(TRUE)
  BY <1>2, <1>4 DEF D_Open, D_Config, D_Decode, Emptied
<1>5. CASE D_OpenFails(0) \/ D_OpenFails(Cardinality(Configs)) \/ D_DecodeFails \/ D_ReceiveFails
  BY <1>3, <1>5 DEF D_OpenFails, D_DecodeFails, D_ReceiveFails
<1>6. CASE D_NoOutput \/ D_Again
  <2>1. TurnEnds /\ cpc \in {"fill", "got"}
    BY <1>6 DEF D_NoOutput, D_Again
  <2> QED BY <2>1 DEF TurnEnds, Loop, component
<1>7. CASE D_Asks \/ D_QueueFull
  BY <1>1, <1>7 DEF D_Asks, D_QueueFull, component
<1>8. CASE D_End \/ D_Frame
  BY <1>2, <1>3, <1>8 DEF D_End, D_Frame, Filled
<1>9. CASE N_Lock(D) \/ N_Write(D)
  BY <1>1, <1>9 DEF N_Lock, N_Write, component, run
<1>10. CASE D_Publish
  <2>1. cpc = "say"
    BY <1>10 DEF D_Publish, N_Publish, NotifyIInv, Notifiers, Sends
  <2> QED BY <1>10, <2>1 DEF D_Publish, component, NotifyIInv
<1>11. ASSUME NEW input, NEW output, Process(input, output) PROVE RestIInv'
  <2> DEFINE first == mStatus = "AWAITING_INPUT" /\ input # <<>>
  <2>1. CASE first /\ input[Len(input)][2] = "config"
    BY <1>11, <2>1 DEF Process
  <2>2. CASE ~(first /\ input[Len(input)][2] = "config")
    <3>1. Loop(input, mStatus', TRUE)
      BY <1>11, <2>2, Zenon DEF Process
    <3>2. cpc' = "idle" => mStatus' \in {"AWAITING_INPUT", "ERROR_SIGNALED"}
      BY <3>1 DEF Loop
    <3>3. cpc' # "say"
      BY <3>1 DEF Loop
    <3> QED BY <3>2, <3>3
  <2> QED BY <2>1, <2>2
<1>12. CASE SendIdle
  BY <1>12 DEF SendIdle, dcodec_reset_component
<1>13. ASSUME NEW input \in BOOLEAN, NEW output \in BOOLEAN, SendFlush(input, output) PROVE RestIInv'
  <2>1. CASE input
    BY <1>13, <2>1 DEF SendFlush, dcodec_reset_component
  <2>2. CASE ~input
    BY <1>13, <2>2 DEF SendFlush, FlushOutput
  <2> QED BY <2>1, <2>2
<1>14. CASE ResetComponent
  BY <1>14 DEF ResetComponent, dcodec_reset_component
<1>15. ASSUME \/ GuestReads \/ UNCHANGED codecvars
              \/ \E b \in Bufs : GuestTakes(b) \/ GuestUses(b)
              \/ \E w \in Workers : worker(w) \/ W_Fails(w)
       PROVE  RestIInv'
  BY <1>1, <1>15, Zenon
  DEF GuestReads, GuestTakes, GuestUses, worker, W_Step, N_Lock, N_Write, W_Publish,
      W_Fails, component, run, codecvars
<1> QED
  BY <1>4, <1>5, <1>6, <1>7, <1>8, <1>9, <1>10, <1>11, <1>12, <1>13, <1>14, <1>15, Zenon
  DEF CodecNext, dcodec_process_buffers, ProcessInput, ProcessOutput

(* The loop of dcodec_process_buffers never ends with buffers in both      *)
(* queues, although it sends callbacks, waits for the ring and the         *)
(* transfers, and is flushed and reset in between.                         *)
THEOREM DecoderRestsWithoutWork == CodecSpec => []RestsWithoutWork
<1>1. CodecInit => RestIInv
  BY DEF CodecInit, RestIInv
<1>2. RestIInv => RestsWithoutWork
  BY DEF RestIInv, RestsWithoutWork
<1>3. CodecIInv => NotifyIInv
  BY DEF CodecIInv
<1> QED BY <1>1, <1>2, <1>3, CodecInvariant, RestStep, PTL DEF CodecSpec
===============================================================================

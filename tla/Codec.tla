-------------------------------- MODULE Codec ---------------------------------
(***************************************************************************)
(* A video decoder component: its queues of buffers and its state machine  *)
(* (dcodec_component.c), run by the one handle thread D of the guest's     *)
(* codec instance, FFmpeg's decoder as dcodec_vdec.c uses it, and the ring *)
(* of callbacks in guest memory, which D and the transfer workers of       *)
(* MemTransfer fill under dma_buf_mutex and the guest polls.  What happens *)
(* to an output buffer in fill_one_output_buffer is MemTransfer's.         *)
(*                                                                         *)
(* The ring is kept as the callbacks from guest_idx to host_idx and what   *)
(* is in the slot at host_idx, which is not part of them yet.              *)
(***************************************************************************)
EXTENDS MemTransfer

CONSTANTS D,              \* the handle thread
          Inputs,         \* input buffers
          CallbackLen,    \* CODEC_CALLBACK_BUFFER_LEN
          MaxHeld,        \* frames FFmpeg holds before it refuses packets
          NOBODY

ASSUME DecoderAssumption == D \in Decoders /\ D \notin Workers /\ NOBODY \notin Workers \cup {D}
ASSUME InputsAssumption == Inputs \cap Bufs = {} /\ "event" \notin Inputs \cup Bufs
ASSUME LenAssumption == CallbackLen \in Nat /\ CallbackLen >= 2 /\ MaxHeld \in Nat \ {0}

Notifiers == {D} \cup Workers
Callback == Inputs \cup Bufs \cup {"event"}     \* a buffer is done, or an event

VARIABLES
  input_buffers, output_buffers, mStatus,   \* the component
  is_open, cap_delay, held, drained,        \* FFmpeg's decoder
  cpc, did_something,                       \* D, in dcodec_process_buffers
  say, after,                               \* D: callbacks to send, where to go on
  npc, holder,                              \* dcodec_notify_guest, dma_buf_mutex
  callbacks, slot,                          \* the ring
  given, told                               \* the guest: its inputs, outputs it read of

component == <<input_buffers, output_buffers, mStatus>>
ffmpeg == <<is_open, cap_delay, held, drained>>
run  == <<cpc, did_something, say, after>>
note == <<npc, holder, callbacks, slot>>
codecvars == <<vars, component, ffmpeg, run, note, given, told>>

Flags == {"config", "data", "eos"}
Places == {"idle", "empty", "fill", "got", "say"}

CodecTypeOK ==
  /\ input_buffers \in Seq(Inputs \X Flags) /\ output_buffers \in Seq(Bufs)
  /\ mStatus \in {"AWAITING_INPUT", "INPUT_DATA_AVAILABLE", "INPUT_EOS_SEEN",
                  "OUTPUT_EOS_SENT", "ERROR_SIGNALED"}
  /\ is_open \in BOOLEAN /\ cap_delay \in BOOLEAN /\ drained \in BOOLEAN
  /\ held \in 0 .. MaxHeld
  /\ cpc \in Places /\ after \in Places /\ did_something \in BOOLEAN
  /\ say \in Seq(Callback)
  /\ npc \in [Notifiers -> {"out", "wait", "publish"}] /\ holder \in Notifiers \cup {NOBODY}
  /\ callbacks \in Seq(Callback) /\ Len(callbacks) < CallbackLen /\ slot \in Callback
  /\ given \in SUBSET Inputs /\ told \in SUBSET Bufs

CodecInit ==
  /\ Init
  /\ input_buffers = <<>> /\ output_buffers = <<>> /\ mStatus = "AWAITING_INPUT"
  /\ is_open = FALSE /\ cap_delay \in BOOLEAN /\ held = 0 /\ drained = FALSE
  /\ cpc = "idle" /\ did_something = FALSE /\ say = <<>> /\ after = "idle"
  /\ npc = [t \in Notifiers |-> "out"] /\ holder = NOBODY
  /\ callbacks = <<>> /\ slot = "event"
  /\ given = Inputs /\ told = {}

-------------------------------------------------------------------------------
(* dcodec_notify_guest: D and the workers that have a callback to send.    *)
Message(t) == IF t = D THEN Head(say) ELSE wtask[t].buf
Sends(t) ==
  IF t = D THEN cpc = "say" /\ say # <<>> ELSE wpc[t] = "pre" /\ wtask[t].kind = "guest"

(* Mutant: the ring is written without dma_buf_mutex.                      *)
N_LockNot(t) ==
  /\ Sends(t) /\ npc[t] = "out"
  /\ npc' = [npc EXCEPT ![t] = "wait"]
  /\ UNCHANGED <<vars, component, ffmpeg, run, holder, callbacks, slot, given, told>>

N_Lock(t) ==
  /\ Sends(t) /\ npc[t] = "out" /\ holder = NOBODY
  /\ npc' = [npc EXCEPT ![t] = "wait"]
  /\ holder' = t
  /\ UNCHANGED <<vars, component, ffmpeg, run, callbacks, slot, given, told>>

(* "+ 1 must be present": one slot stays free.  A full ring is polled with *)
(* the mutex held.                                                         *)
N_Write(t) ==
  /\ npc[t] = "wait" /\ Len(callbacks) + 1 < CallbackLen
  /\ npc' = [npc EXCEPT ![t] = "publish"]
  /\ slot' = Message(t)
  /\ UNCHANGED <<vars, component, ffmpeg, run, holder, callbacks, given, told>>

(* Mutant: the mutex stays locked.                                         *)
N_PublishKeepsLock(t) ==
  /\ npc[t] = "publish"
  /\ npc' = [npc EXCEPT ![t] = "out"]
  /\ callbacks' = Append(callbacks, slot) /\ slot' = "event"
  /\ UNCHANGED holder

(* host_idx is advanced; what the next slot holds does not matter.         *)
N_Publish(t) ==
  /\ npc[t] = "publish"
  /\ npc' = [npc EXCEPT ![t] = "out"]
  /\ holder' = NOBODY
  /\ callbacks' = Append(callbacks, slot) /\ slot' = "event"

(* D sends its callbacks and goes on.                                      *)
D_Publish ==
  /\ N_Publish(D)
  /\ say' = Tail(say)
  /\ IF Len(say) = 1 THEN cpc' = after /\ after' = "idle" ELSE UNCHANGED <<cpc, after>>
  /\ UNCHANGED <<vars, component, ffmpeg, did_something, given, told>>

(* D returns the buffers in s, or reports an event, and goes on at pc.     *)
Say(s, pc) ==
  IF s = <<>> THEN cpc' = pc /\ UNCHANGED <<say, after>>
  ELSE cpc' = "say" /\ say' = s /\ after' = pc

-------------------------------------------------------------------------------
(* The head of the loop of dcodec_process_buffers.                         *)
Loop(input, status, did) ==
  /\ cpc' = IF status \in {"AWAITING_INPUT", "ERROR_SIGNALED"} \/ ~did THEN "idle"
            ELSE IF input # <<>> THEN "empty" ELSE "fill"
  /\ did_something' = FALSE

(* The calls of the guest, one at a time (dcodec_master_switch).           *)
(* dcodec_process_this_buffer: config buffers wait for the first data.     *)
Process(input, output) ==
  /\ cpc = "idle"
  /\ input_buffers' = input /\ output_buffers' = output
  /\ LET first == mStatus = "AWAITING_INPUT" /\ input # <<>>
     IN IF first /\ input[Len(input)][2] = "config"
        THEN UNCHANGED <<mStatus, cpc, did_something>>
        ELSE /\ mStatus' = IF first THEN "INPUT_DATA_AVAILABLE" ELSE mStatus
             /\ Loop(input, mStatus', TRUE)
  /\ UNCHANGED <<ffmpeg, say, after, note, told>>

ProcessInput(b, flag) ==
  /\ b \in given
  /\ given' = given \ {b}
  /\ Process(Append(input_buffers, <<b, flag>>), output_buffers)
  /\ UNCHANGED vars

ProcessOutput(b) ==
  /\ ProcessThisBuffer(b)
  /\ Process(input_buffers, Append(output_buffers, b))
  /\ UNCHANGED given

dcodec_reset_component ==
  /\ mStatus' = "AWAITING_INPUT"
  /\ held' = 0 /\ drained' = FALSE
  /\ UNCHANGED <<is_open, cap_delay>>

ResetComponent ==
  /\ cpc = "idle" /\ dcodec_reset_component
  /\ UNCHANGED <<vars, input_buffers, output_buffers, run, note, given, told>>

InputIds == [i \in 1 .. Len(input_buffers) |-> input_buffers[i][1]]

FlushOutput == output_buffers' = <<>> /\ dcodec_flush_buffers

(* OMX_CommandFlush.                                                       *)
SendFlush(input, output) ==
  /\ cpc = "idle" /\ (input \/ output)
  /\ IF input THEN dcodec_reset_component /\ input_buffers' = <<>>
     ELSE UNCHANGED <<input_buffers, mStatus, ffmpeg>>
  /\ IF output THEN FlushOutput ELSE UNCHANGED <<vars, output_buffers>>
  /\ Say((IF input THEN Append(InputIds, "event") ELSE <<>>)
         \o (IF output THEN Append(output_buffers, "event") ELSE <<>>), "idle")
  /\ UNCHANGED <<did_something, note, given, told>>

(* OMX_CommandStateSet with OMX_StateIdle.                                 *)
SendIdle ==
  /\ cpc = "idle"
  /\ FlushOutput /\ input_buffers' = <<>> /\ dcodec_reset_component
  /\ Say(InputIds \o output_buffers \o <<"event">>, "idle")
  /\ UNCHANGED <<did_something, note, given, told>>

-------------------------------------------------------------------------------
(* An error: the status, the buffers in s returned, and OMX_EventError.    *)
Fails(s) ==
  /\ mStatus' = "ERROR_SIGNALED"
  /\ Say(Append(s, "event"), "idle")

(* open_codec: dcodec_handle_extradata takes the config buffers.           *)
Configs ==
  {i \in 1 .. Len(input_buffers) : \A j \in 1 .. i : input_buffers[j][2] = "config"}

Takes(n) == input_buffers' = SubSeq(input_buffers, n + 1, Len(input_buffers))

D_Open ==
  /\ cpc = "empty" /\ ~is_open
  /\ Takes(Cardinality(Configs))
  /\ Say(SubSeq(InputIds, 1, Cardinality(Configs)), "empty")
  /\ is_open' = TRUE
  /\ UNCHANGED <<vars, output_buffers, mStatus, cap_delay, held, drained, did_something, note,
                 given, told>>

(* It fails before it takes them (no context, no decoder), or after.       *)
D_OpenFails(n) ==
  /\ cpc = "empty" /\ ~is_open
  /\ Takes(n)
  /\ Fails(SubSeq(InputIds, 1, n))
  /\ UNCHANGED <<vars, output_buffers, ffmpeg, did_something, note, given, told>>

(* empty_one_input_buffer, with the decoder open.                          *)
Emptied ==
  /\ cpc = "empty" /\ is_open
  /\ input_buffers' = Tail(input_buffers)
  /\ UNCHANGED <<vars, output_buffers, is_open, cap_delay, note, given, told>>

D_Config ==
  /\ Emptied /\ Head(input_buffers)[2] = "config"
  /\ did_something' = TRUE
  /\ Say(<<Head(InputIds)>>, "fill")
  /\ UNCHANGED <<mStatus, held, drained>>

(* The packet is accepted, or swallowed: it was bad, empty, or came after  *)
(* the end.  At the end of the stream a decoder with AV_CODEC_CAP_DELAY is *)
(* told to drain.                                                          *)
D_Decode(frame) ==
  /\ Emptied /\ Head(input_buffers)[2] # "config"
  /\ frame => held < MaxHeld /\ ~drained
  /\ held' = IF frame THEN held + 1 ELSE held
  /\ LET eos == Head(input_buffers)[2] = "eos"
     IN /\ drained' = (drained \/ (eos /\ cap_delay))
        /\ mStatus' = IF eos THEN "INPUT_EOS_SEEN" ELSE mStatus
  /\ did_something' = TRUE
  /\ Say(<<Head(InputIds)>>, "fill")

D_DecodeFails ==
  /\ Emptied /\ Head(input_buffers)[2] # "config"
  /\ Fails(<<Head(InputIds)>>)
  /\ UNCHANGED <<held, drained, did_something>>

(* ERR_INPUT_QUEUE_FULL: the packet stays.                                 *)
D_QueueFull ==
  /\ cpc = "empty" /\ is_open /\ Head(input_buffers)[2] # "config"
  /\ held = MaxHeld /\ ~drained
  /\ cpc' = "fill"
  /\ UNCHANGED <<vars, component, ffmpeg, did_something, say, after, note, given, told>>

(* Mutant: only the end of the stream is waited for.                       *)
TurnEndsEosOnly ==
  /\ Loop(input_buffers, mStatus,
          did_something \/ (output_buffers # <<>> /\ mStatus = "INPUT_EOS_SEEN"))
  /\ UNCHANGED <<component, ffmpeg, say, after, note, given, told>>

(* No more output for now: "it is possible that we will not receive any    *)
(* more buffers, therefore we have to wait and fill the buffers to avoid   *)
(* deadlock".                                                              *)
TurnEnds ==
  /\ Loop(input_buffers, mStatus,
          did_something \/ /\ output_buffers # <<>>
                           /\ input_buffers # <<>> \/ mStatus = "INPUT_EOS_SEEN")
  /\ UNCHANGED <<component, ffmpeg, say, after, note, given, told>>

(* fill_one_output_buffer, as long as there are output buffers.            *)
D_NoOutput ==
  /\ cpc = "fill" /\ output_buffers = <<>>
  /\ TurnEnds
  /\ UNCHANGED vars

(* While the transfers are busy it returns ERR_OK and is called again.     *)
D_Asks ==
  /\ cpc = "fill" /\ output_buffers # <<>>
  /\ D_Busy(D)
  /\ IF mem_transfer_is_busy THEN did_something' = TRUE /\ UNCHANGED cpc
     ELSE cpc' = "got" /\ UNCHANGED did_something
  /\ UNCHANGED <<component, ffmpeg, say, after, note, given, told>>

(* avcodec_receive_frame: EAGAIN, or EOF at the end that is not announced. *)
D_Again ==
  /\ cpc = "got" /\ D_NoFrame(D)
  /\ ~(held = 0 /\ drained /\ mStatus = "INPUT_EOS_SEEN")
  /\ TurnEnds

D_ReceiveFails ==
  /\ cpc = "got" /\ D_NoFrame(D)
  /\ Fails(<<>>)
  /\ UNCHANGED <<input_buffers, output_buffers, ffmpeg, did_something, note, given, told>>

Filled ==
  /\ cpc = "got"
  /\ output_buffers' = Tail(output_buffers)
  /\ UNCHANGED <<input_buffers, is_open, cap_delay, drained, note, given, told>>

D_End ==
  /\ Filled /\ held = 0 /\ drained /\ mStatus = "INPUT_EOS_SEEN"
  /\ D_Eos(D, Head(output_buffers))
  /\ mStatus' = "OUTPUT_EOS_SENT"
  /\ Say(<<Head(output_buffers)>>, "fill")
  /\ did_something' = TRUE
  /\ UNCHANGED held

(* A frame.  The callback of a gbuffer is sent ahead of its transfer.      *)
D_Frame ==
  /\ Filled /\ held > 0
  /\ held' = held - 1
  /\ LET b == Head(output_buffers)
     IN \/ /\ D_ToGuest(D, b) \/ D_Unsupported(D, b)
           /\ Say(<<>>, "fill") /\ did_something' = TRUE /\ UNCHANGED mStatus
        \/ /\ D_InGpu(D, b) \/ D_ToTexture(D, b)
           /\ Say(<<b>>, "fill") /\ did_something' = TRUE /\ UNCHANGED mStatus
        \/ /\ D_BadFormat(D, b)
           /\ Fails(<<>>) /\ UNCHANGED did_something

dcodec_process_buffers ==
  \/ D_Open \/ D_Config \/ D_Decode(FALSE) \/ D_Decode(TRUE) \/ D_QueueFull
  \/ D_NoOutput \/ D_Asks \/ D_Again \/ D_End \/ D_Frame
  \/ N_Lock(D) \/ N_Write(D) \/ D_Publish

-------------------------------------------------------------------------------
(* The workers: the callback of a buffer in guest memory is part of        *)
(* swscale_task_cb.                                                        *)
W_Step(w) ==
  /\ \/ K_Take(w) \/ K_Map(w) \/ K_End(w) \/ K_Signal(w) \/ K_Exit(w)
     \/ K_Pre(w) /\ wtask[w].kind # "guest"
  /\ UNCHANGED <<component, ffmpeg, run, note, given, told>>

W_Fails(w) ==
  /\ K_MapFails(w) \/ (K_PreFails(w) /\ npc[w] = "out")
  /\ UNCHANGED <<component, ffmpeg, run, note, given, told>>

W_Publish(w) ==
  /\ N_Publish(w) /\ K_Pre(w)
  /\ UNCHANGED <<component, ffmpeg, run, given, told>>

worker(w) == W_Step(w) \/ N_Lock(w) \/ N_Write(w) \/ W_Publish(w)

-------------------------------------------------------------------------------
(* The guest (external) polls the ring, and takes an output buffer back    *)
(* when it has read of it and the buffer is signalled.                     *)
GuestReads ==
  /\ callbacks # <<>>
  /\ callbacks' = Tail(callbacks)
  /\ given' = given \cup ({Head(callbacks)} \cap Inputs)
  /\ told' = told \cup ({Head(callbacks)} \cap Bufs)
  /\ UNCHANGED <<vars, component, ffmpeg, run, npc, holder, slot>>

GuestTakes(b) ==
  /\ GuestTakesBack(b) /\ b \in told
  /\ told' = told \ {b}
  /\ UNCHANGED <<component, ffmpeg, run, note, given>>

(* The guest's other uses of its gbuffers; an upload has no callback.      *)
GuestUses(b) ==
  /\ \/ (Alloc_Gbuffer(b) \/ Terminate_Gbuffer(b)) /\ UNCHANGED told
     \/ gbuffer_data_guest_to_host(b) /\ told' = told \cup {b}
  /\ UNCHANGED <<component, ffmpeg, run, note, given>>

CodecNext ==
  \/ dcodec_process_buffers \/ D_OpenFails(0) \/ D_OpenFails(Cardinality(Configs)) \/ D_DecodeFails \/ D_ReceiveFails
  \/ \E b \in Inputs, flag \in Flags : ProcessInput(b, flag)
  \/ \E b \in Bufs : ProcessOutput(b) \/ GuestTakes(b) \/ GuestUses(b)
  \/ ResetComponent \/ SendIdle \/ \E input, output \in BOOLEAN : SendFlush(input, output)
  \/ \E w \in Workers : worker(w) \/ W_Fails(w)
  \/ GuestReads

CodecSpec == CodecInit /\ [][CodecNext]_codecvars

(* The host's threads go on; FFmpeg produces the frames it holds when it   *)
(* refuses packets or drains; the guest polls the ring and takes its       *)
(* buffers back, but need not send any.                                    *)
CodecFairness ==
  /\ WF_codecvars(dcodec_process_buffers)
  /\ SF_codecvars(D_Frame)
  /\ SF_codecvars(N_Lock(D))
  /\ \A w \in Workers : WF_codecvars(worker(w)) /\ SF_codecvars(N_Lock(w))
  /\ WF_codecvars(GuestReads)
  /\ \A b \in Bufs : WF_codecvars(GuestTakes(b))

-------------------------------------------------------------------------------
Count(e, s) == Cardinality({i \in DOMAIN s : s[i] = e})

(* The callbacks for a buffer that D has still to send or that are unread. *)
Callbacks(e) == Count(e, say) + Count(e, callbacks)

(* The transfers that will send one.                                       *)
Owed(b) ==
  Cardinality({i \in 1 .. Len(queue) : queue[i] = [kind |-> "guest", buf |-> b]})
  + Cardinality({w \in Workers : wpc[w] = "pre" /\ wtask[w] = [kind |-> "guest", buf |-> b]})

One(test) == IF test THEN 1 ELSE 0

(* Every buffer the guest hands to the decoder is in one queue, and is     *)
(* answered by one callback, neither lost in the ring, nor sent by both    *)
(* the decoder and a worker, nor overwritten before the guest has read it; *)
(* an output buffer may go without one only if its transfer failed.        *)
BufferAnsweredOnce ==
  /\ \A i \in Inputs : Count(i, InputIds) + Callbacks(i) + One(i \in given) = 1
  /\ \A b \in Bufs :
       /\ Count(b, output_buffers) = One(st[b] = "codec")
       /\ LET answers == Callbacks(b) + Owed(b) + One(b \in told)
          IN IF st[b] = "out" THEN answers = 1 \/ (answers = 0 /\ b \in stuck) ELSE answers = 0

(* The guest may send no more buffers before it gets one back: the decoder *)
(* never rests with buffers in both queues, once it has seen data and as   *)
(* long as it has signalled no error.                                      *)
RestsWithoutWork ==
  cpc = "idle" /\ input_buffers # <<>> /\ output_buffers # <<>>
    => mStatus \in {"AWAITING_INPUT", "ERROR_SIGNALED"}

(* The decoder has one thread for everything: a call of the guest is       *)
(* finished although the thread waits for frames when both queues hold     *)
(* buffers, for the ring and for the transfers; except that, for a decoder *)
(* without AV_CODEC_CAP_DELAY, it waits for ever for the end of the stream *)
(* to come out.                                                            *)
CallIsFinished ==
  []<>(cpc = "idle" \/ (~cap_delay /\ mStatus = "INPUT_EOS_SEEN"))
===============================================================================

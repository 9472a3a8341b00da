------------------------------- MODULE MCCodec --------------------------------
(* Instances of Codec for TLC.                                              *)
EXTENDS Codec

(* The bounds: the guest uses its gbuffers otherwise only while the        *)
(* decoder is unused, it is without three of its buffers at most, and it   *)
(* sends i2 only behind i1, g2 only when two transfers wait (so that the   *)
(* decoder polls them), no input before it has g2 back, and nothing once a *)
(* frame is lost or a buffer will not come back; one thing fails, not      *)
(* while g2 is away.                                                       *)
Unused == given = Inputs /\ output_buffers = <<>> /\ cpc = "idle" /\ ~is_open
Three == Cardinality(Inputs \ given) + Cardinality({b \in Bufs : st[b] # "guest" /\ b \notin stuck}) <= 3
Fresh == stuck = {} /\ mStatus # "ERROR_SIGNALED"
Failure ==
  \/ stuck' # stuck \/ (mStatus' # mStatus /\ mStatus' = "ERROR_SIGNALED")
  \/ \E w \in Workers : W_Fails(w)

Sent == (given \ given') \cup {b \in Bufs : st[b] = "guest" /\ st'[b] = "codec"}

MCNext ==
  /\ CodecNext
  /\ (\E b \in Bufs : GuestUses(b)) => Unused
  /\ Sent # {} => lost = 0 /\ stuck = {}
  /\ "i2" \in Sent => input_buffers # <<>> /\ Fresh /\ cap_delay
  /\ "g2" \in Sent => mem_transfer_is_busy /\ Fresh /\ cap_delay
  /\ Sent \cap Inputs # {} => st["g2"] = "guest"
  /\ Three'
  /\ Failure => Fresh /\ cap_delay /\ st["g2"] = "guest" /\ ("i2" \in given \/ ~is_open)
MCSpec == CodecInit /\ [][MCNext]_codecvars /\ CodecFairness
===============================================================================

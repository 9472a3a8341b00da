-------------------------------- MODULE MCInput -------------------------------
(* Instances of TouchInput and Bridge for TLC: one device at a time, chosen *)
(* at the start, over the irq call and the input queue of DeviceIrq.        *)
EXTENDS TouchInput, Bridge

VARIABLE device       \* the bridge twice: while it transfers, while it ends

mcvars == <<inputvars, bridgevars, device>>
Others == <<context, buffer, rpc, then, thread, world>>

(* The bound of the touchscreen.  Once more than the left button has been  *)
(* in play the guest keeps the device closed and no change is followed:    *)
(* which fingers are held and how a change travels do not depend on each   *)
(* other, so the two are not multiplied.  Nothing happens any more once a  *)
(* finger may have strayed.                                                *)
LeftOnly ==
  /\ \A h \in Holders \ {"left"} : finger[h] = IF h \in Records THEN 0 ELSE -1
  /\ down \subseteq {"left"} /\ ~is_scrolling /\ screen.touch_cnt <= 1
  /\ now_record_index = "none" /\ finger_is_record = {} /\ blank = {}
DeviceClosed ==
  /\ guest = Kinds /\ ~open /\ ~more /\ ~kick /\ ~unread /\ ~robbed /\ ~should_stop
  /\ ~irq_enabled /\ irq_call = NULL
  /\ lpc = [t \in Threads |-> "out"]
  /\ tail = 0
  /\ change = "none"
TouchDevice ==
  /\ device = "touch"
  /\ InputNext /\ ~stray /\ (LeftOnly' \/ DeviceClosed')
  /\ UNCHANGED Others

(* The bounds of the bridge.  The machine does not shut down.  While the   *)
(* bridge transfers, the guest keeps the interrupts and the peer the       *)
(* connection; a context that is to end gets one byte or one connection at *)
(* most.                                                                   *)
BridgeTransfers ==
  /\ device = "bridge"
  /\ BridgeNext /\ ~should_stop' /\ (open => open') /\ UNCHANGED <<peer, tvars, ivars>>
BridgeEnds ==
  /\ device = "bridge ends"
  /\ BridgeNext /\ ~should_stop' /\ UNCHANGED <<tvars, ivars>>
  /\ rpc = "recv" /\ rpc' = "publish" => sent = 0 /\ todo'[1] = 1
  /\ rpc = "accept" /\ sent' # sent => sent = 0

(* Nothing is followed any further once a call is stranded in the queue.   *)
MCInit == InputInit /\ BridgeInit /\ device \in {"touch", "bridge", "bridge ends"}
MCNext == ~Stranded /\ (TouchDevice \/ BridgeTransfers \/ BridgeEnds) /\ UNCHANGED device
MCSpec == MCInit /\ [][MCNext]_mcvars /\ InputFairness /\ BridgeFairness
===============================================================================

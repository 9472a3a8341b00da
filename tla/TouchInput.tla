------------------------------ MODULE TouchInput ------------------------------
(***************************************************************************)
(* The way of a touch to the guest: the callbacks of the window thread M   *)
(* change the fingers (Touchscreen), sync_express_touchscreen_input writes *)
(* them to the buffer the guest has registered and interrupts the guest    *)
(* with the device's irq call (DeviceIrq), the guest's driver reads the    *)
(* buffer and registers the call again.  sync_express_keyboard_input is    *)
(* the same function over the keys.                                        *)
(***************************************************************************)
EXTENDS DeviceIrq, Touchscreen

M == "M"
ASSUME MAssumption == M \in Setters

VARIABLES
  sync,       \* where M is: at a poll, or in sync_express_touchscreen_input
  unread,     \* the guest has, or is about to get, an interrupt to answer
  change      \* history: some change of the screen that is followed

ivars == <<sync, unread, change>>
inputvars == <<vars, tvars, ivars>>

InputTypeOK ==
  /\ sync \in {"poll", "write", "irq", "swap", "send"}
  /\ unread \in BOOLEAN
  /\ change \in {"none", "made", "written"}

InputInit ==
  /\ Init /\ TouchInit
  /\ sync = "poll" /\ unread = FALSE /\ change = "none"

-------------------------------------------------------------------------------
(* Any change of the screen may be the one that is followed, one at a time.*)
Follow ==
  change' \in IF screen'.need_sync /\ change = "none" THEN {"none", "made"} ELSE {change}

(* A callback, from within glfwWaitEventsTimeout.                          *)
User ==
  /\ sync = "poll" /\ UserEvent /\ Follow
  /\ UNCHANGED <<vars, sync, unread>>

M_Poll(old) ==
  /\ sync = "poll" /\ Poll(old) /\ Follow
  /\ sync' = IF screen'.need_sync THEN "write" ELSE "poll"
  /\ UNCHANGED <<vars, unread>>

(* need_sync is cleared whatever became of the change.                     *)
Synced ==
  /\ sync' = "poll"
  /\ screen' = [screen EXCEPT !.need_sync = FALSE]
  /\ UNCHANGED <<finger, press, down, is_scrolling, records, stray>>

(* There is no interrupt for what is in the buffer: the change is dropped, *)
(* unless the guest has an earlier interrupt to answer yet.                *)
NoIrq ==
  /\ Synced
  /\ change' = IF unread /\ change = "written" THEN change ELSE "none"
  /\ UNCHANGED unread

(* Interrupts are off, or the display is (need_send): nothing is written.  *)
M_Skip(need_send) ==
  /\ sync = "write" /\ ~(irq_enabled /\ need_send)
  /\ NoIrq
  /\ UNCHANGED vars

(* Mutant: nothing is written when no finger touches the screen any more.  *)
M_WriteTouched ==
  /\ sync = "write" /\ irq_enabled
  /\ sync' = "irq"
  /\ change' = IF change = "made" /\ screen.touched # {} THEN "written" ELSE change
  /\ UNCHANGED <<vars, tvars, unread>>

(* The fingers are copied to the guest's buffer.                           *)
M_Write ==
  /\ sync = "write" /\ irq_enabled
  /\ sync' = "irq"
  /\ change' = IF change = "made" THEN "written" ELSE change
  /\ UNCHANGED <<vars, tvars, unread>>

(* set_express_device_irq, whose result is not looked at.                  *)
M_NotEnabled ==
  /\ sync = "irq" /\ ~irq_enabled
  /\ NoIrq
  /\ UNCHANGED vars

M_Check ==
  /\ sync = "irq" /\ S_Check(M)
  /\ sync' = "swap"
  /\ UNCHANGED <<tvars, unread, change>>

M_Swap ==
  /\ sync = "swap" /\ S_Swap(M)
  /\ IF irq_call = CALL
     THEN sync' = "send" /\ unread' = TRUE /\ UNCHANGED <<tvars, change>>
     ELSE NoIrq

M_Send ==
  /\ sync = "send" /\ S_Send(M)
  /\ UNCHANGED <<tvars, ivars>>

M_Sent ==
  /\ sync = "send" /\ S_Sent(M)
  /\ Synced
  /\ UNCHANGED <<unread, change>>

sync_express_touchscreen_input ==
  \/ \E old \in SUBSET TouchIds : M_Poll(old)
  \/ M_Skip(TRUE) \/ M_Write \/ M_NotEnabled \/ M_Check \/ M_Swap \/ M_Send \/ M_Sent

-------------------------------------------------------------------------------
(* The guest's driver (external) reads the buffer on a real interrupt and  *)
(* only then registers the call again.                                     *)
GuestRead ==
  /\ "register" \in guest /\ more /\ unread
  /\ unread' = FALSE
  /\ change' = IF change = "written" THEN "none" ELSE change
  /\ UNCHANGED <<vars, tvars, sync>>

GuestRegisters ==
  /\ GuestRegister /\ ~(more /\ unread)
  /\ UNCHANGED <<tvars, ivars>>

Host(t) ==
  /\ L_Enter(t) \/ register_input_buffer_call(t)
  /\ UNCHANGED <<tvars, ivars>>

InputNext ==
  \/ User \/ sync_express_touchscreen_input \/ M_Skip(FALSE)
  \/ GuestRead \/ GuestRegisters
  \/ (GuestRelease \/ Shutdown) /\ UNCHANGED <<tvars, ivars>>
  \/ \E t \in Threads : Host(t)

(* The window thread polls, a host thread that has begun finishes, and the *)
(* guest answers an interrupt; nobody need touch the screen, and the guest *)
(* need not register again.                                                *)
InputFairness ==
  /\ \A t \in Threads : WF_inputvars(Host(t))
  /\ WF_inputvars(sync_express_touchscreen_input)
  /\ WF_inputvars(GuestRead)

InputSpec == InputInit /\ [][InputNext]_inputvars

-------------------------------------------------------------------------------
(* The guest reads every change of the screen although data and interrupt *)
(* travel apart and the irq call is often under way; unless the change was *)
(* dropped, need_sync being cleared also when the call was not back yet,   *)
(* the call is stranded in the queue, or the machine shuts down.           *)
ChangeReachesGuest == []<>(change = "none" \/ should_stop \/ Stranded)
===============================================================================

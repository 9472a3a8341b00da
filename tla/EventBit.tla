------------------------------- MODULE EventBit -------------------------------
(***************************************************************************)
(* The bit of the event both threads of the ring of calls sleep on,        *)
(* data_event.  CallRing takes and sets it in one step each, ExpressEvent  *)
(* under its mutex.                                                        *)
(***************************************************************************)
VARIABLE signal_state
===============================================================================

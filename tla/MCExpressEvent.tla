---------------------------- MODULE MCExpressEvent ----------------------------
(* An event by itself, as the input thread and the setters of input_event   *)
(* use it: each wait lasts at most some milliseconds.                       *)
EXTENDS ExpressEvent
===============================================================================

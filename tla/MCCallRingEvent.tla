--------------------------- MODULE MCCallRingEvent ----------------------------
(* Instances of CallRingEvent for TLC.                                      *)
EXTENDS CallRingEvent

(* tv_usec at the start and near the end of a second; 0xffffffff           *)
(* milliseconds, of which only the 295 beyond whole seconds matter.        *)
MCMicros == {0, 999000}
MCMillis == {295}
===============================================================================

------------------------------ MODULE MCCallRing ------------------------------
(* Instances of CallRing for TLC.                                           *)
EXTENDS CallRing
===============================================================================

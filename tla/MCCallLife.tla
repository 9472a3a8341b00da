------------------------------ MODULE MCCallLife ------------------------------
(* Instances of CallLife for TLC.                                           *)
EXTENDS CallLife
===============================================================================

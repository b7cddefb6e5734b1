------------------------------ MODULE MCResume ------------------------------
(* Resume on small instances, for TLC.                                     *)
EXTENDS Resume
=============================================================================

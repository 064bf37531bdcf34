------------------------------ MODULE MCSyserr ------------------------------
(* Instances of Syserr for TLC.                                             *)
EXTENDS Syserr
=============================================================================

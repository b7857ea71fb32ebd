---------------------------- MODULE MCVideoCall ----------------------------
(* Bounds for VideoCall: two page loads.  There is no symmetry, because the *)
(* run checks temporal properties.                                          *)
EXTENDS VideoCall
=============================================================================

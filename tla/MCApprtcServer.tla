--------------------------- MODULE MCApprtcServer ---------------------------
(* Bounds for ApprtcServer: three page loads meet in one room.  There is no *)
(* symmetry, because the run checks temporal properties.                   *)
EXTENDS ApprtcServer
=============================================================================

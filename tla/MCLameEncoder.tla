--------------------------- MODULE MCLameEncoder ---------------------------
(* Small frames and a short ring for LameEncoder; samples at their real size. *)
EXTENDS LameEncoder

Bytes == <<3, 5>>
Used == {0, 21}
=============================================================================

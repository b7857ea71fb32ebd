--------------------------- MODULE MCCallBlocker ---------------------------
(* Bounds for CallBlocker: two calls, so that one can ring while the thread *)
(* of the other is at work, and up to two listeners.                        *)
EXTENDS CallBlocker, TLC

Symmetry == Permutations(Calls)
=============================================================================

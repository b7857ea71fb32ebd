---------------------------- MODULE MCSpyServer ----------------------------
(* Bounds for SpyServer: three page loads of one room on one or two threads. *)
EXTENDS SpyServer

\* User ids and threads are interchangeable: the invariants name none of them.
Symmetry == Permutations(Users) \cup Permutations(Threads)
=============================================================================

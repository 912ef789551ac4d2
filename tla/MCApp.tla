-------------------------------- MODULE MCApp -------------------------------
(***************************************************************************)
(* A small instance of App: two threads, four requests, and three cache    *)
(* keys for a cache of two entries.  Every key finds all documents that    *)
(* there are, so that the first searches find none.                        *)
(*                                                                         *)
(* Threads and keys are symmetric: the one CHOOSE among them is in Init,   *)
(* for the value a thread's key has before its first call.                 *)
(***************************************************************************)
EXTENDS App, TLC

CONSTANTS t1, t2, k1, k2, k3

MCValues == SUBSET Docs

MCMatching(k, docs) == docs

Symmetry == Permutations({t1, t2}) \cup Permutations({k1, k2, k3})
=============================================================================

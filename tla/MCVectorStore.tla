---------------------------- MODULE MCVectorStore ---------------------------
(***************************************************************************)
(* A small instance of VectorStore: chunks 1 and 2 of document "d1",       *)
(* chunk 3 of "d2"; vectors are numbers, more alike the closer they are.   *)
(***************************************************************************)
EXTENDS VectorStore

MCDocOf == <<"d1", "d1", "d2">>

MCSim(v, w) == 10 - (IF v > w THEN v - w ELSE w - v)

C(i, x, v) == [id |-> i, text |-> x, vec |-> v]

MCBatches == { << C(1, "x", 1), C(2, "x", 2) >>,
               << C(1, "y", 3), C(2, "y", 99), C(3, "y", 1) >>,
               << C(3, "x", 1) >> }

Q(v, k, a, l) == [vec |-> v, top |-> k, allowed |-> a, least |-> l]

MCQueries == { Q(1, 1, {1, 2, 3}, 0), Q(3, 2, {1, 2, 3}, 9), Q(2, 2, {1, 3}, 0),
               Q(99, 1, {1, 2, 3}, 0) }
=============================================================================

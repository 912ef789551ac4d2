--------------------------- MODULE MCPgVectorStore --------------------------
(* A small instance of PgVectorStore: "d1" is added in two versions that       *)
(* share their first chunk and differ in the others and in their number, and  *)
(* "d2" with a second vector that does not fit.                                *)
EXTENDS PgVectorStore

B(d, s, x, n) == [doc |-> d, ids |-> s, text |-> x, bad |-> n]

MCBatches == { B("d1", <<1, 2>>, "x", 0), B("d1", <<1, 5, 6>>, "y", 0), B("d2", <<3, 4>>, "x", 2) }
=============================================================================

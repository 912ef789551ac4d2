----------------------------- MODULE MCAnswering ----------------------------
(* A small instance of Answering.  The lists reach each limit of the context: *)
(* 4 chunks, 24 characters, 7 tokens, a first chunk that is too long, and a   *)
(* duplicate before and after it.  Chunk 9 is made up.                        *)
EXTENDS Answering

MCChars == <<4, 10, 6, 12, 1, 2, 14, 30>>
MCOverlap == <<0, 2, 1, 1, 0, 1, 2, 1>>

MCLists == { <<1, 5, 6, 3, 2>>, <<2, 4, 3, 1>>, <<7, 3, 5, 6>>, <<8, 3>>, <<1, 1, 3>>,
             <<2, 8, 2>>, <<5, 8, 5, 2>> }

MCTexts == { <<>>, <<9>>, <<1, 9, 1>>, <<3, 6, 1, 5>>, <<9, 8, 7, 9>> }
=============================================================================

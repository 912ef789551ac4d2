---------------------------- MODULE MCEvaluation ----------------------------
(* A small instance of Evaluation: five chunks of two documents, of which the *)
(* two indexes think differently, and queries with equal and negative scores. *)
EXTENDS Evaluation

MCTitle == [c \in Chunks |-> IF c <= 2 THEN "rag" ELSE "bm25"]
MCWords == [c \in Chunks |-> IF c = 1 THEN {"rag", "index"} ELSE IF c = 2 THEN {"rag"} ELSE {"index"}]
MCQueryWords == ("rag" :> {"rag", "what"}) @@ ("index" :> {"index"})
MCDense == ("rag" :> <<7, 9, 2, 7, 8>>) @@ ("index" :> <<4, 4, 4, 4, 4>>)
MCBm25 == ("rag" :> <<3, 1, 0, 3, 2>>) @@ ("index" :> <<-2, -1, 5, -2, 1>>)
MCGain == <<10000, 6309, 5000>>

C(query, chunks, titles, expected, keywords) ==
    [query |-> query, chunks |-> chunks, titles |-> titles, expected |-> expected, keywords |-> keywords,
     lacks |-> "nothing"]
Lacking(case, what) == [case EXCEPT !.lacks = what]

MCCaseLists == {
    <<>>,
    << C("rag", <<>>, <<"rag">>, {}, {"rag", "index"}), C("rag", <<2, 3>>, <<>>, {"what", "rag"}, {}) >>,
    << C("index", <<4, 4>>, <<"rag">>, {}, {}), C("rag", <<>>, <<"bm25", "rag">>, {}, {"index"}) >>,
    << C("index", <<>>, <<>>, {}, {}), Lacking(C("rag", <<>>, <<>>, {}, {}), "chunks") >>,
    << Lacking(C("index", <<>>, <<"rag">>, {}, {}), "chunks"),
       Lacking(C("rag", <<1>>, <<>>, {}, {}), "query") >> }
MCConfigurations == {"memory", "pgvector"} \X {"linear", "rrf"}
=============================================================================

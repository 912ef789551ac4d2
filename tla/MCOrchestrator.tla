--------------------------- MODULE MCOrchestrator ---------------------------
(* Small instances of Orchestrator: text "rag" is near to the query "rag",   *)
(* "note" is far from it and "misfit" farther.                               *)
EXTENDS Orchestrator, TLC

Single(item) == [route |-> "/documents", items |-> <<item>>]
Batch(items) == [route |-> "/documents/batch", items |-> items]

Offline == { <<"memory", "mock">> }
Hosted == { <<"memory", "openai">> }
MCConfigurations == Hosted \cup { <<"pgvector", "mock">> }

Swap == Permutations(Threads)

MCUploads == { Single("misfit"), Batch(<<"broken", "unembeddable">>), Batch(<<"rag", "note">>) }

S(text, least, methods) == [text |-> text, least |-> least, methods |-> methods, top |-> 1]

Both == {"dense", "lexical"}
AnyThreshold == { S("rag", 0, {"dense"}), S("rag", 5, {"dense"}) }
MCRequests == AnyThreshold \cup { S("rag", 0, {"lexical"}), S("rag", 0, Both) }

MCSim(q, x) == IF q = x THEN 9 ELSE IF x = "note" THEN 1 ELSE 0
=============================================================================

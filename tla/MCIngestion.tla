---------------------------- MODULE MCIngestion -----------------------------
(* Small instances of Ingestion: every text of up to Longest characters, a    *)
(* few longer ones, and batches with each kind of item that cannot be loaded. *)
EXTENDS Ingestion

CONSTANT Longest

MCBlanks == {" ", "\n"}
MCNewLine == "\n"
Letter == {"a", "A", ".", " ", "\n"}
MCCharacters == Letter \cup {"b", "c", "d", "e", "f", "g", "h", "i", "j", "k", "m", "p", "B", "D", "T",
                             "{", "}", ":"}

Raw(text) == [form |-> "text", utf8 |-> TRUE, size |-> Len(text), text |-> text]
Json(value) == [form |-> "json", utf8 |-> TRUE, size |-> 4, text |-> <<"j">>, json |-> value]
Pdf(pages) == [form |-> "pdf", utf8 |-> FALSE, size |-> 4, text |-> <<"p">>, pages |-> pages]
Broken(text) == [Raw(text) EXCEPT !.utf8 = FALSE]

Plain(text) == [kind |-> "text", type |-> "text/plain", raw |-> Raw(text)]
Bytes(type, raw) == [kind |-> "bytes", type |-> type, raw |-> raw]
File(suffix, raw) == [kind |-> "file", suffix |-> suffix, raw |-> raw, exists |-> TRUE, safe |-> TRUE]

Leaf(text) == [is |-> "leaf", text |-> text]
Inner == [is |-> "list", values |-> <<Leaf(<<"c">>)>>]
Outer == [is |-> "list", values |-> <<Leaf(<<"b">>), Inner>>]
Tree == [is |-> "dict", keys |-> <<<<"k">>, <<"m">>>>, values |-> <<Leaf(<<"a">>), Outer>>]

MCJsonValues == {Leaf(<<c>>) : c \in {"a", "b", "c"}} \cup {Inner, Outer, Tree}
MCNesting == [v \in MCJsonValues |-> CASE v = Tree -> 3 [] v = Outer -> 2 [] v = Inner -> 1 [] OTHER -> 0]

AB == <<"a", "b">>
Sentences == <<"A", ".", " ", "B", "b", ".", "\n", "A", "c", "d", "e", ".", " ", " ", "D", ".">>
Words == <<"a", "b", " ", "c", "\n", "\n", "d", "e", "f", "g", "h", ".", " ", "i", "j">>
Run == <<"a", "b", "c", "d", "e", "f", "g", "h", "i", "j">>

Html == <<"T", "a", "T", " ", "b", "T">>

Mixed == {
    << Plain(AB), Bytes("text/plain", Broken(AB)), Plain(Words) >>,
    << [kind |-> "url", raw |-> Raw(AB), type |-> "text/plain"], Bytes("application/octet-stream", Broken(AB)) >>,
    << File(".txt", Raw(AB)), File(".md", Raw(Run)), File(".json", Raw(AB)) >>,
    << [File(".txt", Raw(AB)) EXCEPT !.exists = FALSE], [File(".txt", Raw(AB)) EXCEPT !.safe = FALSE], Plain(AB) >>,
    << Bytes("application/json", Json(Tree)), Bytes("text/html", Raw(Html)),
       Bytes("application/pdf", Pdf(<<[readable |-> TRUE, text |-> AB], [readable |-> FALSE],
                                      [readable |-> TRUE, text |-> Run]>>)) >>,
    << Plain([i \in 1..MaxBytes |-> "a"]), Plain([i \in 1..(MaxBytes + 1) |-> "a"]), Plain(AB) >>,
    << Bytes("application/pdf", Raw(AB)), Bytes("text/html", Raw(<<"T", " ">>)), Plain(<<" ">>) >> }

Uploaded == { <<File(".txt", Raw(AB))>>, <<File(".md", Raw(Sentences))>>, <<File(".pdf", Raw(AB))>>,
              <<File(".txt", Raw([i \in 1..(MaxBytes + 1) |-> "a"]))>> }

MCBatches == {<<>>} \cup {<<Plain(t)>> : t \in UNION {[1..n -> Letter] : n \in 0..Longest}}
             \cup {<<Plain(Sentences)>>, <<Plain(Words)>>, <<Plain(Run)>>} \cup Mixed \cup Uploaded

Setup(caller, provider, strategy, size, overlap) ==
    [caller |-> caller, provider |-> provider, store |-> "memory", strategy |-> strategy,
     size |-> size, overlap |-> overlap]
Database(s) == [s EXCEPT !.store = "pgvector"]

MCSetups == {
    Setup("ingest_many", "mock", "fixed", 3, 1), Setup("ingest_many", "mock", "fixed", 2, 0),
    Setup("ingest_many", "mock", "sentence", 5, 1), Setup("ingest_many", "mock", "sentence", 3, 0),
    Setup("ingest_many", "mock", "recursive", 2, 0), Setup("ingest_many", "mock", "recursive", 4, 2),
    Setup("ingest_documents", "mock", "recursive", 3, 1), Setup("ingest_documents", "openai", "recursive", 4, 1),
    Database(Setup("ingest_documents", "mock", "recursive", 4, 1)),
    Setup("ingest_upload", "mock", "recursive", 3, 1), Setup("ingest_upload", "openai", "recursive", 3, 1) }
=============================================================================

--------------------------- MODULE OrchestratorProofs --------------------------
(***************************************************************************)
(* Proofs about RAGOrchestrator for any number of threads, requests, items *)
(* and failures: the variables keep their types and a document id has one  *)
(* text, a lexical hit has its vectors, what is acknowledged stays         *)
(* searchable, a bad item of a batch touches no other, a search that does  *)
(* not use the cache misses nothing, and documents are counted once.       *)
(***************************************************************************)
EXTENDS Orchestrator, FiniteSetTheorems, TLAPS

\* Where a thread is while it serves an upload: the document of an item is under way
\* in the last four places of the loop.
Active == {"embed", "store", "index", "success"}
Loop == {"load"} \cup Active

\* Where it is while it does not.
Outside == {"idle", "search", "query", "search dense", "query dense", "search lexical",
            "query lexical", "search fill", "query fill", "search done", "query done"}

\* The types of all variables.
Shapes ==
    /\ vectors \subseteq Documents /\ lexical \subseteq Documents
    /\ acked \subseteq Documents /\ before \subseteq acked
    /\ \A k \in DOMAIN cached : cached[k] \subseteq Documents
    /\ ingested \in Nat /\ created \in Nat
    /\ pc \in [Threads -> Outside \cup Loop \cup {"respond"}]
    /\ upload \in [Threads -> Uploads]
    /\ results \in [Threads -> Seq(Results)]
    /\ doc \in [Threads -> Documents \cup {NoDoc}]
    /\ request \in [Threads -> Requests]
    /\ found \in [Threads -> SUBSET Documents] /\ fresh \in [Threads -> BOOLEAN]
    /\ expected \in [Threads -> SUBSET Documents]
    /\ reply = [v \in Threads |-> reply[v]]
    /\ calls \in 0..MaxCalls /\ failures \in 0..MaxFailures /\ restarts \in 0..MaxRestarts

\* The stores: every id was drawn before, names one document, and the lexical index
\* holds nothing that the vector store lacks.
StoresInv ==
    /\ \A d \in vectors : d.id <= created
    /\ \A d, e \in vectors : d.id = e.id => d = e
    /\ LexicalHasVectors
    /\ AckedIsSearchable

\* How far the thread's upload is: one result per finished item, and the current
\* document is in the stores it has passed and in no other.
Progress(t) ==
    /\ pc[t] \in Outside => results[t] = <<>>
    /\ pc[t] \in Loop => Len(results[t]) < Len(upload[t].items)
    /\ pc[t] = "respond" => Len(results[t]) = Len(upload[t].items)
    /\ pc[t] \in Active => /\ doc[t] \in Documents /\ doc[t].id <= created
                           /\ Item(t) \notin Unloadable
    /\ pc[t] \in {"embed", "store"} => \A d \in vectors : d.id # doc[t].id
    /\ pc[t] = "index" => /\ doc[t] \in vectors
                          /\ \A d \in lexical : d.id # doc[t].id
    /\ pc[t] = "success" => doc[t] \in lexical
    /\ pc[t] \in Active \ {"embed"} => ~Rejected(Item(t))
    /\ pc[t] \in {"index", "success"} => ~Misfits(Item(t))

\* No two threads work on one id.
Distinct == \A t, u \in Threads :
               t # u /\ pc[t] \in Active /\ pc[u] \in Active => doc[t].id # doc[u].id

\* Results are right: a success is a document of the lexical index, and the id of a
\* failure will never be one.
RightResult(item, r) ==
    /\ r.id \in 0..created
    /\ r.ok <=> \E d \in lexical : d.id = r.id
    /\ ~r.ok => \A u \in Threads : pc[u] \in Active => doc[u].id # r.id
    /\ store = "memory" => (r.ok <=> item \notin Unloadable /\ ~Unfit(item))
Right(items, rs) == \A i \in DOMAIN rs : RightResult(items[i], rs[i])

RightReply(r) ==
    r.kind = "ingest" => /\ r.upload \in Uploads /\ r.results \in Seq(Results)
                         /\ Len(r.results) = Len(r.upload.items)
                         /\ Right(r.upload.items, r.results)

OrchInv == /\ Shapes
           /\ StoresInv
           /\ \A t \in Threads : Progress(t)
           /\ Distinct
           /\ \A t \in Threads : Right(upload[t].items, results[t])
           /\ \A t \in Threads : RightReply(reply[t])

LEMMA OrchInvInit == Init => OrchInv
<1> SUFFICES ASSUME Init PROVE OrchInv
  OBVIOUS
<1>1. SomeUpload \in Uploads /\ SomeRequest \in Requests
  BY OrchestratorAssumption DEF OrchestratorAssumption, SomeUpload, SomeRequest
<1>2. MaxCalls \in Nat /\ MaxFailures \in Nat /\ MaxRestarts \in Nat
  BY OrchestratorAssumption DEF OrchestratorAssumption
<1>3. Shapes
  BY <1>1, <1>2 DEF Init, EachThread, Shapes, Outside, Loop
<1>4. StoresInv
  BY DEF Init, StoresInv, LexicalHasVectors, AckedIsSearchable
<1>5. ASSUME NEW t \in Threads PROVE Progress(t) /\ Right(upload[t].items, results[t])
  BY DEF Init, EachThread, Progress, Outside, Loop, Active, Right
<1>6. Distinct
  BY DEF Init, EachThread, Distinct, Active
<1>7. ASSUME NEW t \in Threads PROVE RightReply(reply[t])
  BY DEF Init, EachThread, RightReply, NoReply
<1>. QED
  BY <1>3, <1>4, <1>5, <1>6, <1>7 DEF OrchInv

-----------------------------------------------------------------------------
\* What a thread that serves a search leaves alone.
Searching(t) ==
    /\ UNCHANGED <<vectors, lexical, ingested, upload, results, doc, acked, before, created>>
    /\ UNCHANGED settings
    /\ pc[t] \in Outside /\ pc'[t] \in Outside /\ pc' = [pc EXCEPT ![t] = pc'[t]]
    /\ reply' = [reply EXCEPT ![t] = reply'[t]]
    /\ reply'[t] = reply[t] \/ reply'[t].kind # "ingest"

\* The shapes of what a search changes.
SearchShapes == /\ \A k \in DOMAIN cached : cached[k] \subseteq Documents
                /\ request \in [Threads -> Requests]
                /\ found \in [Threads -> SUBSET Documents] /\ fresh \in [Threads -> BOOLEAN]
                /\ expected \in [Threads -> SUBSET Documents]
                /\ reply = [v \in Threads |-> reply[v]]
                /\ calls \in 0..MaxCalls /\ failures \in 0..MaxFailures
                /\ restarts \in 0..MaxRestarts

\* Results stay right when the lexical index and the source of ids stay as they are
\* and no thread takes up a document.
LEMMA RightStays ==
    ASSUME UNCHANGED settings, UNCHANGED <<lexical, created>>,
           \A u \in Threads : pc'[u] \in Active => pc[u] \in Active /\ doc'[u] = doc[u]
    PROVE  \A items, rs : Right(items, rs) => Right(items, rs)'
BY DEF settings, Right, RightResult, Unfit, Rejected, Misfits

LEMMA SearchingKeeps ==
    ASSUME OrchInv, NEW t \in Threads, Searching(t), SearchShapes'
    PROVE  OrchInv'
<1>1. Shapes'
  BY DEF OrchInv, Shapes, SearchShapes, Searching
<1>2. StoresInv'
  BY DEF OrchInv, StoresInv, LexicalHasVectors, AckedIsSearchable, Searching
<1>3. pc \in [Threads -> Outside \cup Loop \cup {"respond"}]
  BY DEF OrchInv, Shapes
<1>4. Outside \cap Active = {} /\ Outside \cap Loop = {} /\ "respond" \notin Outside
  BY DEF Outside, Loop, Active
<1>5. ASSUME NEW u \in Threads PROVE Progress(u)'
  <2>1. Progress(u)
    BY DEF OrchInv
  <2>2. CASE u = t
    BY <2>1, <2>2, <1>3, <1>4 DEF Progress, Searching, Active, Loop
  <2>3. CASE u # t
    BY <2>1, <2>3, <1>3 DEF Progress, Searching, Item, Rejected, Misfits, settings
  <2>. QED
    BY <2>2, <2>3
<1>6. \A u \in Threads : pc'[u] \in Active => pc[u] \in Active /\ doc'[u] = doc[u]
  BY <1>3, <1>4 DEF Searching
<1>7. Distinct'
  BY <1>6 DEF OrchInv, Distinct, Searching
<1>8. \A items, rs : Right(items, rs) => Right(items, rs)'
  BY <1>6, RightStays DEF Searching
<1>9. ASSUME NEW u \in Threads PROVE Right(upload[u].items, results[u])'
  <2>1. PICK items, rs : items = upload[u].items /\ rs = results[u]
    OBVIOUS
  <2>2. Right(items, rs)'
    BY <1>8, <2>1 DEF OrchInv
  <2>3. upload'[u].items = items /\ results'[u] = rs
    BY <2>1 DEF Searching
  <2>. QED
    BY <2>2, <2>3 DEF Right, RightResult
<1>10. ASSUME NEW u \in Threads PROVE RightReply(reply[u])'
  <2>1. RightReply(reply[u]) /\ reply = [v \in Threads |-> reply[v]]
    BY DEF OrchInv, Shapes
  <2>2. CASE reply'[u].kind # "ingest"
    BY <2>2 DEF RightReply
  <2>3. CASE reply'[u] = reply[u] /\ reply'[u].kind = "ingest"
    <3>1. PICK a : a = reply[u]
      OBVIOUS
    <3>2. Right(a.upload.items, a.results)
      BY <2>1, <2>3, <3>1 DEF RightReply
    <3>3. Right(a.upload.items, a.results)'
      BY <1>8, <3>2
    <3>4. reply'[u] = a
      BY <2>3, <3>1
    <3>. QED
      BY <2>1, <2>3, <3>1, <3>3, <3>4 DEF RightReply, Right, RightResult
  <2>. QED
    BY <2>1, <2>2, <2>3 DEF Searching
<1>. QED
  BY <1>1, <1>2, <1>5, <1>7, <1>9, <1>10 DEF OrchInv

\* The replies stay a function of the threads.
LEMMA ReplyShape ==
    ASSUME OrchInv, NEW t \in Threads, reply' = [reply EXCEPT ![t] = reply'[t]]
    PROVE  reply' = [u \in Threads |-> reply'[u]]
<1>1. reply = [u \in Threads |-> reply[u]]
  BY DEF OrchInv, Shapes
<1>. QED
  BY <1>1

\* The three kinds of steps of a search.
LEMMA CallSearchIsSearching ==
    ASSUME OrchInv, UNCHANGED settings, NEW t \in Threads, NEW r \in Requests,
           NEW route \in {"/search", "/query"}, CallSearch(t, r, route)
    PROVE  Searching(t) /\ SearchShapes'
<1>1. MaxCalls \in Nat /\ MaxFailures \in Nat /\ MaxRestarts \in Nat
  BY OrchestratorAssumption DEF OrchestratorAssumption
<1>2. Shapes
  BY DEF OrchInv
<1>3. reply' = [u \in Threads |-> reply'[u]]
  BY <1>2, ReplyShape DEF Shapes, CallSearch, NoReply
<1>4. SearchShapes'
  BY <1>1, <1>2, <1>3 DEF SearchShapes, Shapes, CallSearch, NewCall, stores
<1>5. Searching(t)
  BY <1>2 DEF Shapes, CallSearch, NewCall, Searching, NoReply, Outside, stores, ingesting,
              history
<1>. QED
  BY <1>4, <1>5

\* Hits and candidates are documents that were added.
LEMMA DenseHitsAreThere ==
    ASSUME NEW r, NEW T \in DenseHits(r)
    PROVE  T \subseteq vectors
BY DEF DenseHits, BestOf

LEMMA FusedAreThere ==
    ASSUME NEW r, NEW D, D \subseteq Documents, lexical \subseteq Documents,
           NEW H \in LexicalHits(r), NEW F \in Fused(r, D, H)
    PROVE  F \subseteq Documents
<1>1. H \subseteq Documents
  BY DEF LexicalHits
<1>2. F \subseteq D \cup H
  BY DEF Fused, BestOf
<1>. QED
  BY <1>1, <1>2

LEMMA RetrieveIsSearching ==
    ASSUME OrchInv, UNCHANGED settings, NEW t \in Threads, RetrieveStep(t)
    PROVE  Searching(t) /\ SearchShapes'
<1>1. MaxCalls \in Nat /\ MaxFailures \in Nat /\ MaxRestarts \in Nat
      /\ SomeRequest \in Requests
  BY OrchestratorAssumption DEF OrchestratorAssumption, SomeRequest
<1>2. Shapes
  BY DEF OrchInv
<1>3. CASE GetCached(t)
  <2>1. SearchShapes'
    BY <1>1, <1>2, <1>3 DEF SearchShapes, Shapes, GetCached, stores, bounds
  <2>2. Searching(t)
    BY <1>2, <1>3 DEF Shapes, GetCached, Advance, Goto, Begin, Dense, Done, Searching, Outside,
                      stores, ingesting, history, bounds
  <2>. QED
    BY <2>1, <2>2
<1>4. CASE SearchDense(t)
  <2>1. found' \in [Threads -> SUBSET Documents]
    <3>1. /\ found \in [Threads -> SUBSET Documents] /\ vectors \subseteq Documents
          /\ \/ found' = found
             \/ \E T \in DenseHits(request[t]) : found' = [found EXCEPT ![t] = T]
      BY <1>2, <1>4 DEF Shapes, SearchDense
    <3>. QED
      BY <3>1, DenseHitsAreThere
  <2>2. SearchShapes'
    BY <1>1, <1>2, <1>4, <2>1 DEF SearchShapes, Shapes, SearchDense, stores, bounds
  <2>3. Searching(t)
    BY <1>2, <1>4 DEF Shapes, SearchDense, Advance, Goto, Lexical, Dense, Searching, Outside,
                      stores, ingesting, history, bounds
  <2>. QED
    BY <2>2, <2>3
<1>5. CASE SearchLexical(t)
  <2>1. found' \in [Threads -> SUBSET Documents]
    <3>1. /\ found \in [Threads -> SUBSET Documents] /\ lexical \subseteq Documents
          /\ \E H \in LexicalHits(request[t]) : \E F \in Fused(request[t], found[t], H) :
                found' = [found EXCEPT ![t] = F]
      BY <1>2, <1>5 DEF Shapes, SearchLexical
    <3>2. PICK H \in LexicalHits(request[t]) : \E F \in Fused(request[t], found[t], H) :
             found' = [found EXCEPT ![t] = F]
      BY <3>1
    <3>3. PICK F \in Fused(request[t], found[t], H) : found' = [found EXCEPT ![t] = F]
      BY <3>2
    <3>4. F \subseteq Documents
      BY <3>1, FusedAreThere
    <3>. QED
      BY <3>1, <3>3, <3>4
  <2>2. SearchShapes'
    BY <1>1, <1>2, <1>5, <2>1 DEF SearchShapes, Shapes, SearchLexical, stores, bounds
  <2>3. Searching(t)
    BY <1>2, <1>5 DEF Shapes, SearchLexical, Advance, Goto, Lexical, Fill, Done, Searching,
                      Outside, stores, ingesting, history, bounds
  <2>. QED
    BY <2>2, <2>3
<1>6. CASE FillCache(t)
  <2>1. SearchShapes'
    BY <1>1, <1>2, <1>6 DEF SearchShapes, Shapes, FillCache, searching, bounds
  <2>2. Searching(t)
    BY <1>2, <1>6 DEF Shapes, FillCache, Advance, Goto, Fill, Done, Searching,
                      Outside, ingesting, history, bounds
  <2>. QED
    BY <2>1, <2>2
<1>7. CASE \E exception \in Exceptions : RetrieveFails(t, exception)
  <2>1. PICK exception \in Exceptions : RetrieveFails(t, exception)
    BY <1>7
  <2>2. reply' = [u \in Threads |-> reply'[u]]
    BY <1>2, <2>1, ReplyShape DEF Shapes, RetrieveFails, Finish
  <2>3. failures' \in 0..MaxFailures
    BY <1>1, <1>2, <2>1 DEF Shapes, RetrieveFails, ServiceFails
  <2>4. SearchShapes'
    BY <1>1, <1>2, <2>1, <2>2, <2>3 DEF SearchShapes, Shapes, RetrieveFails, Finish, stores
  <2>5. Searching(t)
    BY <1>2, <2>1 DEF Shapes, RetrieveFails, Exceptions, Finish, Advance, Goto, Dense,
                      Searching, Outside, stores, ingesting, history
  <2>. QED
    BY <2>4, <2>5
<1>8. CASE LexicalFails(t)
  <2>1. reply' = [u \in Threads |-> reply'[u]]
    BY <1>2, <1>8, ReplyShape DEF Shapes, LexicalFails, Finish
  <2>2. SearchShapes'
    BY <1>1, <1>2, <1>8, <2>1 DEF SearchShapes, Shapes, LexicalFails, Finish, stores, bounds
  <2>3. Searching(t)
    BY <1>2, <1>8 DEF Shapes, LexicalFails, Finish, Advance, Goto, Lexical,
                      Searching, Outside, stores, ingesting, history, bounds
  <2>. QED
    BY <2>2, <2>3
<1>. QED
  BY <1>3, <1>4, <1>5, <1>6, <1>7, <1>8 DEF RetrieveStep

LEMMA AnswerIsSearching ==
    ASSUME OrchInv, UNCHANGED settings, NEW t \in Threads, AnswerStep(t)
    PROVE  Searching(t) /\ SearchShapes'
<1>1. SomeRequest \in Requests
  BY OrchestratorAssumption DEF OrchestratorAssumption, SomeRequest
<1>2. Shapes
  BY DEF OrchInv
<1>3. PICK kind \in {"found", "insufficient", "answer", "error"} :
         /\ Goto(t, "search done", "idle") \/ Goto(t, "query done", "idle")
         /\ Answer(t, kind)
         /\ UNCHANGED <<stores, ingested, ingesting, history, bounds>>
  BY DEF AnswerStep, ReturnSearch, AnswerWithoutEvidence, Generate
<1>4. SearchShapes'
  BY <1>1, <1>2, <1>3 DEF SearchShapes, Shapes, Answer, Finish, stores, bounds
<1>5. Searching(t)
  BY <1>2, <1>3 DEF Shapes, Answer, Finish, Goto, Searching, Outside, stores, ingesting,
                    history, bounds
<1>. QED
  BY <1>4, <1>5

-----------------------------------------------------------------------------
\* What a step of thread t on its upload may change: its own variables, its document
\* in the stores, and the source of ids when it takes up a new document.
Ingesting(t) ==
    /\ UNCHANGED settings
    /\ pc' = [pc EXCEPT ![t] = pc'[t]] /\ upload' = [upload EXCEPT ![t] = upload'[t]]
    /\ results' = [results EXCEPT ![t] = results'[t]] /\ doc' = [doc EXCEPT ![t] = doc'[t]]
    /\ reply' = [reply EXCEPT ![t] = reply'[t]]
    /\ vectors' \in {vectors, vectors \cup {doc[t]}}
    /\ lexical' \in {lexical, lexical \cup {doc[t]}}
    /\ vectors' # vectors \/ lexical' # lexical => pc[t] \in Active
    /\ created' \in {created, created + 1}
    /\ pc'[t] \in Active => \/ pc[t] \in Active /\ doc'[t] = doc[t]
                            \/ doc'[t].id = created + 1 /\ created' = created + 1

\* What was right stays right: a document that is added to the lexical index is not
\* the one of a failure, and neither is one that is taken up.
LEMMA RightGrows ==
    ASSUME OrchInv, NEW t \in Threads, Ingesting(t)
    PROVE  \A items, rs : Right(items, rs) => Right(items, rs)'
<1>1. SUFFICES ASSUME NEW item, NEW r, RightResult(item, r) PROVE RightResult(item, r)'
  BY DEF Right
<1>2. created \in Nat /\ pc \in [Threads -> Outside \cup Loop \cup {"respond"}]
      /\ doc = [u \in Threads |-> doc[u]]
  BY DEF OrchInv, Shapes
<1>3. (r.id \in 0..created)'
  BY <1>1, <1>2 DEF RightResult, Ingesting
<1>4. ASSUME ~r.ok, NEW u \in Threads, pc'[u] \in Active PROVE doc'[u].id # r.id
  BY <1>1, <1>2, <1>4 DEF RightResult, Ingesting
<1>5. r.ok <=> \E d \in lexical' : d.id = r.id
  BY <1>1 DEF RightResult, Ingesting
<1>6. store' = "memory" => (r.ok <=> item \notin Unloadable /\ ~Unfit(item)')
  BY <1>1 DEF RightResult, Ingesting, settings, Unfit, Rejected, Misfits
<1>. QED
  BY <1>3, <1>4, <1>5, <1>6 DEF RightResult

\* The other threads are where they were.
LEMMA OthersProgress ==
    ASSUME OrchInv, NEW t \in Threads, Ingesting(t), NEW u \in Threads, u # t
    PROVE  Progress(u)'
<1>1. created \in Nat /\ doc \in [Threads -> Documents \cup {NoDoc}]
      /\ pc = [v \in Threads |-> pc[v]] /\ results = [v \in Threads |-> results[v]]
      /\ upload = [v \in Threads |-> upload[v]]
  BY DEF OrchInv, Shapes
<1>2. /\ pc'[u] = pc[u] /\ upload'[u] = upload[u] /\ results'[u] = results[u]
      /\ doc'[u] = doc[u] /\ Item(u)' = Item(u)
      /\ Rejected(Item(u))' = Rejected(Item(u)) /\ Misfits(Item(u))' = Misfits(Item(u))
  BY <1>1 DEF Ingesting, Item, Rejected, Misfits, settings
<1>3. Progress(u)
  BY DEF OrchInv
<1>4. pc[t] \in Active /\ pc[u] \in Active => doc[t].id # doc[u].id
  BY DEF OrchInv, Distinct
<1>5. doc[u] \in Documents /\ doc[u].id <= created => doc[u].id <= created'
  BY <1>1 DEF Ingesting, Documents
<1>6. pc[u] \in {"embed", "store"} => \A d \in vectors' : d.id # doc[u].id
  BY <1>3, <1>4 DEF Progress, Ingesting, Active
<1>7. pc[u] = "index" => doc[u] \in vectors' /\ \A d \in lexical' : d.id # doc[u].id
  BY <1>3, <1>4 DEF Progress, Ingesting, Active
<1>8. pc[u] = "success" => doc[u] \in lexical'
  BY <1>3 DEF Progress, Ingesting
<1>. QED
  BY <1>2, <1>3, <1>5, <1>6, <1>7, <1>8 DEF Progress

LEMMA DistinctKept ==
    ASSUME OrchInv, NEW t \in Threads, Ingesting(t)
    PROVE  Distinct'
<1>1. created \in Nat /\ doc \in [Threads -> Documents \cup {NoDoc}]
      /\ pc = [v \in Threads |-> pc[v]]
  BY DEF OrchInv, Shapes
<1>2. ASSUME NEW u \in Threads, u # t, pc'[u] \in Active
      PROVE  /\ pc[u] \in Active /\ doc'[u] = doc[u]
             /\ doc[u].id \in Nat /\ doc[u].id <= created
  <2>1. Progress(u)
    BY DEF OrchInv
  <2>. QED
    BY <1>1, <1>2, <2>1 DEF Ingesting, Progress, Documents
<1>3. ASSUME NEW u \in Threads, u # t, pc'[u] \in Active, pc'[t] \in Active
      PROVE  doc'[u].id # doc'[t].id
  BY <1>1, <1>2, <1>3 DEF OrchInv, Distinct, Ingesting
<1>4. ASSUME NEW u \in Threads, NEW v \in Threads, u # t, v # t, u # v, pc'[u] \in Active,
             pc'[v] \in Active
      PROVE  doc'[u].id # doc'[v].id
  BY <1>2, <1>4 DEF OrchInv, Distinct
<1>. QED
  BY <1>3, <1>4 DEF Distinct

\* Results and replies that a step leaves alone stay right.
LEMMA ResultsStayRight ==
    ASSUME OrchInv, NEW t \in Threads, Ingesting(t), NEW u \in Threads,
           upload'[u] = upload[u], results'[u] = results[u]
    PROVE  Right(upload[u].items, results[u])'
<1>1. PICK items, rs : items = upload[u].items /\ rs = results[u]
  OBVIOUS
<1>2. Right(items, rs)'
  BY <1>1, RightGrows DEF OrchInv
<1>3. upload'[u].items = items /\ results'[u] = rs
  BY <1>1
<1>. QED
  BY <1>2, <1>3 DEF Right, RightResult

LEMMA RepliesStayRight ==
    ASSUME OrchInv, NEW t \in Threads, Ingesting(t), NEW u \in Threads, reply'[u] = reply[u]
    PROVE  RightReply(reply[u])'
<1>1. PICK a : a = reply[u]
  OBVIOUS
<1>2. CASE a.kind # "ingest"
  BY <1>1, <1>2 DEF RightReply
<1>3. CASE a.kind = "ingest"
  <2>1. RightReply(a)
    BY <1>1 DEF OrchInv
  <2>2. Right(a.upload.items, a.results)'
    BY <1>3, <2>1, RightGrows DEF RightReply
  <2>3. reply'[u] = a
    BY <1>1
  <2>. QED
    BY <1>3, <2>1, <2>2, <2>3 DEF RightReply, Right, RightResult
<1>. QED
  BY <1>2, <1>3

\* A result that is right may be appended.
LEMMA ReportIsRight ==
    ASSUME OrchInv, NEW t \in Threads, Ingesting(t), NEW item, NEW r,
           item = Item(t), upload' = upload, RightResult(item, r)',
           results' = [results EXCEPT ![t] = Append(@, r)]
    PROVE  Right(upload[t].items, results[t])'
<1>1. PICK items, rs : items = upload[t].items /\ rs = results[t]
  OBVIOUS
<1>2. rs \in Seq(Results) /\ results = [u \in Threads |-> results[u]]
  BY <1>1 DEF OrchInv, Shapes
<1>3. Right(items, rs)'
  BY <1>1, RightGrows DEF OrchInv
<1>4. Len(rs) \in Nat /\ item = items[Len(rs) + 1]
  BY <1>1, <1>2 DEF Item
<1>5. ASSUME NEW i \in DOMAIN Append(rs, r) PROVE RightResult(items[i], Append(rs, r)[i])'
  <2>1. CASE i \in DOMAIN rs
    <3>1. Append(rs, r)[i] = rs[i]
      BY <1>2, <2>1
    <3>. QED
      BY <1>3, <2>1, <3>1 DEF Right, RightResult
  <2>2. CASE i = Len(rs) + 1
    <3>1. Append(rs, r)[i] = r
      BY <1>2, <2>2
    <3>. QED
      BY <1>4, <2>2, <3>1
  <2>3. i \in 1..Len(rs) + 1 /\ DOMAIN rs = 1..Len(rs)
    BY <1>2, <1>4
  <2>. QED
    BY <1>4, <2>1, <2>2, <2>3
<1>6. upload'[t].items = items /\ results'[t] = Append(rs, r)
  BY <1>1, <1>2
<1>. QED
  BY <1>5, <1>6 DEF Right, RightResult

LEMMA IngestingKeeps ==
    ASSUME OrchInv, NEW t \in Threads, Ingesting(t), Shapes', StoresInv', Progress(t)',
           Right(upload[t].items, results[t])', RightReply(reply[t])'
    PROVE  OrchInv'
<1>1. ASSUME NEW u \in Threads PROVE Progress(u)'
  BY OthersProgress
<1>2. Distinct'
  BY DistinctKept
<1>3. ASSUME NEW u \in Threads PROVE Right(upload[u].items, results[u])'
  <2>1. CASE u # t
    <3>1. upload'[u] = upload[u] /\ results'[u] = results[u]
      BY <2>1 DEF OrchInv, Shapes, Ingesting
    <3>. QED
      BY <3>1, ResultsStayRight
  <2>. QED
    BY <2>1
<1>4. ASSUME NEW u \in Threads PROVE RightReply(reply[u])'
  <2>1. CASE u # t
    <3>1. reply'[u] = reply[u]
      BY <2>1 DEF OrchInv, Shapes, Ingesting
    <3>. QED
      BY <3>1, RepliesStayRight
  <2>. QED
    BY <2>1
<1>. QED
  BY <1>1, <1>2, <1>3, <1>4 DEF OrchInv

-----------------------------------------------------------------------------
\* The loop of ingest_documents() has an item in front of it.
LEMMA ItemIsThere ==
    ASSUME OrchInv, NEW t \in Threads, pc[t] \in Loop
    PROVE  Item(t) \in Items
<1>1. upload[t].items \in Seq(Items) /\ results[t] \in Seq(Results)
  BY OrchestratorAssumption DEF OrchestratorAssumption, OrchInv, Shapes
<1>2. Len(results[t]) < Len(upload[t].items)
  BY DEF OrchInv, Progress
<1>3. Len(results[t]) \in Nat /\ Len(upload[t].items) \in Nat
  BY <1>1
<1>. QED
  BY <1>1, <1>2, <1>3 DEF Item

\* After a report the loop goes on, or is at its end with a result for each item.
LEMMA ReportKeeps ==
    ASSUME OrchInv, NEW t \in Threads, pc[t] \in Loop, NEW r \in Results, Report(t, r),
           upload' = upload
    PROVE  /\ results' \in [Threads -> Seq(Results)]
           /\ pc' \in [Threads -> Outside \cup Loop \cup {"respond"}]
           /\ pc' = [pc EXCEPT ![t] = pc'[t]] /\ results' = [results EXCEPT ![t] = results'[t]]
           /\ pc'[t] \in {"load", "respond"} /\ pc'[t] \notin Active
           /\ Progress(t)'
<1>1. /\ upload[t].items \in Seq(Items) /\ results \in [Threads -> Seq(Results)]
      /\ pc \in [Threads -> Outside \cup Loop \cup {"respond"}]
  <2>1. \A u \in Uploads : u.items \in Seq(Items)
    BY OrchestratorAssumption DEF OrchestratorAssumption
  <2>. QED
    BY <2>1 DEF OrchInv, Shapes
<1>2. Len(results[t]) < Len(upload[t].items)
  BY DEF OrchInv, Progress
<1>3. Len(results[t]) \in Nat /\ Len(upload[t].items) \in Nat
  BY <1>1
<1>4. results' \in [Threads -> Seq(Results)] /\ Len(results'[t]) = Len(results[t]) + 1
      /\ results' = [results EXCEPT ![t] = results'[t]]
  BY <1>1 DEF Report
<1>5. /\ pc' = [pc EXCEPT ![t] = pc'[t]]
      /\ pc' \in [Threads -> Outside \cup Loop \cup {"respond"}]
      /\ pc'[t] = IF Len(results[t]) + 1 = Len(upload[t].items) THEN "respond" ELSE "load"
  BY <1>1 DEF Report, Loop
<1>6. pc'[t] \notin Outside /\ pc'[t] \notin Active /\ pc'[t] \in {"load", "respond"}
  BY <1>5 DEF Outside, Active
<1>7. Progress(t)'
  BY <1>2, <1>3, <1>4, <1>5, <1>6 DEF Progress, Active, Loop
<1>. QED
  BY <1>4, <1>5, <1>6, <1>7

LEMMA CallIngestKeeps ==
    ASSUME OrchInv, UNCHANGED settings, NEW t \in Threads, NEW u \in Uploads, CallIngest(t, u)
    PROVE  OrchInv'
<1>1. MaxCalls \in Nat /\ u.items \in Seq(Items) \ {<<>>}
  BY OrchestratorAssumption DEF OrchestratorAssumption
<1>2. Shapes /\ StoresInv /\ Progress(t)
  BY DEF OrchInv
<1>3. pc[t] = "idle" /\ pc' = [pc EXCEPT ![t] = "load"] /\ results[t] = <<>>
  BY <1>2 DEF CallIngest, Goto, Progress, Outside
<1>4. Len(u.items) \in Nat /\ Len(u.items) > 0
  BY <1>1
<1>5. reply' = [v \in Threads |-> reply'[v]]
  BY <1>2, ReplyShape DEF Shapes, CallIngest, NoReply
<1>6. calls' \in 0..MaxCalls
  BY <1>1, <1>2 DEF Shapes, CallIngest, NewCall
<1>7. pc' \in [Threads -> Outside \cup Loop \cup {"respond"}]
  BY <1>2, <1>3 DEF Shapes, Loop
<1>8. Shapes'
  BY <1>2, <1>5, <1>6, <1>7 DEF Shapes, CallIngest, stores, searching, history
<1>9. StoresInv'
  BY <1>2 DEF StoresInv, LexicalHasVectors, AckedIsSearchable, CallIngest, stores, history
<1>10. Progress(t)'
  <2>1. pc'[t] = "load" /\ upload'[t] = u /\ results'[t] = <<>>
    BY <1>2, <1>3 DEF Shapes, CallIngest
  <2>. QED
    BY <1>4, <2>1 DEF Progress, Active, Loop, Outside
<1>11. Ingesting(t)
  BY <1>2, <1>3 DEF Ingesting, Shapes, CallIngest, NoReply, stores, Active
<1>12. Right(upload[t].items, results[t])'
  BY <1>3 DEF CallIngest, Right
<1>13. RightReply(reply[t])'
  BY <1>2 DEF CallIngest, RightReply, NoReply, Shapes
<1>. QED
  BY <1>8, <1>9, <1>10, <1>11, <1>12, <1>13, IngestingKeeps

LEMMA LoadFailsKeeps ==
    ASSUME OrchInv, UNCHANGED settings, NEW t \in Threads, LoadFails(t)
    PROVE  OrchInv'
<1>1. Shapes /\ StoresInv /\ pc[t] \in Loop
  BY DEF OrchInv, LoadFails, Loop
<1>2. PICK r : r = [id |-> 0, ok |-> FALSE]
  OBVIOUS
<1>3. r \in Results /\ r.id = 0 /\ r.ok = FALSE
  BY <1>2 DEF Results
<1>4. Report(t, r) /\ upload' = upload /\ reply' = reply /\ doc' = doc
  BY <1>2 DEF LoadFails
<1>5. /\ results' \in [Threads -> Seq(Results)]
      /\ pc' \in [Threads -> Outside \cup Loop \cup {"respond"}]
      /\ pc' = [pc EXCEPT ![t] = pc'[t]] /\ results' = [results EXCEPT ![t] = results'[t]]
      /\ pc'[t] \in {"load", "respond"} /\ pc'[t] \notin Active
      /\ Progress(t)'
  BY <1>1, <1>3, <1>4, ReportKeeps
<1>6. Shapes'
  BY <1>1, <1>5 DEF Shapes, LoadFails, stores, searching, history, bounds
<1>7. StoresInv'
  BY <1>1 DEF StoresInv, LexicalHasVectors, AckedIsSearchable, LoadFails, stores, history, bounds
<1>8. Ingesting(t)
  BY <1>1, <1>4, <1>5 DEF Ingesting, Shapes, LoadFails, stores, bounds
<1>9. PICK item : item = Item(t)
  OBVIOUS
<1>10. RightResult(item, r)'
  <2>1. created' \in Nat /\ item \in Unloadable /\ lexical' = lexical
    BY <1>1, <1>9 DEF Shapes, LoadFails, stores, bounds
  <2>2. ASSUME NEW d \in lexical PROVE d.id # 0
    BY <1>1, <2>2 DEF Shapes, Documents
  <2>3. ASSUME NEW u \in Threads, pc'[u] \in Active PROVE doc'[u].id # 0
    <3>1. Progress(u) /\ pc[u] \in Active
      BY <1>1, <1>5, <2>3 DEF OrchInv, Shapes
    <3>. QED
      BY <1>4, <3>1 DEF Progress, Documents
  <2>. QED
    BY <1>3, <2>1, <2>2, <2>3 DEF RightResult
<1>11. Right(upload[t].items, results[t])'
  BY <1>4, <1>8, <1>9, <1>10, ReportIsRight DEF Report
<1>12. RightReply(reply[t])'
  BY <1>4, <1>8, RepliesStayRight
<1>. QED
  BY <1>5, <1>6, <1>7, <1>8, <1>11, <1>12, IngestingKeeps

LEMMA LoadSucceedsKeeps ==
    ASSUME OrchInv, UNCHANGED settings, NEW t \in Threads, LoadSucceeds(t)
    PROVE  OrchInv'
<1>1. Shapes /\ StoresInv /\ Progress(t)
  BY DEF OrchInv
<1>2. /\ pc[t] = "load" /\ pc' = [pc EXCEPT ![t] = "embed"] /\ Item(t) \notin Unloadable
      /\ doc' = [doc EXCEPT ![t] = [id |-> created + 1, text |-> Item(t)]]
      /\ created' = created + 1
      /\ UNCHANGED <<vectors, lexical, cached, ingested, upload, results, request, found, fresh,
                     expected, reply, acked, before, calls, failures, restarts>>
  BY DEF LoadSucceeds, LoadAs, Goto, stores, searching, history
<1>3. Item(t) \in Items
  BY <1>2, ItemIsThere DEF Loop
<1>4. created \in Nat /\ [id |-> created + 1, text |-> Item(t)] \in Documents
  BY <1>1, <1>3 DEF Shapes, Documents
<1>5. doc'[t] = [id |-> created + 1, text |-> Item(t)] /\ pc'[t] = "embed"
  BY <1>1, <1>2 DEF Shapes
<1>6. ASSUME NEW d \in vectors PROVE d.id \in Nat /\ d.id <= created
  BY <1>1 DEF Shapes, StoresInv, Documents
<1>7. Shapes'
  BY <1>1, <1>2, <1>4 DEF Shapes, Loop, Active
<1>8. StoresInv'
  <2>1. \A d \in vectors' : d.id <= created'
    BY <1>2, <1>4, <1>6
  <2>. QED
    BY <1>1, <1>2, <2>1 DEF StoresInv, LexicalHasVectors, AckedIsSearchable
<1>9. Progress(t)'
  <2>1. Len(results'[t]) < Len(upload'[t].items) /\ Item(t)' = Item(t)
    BY <1>1, <1>2 DEF Progress, Loop, Item
  <2>2. doc'[t] \in Documents /\ doc'[t].id = created + 1 /\ doc'[t].id <= created'
    BY <1>2, <1>4, <1>5
  <2>3. \A d \in vectors' : d.id # doc'[t].id
    BY <1>2, <1>4, <1>6, <2>2
  <2>. QED
    BY <1>2, <1>5, <2>1, <2>2, <2>3 DEF Progress, Outside, Loop, Active
<1>10. Ingesting(t)
  BY <1>1, <1>2, <1>5 DEF Ingesting, Shapes
<1>11. Right(upload[t].items, results[t])' /\ RightReply(reply[t])'
  BY <1>2, <1>10, ResultsStayRight, RepliesStayRight
<1>. QED
  BY <1>7, <1>8, <1>9, <1>10, <1>11, IngestingKeeps

\* Embedding fails, or the database, or a vector does not fit: a result with the id of the document, which is
\* not in the lexical index.
LEMMA FailureKeeps ==
    ASSUME OrchInv, UNCHANGED settings, NEW t \in Threads, pc[t] \in {"embed", "store"},
           Report(t, [id |-> doc[t].id, ok |-> FALSE]),
           store = "memory" => Unfit(Item(t)),
           vectors' \in {vectors, vectors \cup {doc[t]}},
           failures' \in 0..MaxFailures,
           UNCHANGED <<lexical, cached, ingested, upload, doc, request, found, fresh, expected, reply,
                       acked, before, created, calls, restarts>>
    PROVE  OrchInv'
<1>1. Shapes /\ StoresInv /\ Progress(t) /\ pc[t] \in Loop /\ pc[t] \in Active
  BY DEF OrchInv, Loop, Active
<1>2. doc[t] \in Documents /\ doc[t].id \in 0..created /\ \A d \in vectors : d.id # doc[t].id
  BY <1>1 DEF Shapes, Progress, Documents
<1>3. PICK r : r = [id |-> doc[t].id, ok |-> FALSE]
  OBVIOUS
<1>4. r \in Results /\ r.id = doc[t].id /\ r.ok = FALSE
  BY <1>2, <1>3 DEF Results, Documents
<1>5. Report(t, r)
  BY <1>3
<1>6. /\ results' \in [Threads -> Seq(Results)]
      /\ pc' \in [Threads -> Outside \cup Loop \cup {"respond"}]
      /\ pc' = [pc EXCEPT ![t] = pc'[t]] /\ results' = [results EXCEPT ![t] = results'[t]]
      /\ pc'[t] \in {"load", "respond"} /\ pc'[t] \notin Active
      /\ Progress(t)'
  BY <1>1, <1>4, <1>5, ReportKeeps
<1>7. Shapes'
  BY <1>1, <1>2, <1>6 DEF Shapes
<1>8. StoresInv'
  BY <1>1, <1>2 DEF StoresInv, LexicalHasVectors, AckedIsSearchable
<1>9. Ingesting(t)
  BY <1>1, <1>6 DEF Ingesting, Shapes
<1>10. PICK item : item = Item(t)
  OBVIOUS
<1>11. RightResult(item, r)'
  <2>1. ASSUME NEW d \in lexical PROVE d.id # r.id
    BY <1>1, <1>2, <1>4 DEF StoresInv, LexicalHasVectors
  <2>2. ASSUME NEW u \in Threads, pc'[u] \in Active PROVE doc'[u].id # r.id
    <3>1. u # t
      BY <1>6, <2>2
    <3>2. pc[u] = pc'[u] /\ doc'[u] = doc[u]
      BY <1>1, <1>6, <3>1 DEF Shapes
    <3>3. Distinct
      BY DEF OrchInv
    <3>. QED
      BY <1>1, <1>4, <2>2, <3>1, <3>2, <3>3 DEF Distinct
  <2>3. store' = "memory" => Unfit(item)'
    BY <1>10 DEF settings, Unfit, Rejected, Misfits
  <2>. QED
    BY <1>2, <1>4, <2>1, <2>2, <2>3 DEF RightResult
<1>12. Right(upload[t].items, results[t])'
  BY <1>5, <1>9, <1>10, <1>11, ReportIsRight DEF Report
<1>13. RightReply(reply[t])'
  BY <1>9, RepliesStayRight
<1>. QED
  BY <1>6, <1>7, <1>8, <1>9, <1>12, <1>13, IngestingKeeps

LEMMA EmbedKeeps ==
    ASSUME OrchInv, UNCHANGED settings, NEW t \in Threads, Embed(t)
    PROVE  OrchInv'
<1>1. Shapes /\ StoresInv /\ Progress(t) /\ pc[t] = "embed"
  BY DEF OrchInv, Embed, EmbedThen
<1>2. ingested' = ingested
  BY <1>1 DEF Embed, EmbedThen, Shapes
<1>3. CASE Rejected(Item(t))
  BY <1>1, <1>2, <1>3, FailureKeeps
  DEF Embed, EmbedThen, Unfit, Shapes, stores, searching, history, bounds
<1>4. CASE ~Rejected(Item(t))
  <2>1. /\ pc' = [pc EXCEPT ![t] = "store"]
        /\ UNCHANGED <<vectors, lexical, cached, ingested, upload, results, doc, request, found, fresh,
                       expected, reply, acked, before, created, calls, failures, restarts>>
    BY <1>2, <1>4 DEF Embed, EmbedThen, Goto, stores, searching, history, bounds
  <2>2. Shapes'
    BY <1>1, <2>1 DEF Shapes, Loop, Active
  <2>3. StoresInv'
    BY <1>1, <2>1 DEF StoresInv, LexicalHasVectors, AckedIsSearchable
  <2>4. pc'[t] = "store" /\ Item(t)' = Item(t) /\ ~Rejected(Item(t))'
    BY <1>1, <1>4, <2>1 DEF Shapes, Item, Rejected, settings
  <2>5. Progress(t)'
    BY <1>1, <2>1, <2>4 DEF Progress, Outside, Loop, Active
  <2>6. Ingesting(t)
    BY <1>1, <2>1 DEF Ingesting, Shapes, Active
  <2>7. upload'[t] = upload[t] /\ results'[t] = results[t] /\ reply'[t] = reply[t]
    BY <2>1
  <2>8. Right(upload[t].items, results[t])'
    BY <2>6, <2>7, ResultsStayRight
  <2>9. RightReply(reply[t])'
    BY <2>6, <2>7, RepliesStayRight
  <2>. QED
    BY <2>2, <2>3, <2>5, <2>6, <2>8, <2>9, IngestingKeeps
<1>. QED
  BY <1>3, <1>4

LEMMA StoreVectorsKeeps ==
    ASSUME OrchInv, UNCHANGED settings, NEW t \in Threads, StoreVectors(t)
    PROVE  OrchInv'
<1>1. Shapes /\ StoresInv /\ Progress(t)
  BY DEF OrchInv
<1>2. /\ pc[t] = "store" /\ pc' = [pc EXCEPT ![t] = "index"] /\ ~Misfits(Item(t))
      /\ vectors' = vectors \cup {doc[t]}
      /\ UNCHANGED <<lexical, cached, ingested, upload, results, doc, request, found, fresh, expected,
                     reply, acked, before, created, calls, failures, restarts>>
  BY DEF StoreVectors, StoreThen, Goto, ingesting, searching, history, bounds
<1>3. doc[t] \in Documents /\ doc[t].id <= created /\ \A d \in vectors : d.id # doc[t].id
  BY <1>1, <1>2 DEF Progress, Active
<1>4. Shapes'
  BY <1>1, <1>2, <1>3 DEF Shapes, Loop, Active
<1>5. StoresInv'
  BY <1>1, <1>2, <1>3 DEF StoresInv, LexicalHasVectors, AckedIsSearchable
<1>6. /\ pc'[t] = "index" /\ Item(t)' = Item(t)
      /\ Rejected(Item(t))' = Rejected(Item(t)) /\ Misfits(Item(t))' = Misfits(Item(t))
  BY <1>1, <1>2 DEF Shapes, Item, Rejected, Misfits, settings
<1>7. \A d \in lexical' : d.id # doc'[t].id
  BY <1>1, <1>2, <1>3 DEF StoresInv, LexicalHasVectors
<1>8. Progress(t)'
  BY <1>1, <1>2, <1>3, <1>6, <1>7 DEF Progress, Outside, Loop, Active
<1>9. Ingesting(t)
  BY <1>1, <1>2 DEF Ingesting, Shapes, Active
<1>10. Right(upload[t].items, results[t])' /\ RightReply(reply[t])'
  BY <1>2, <1>9, ResultsStayRight, RepliesStayRight
<1>. QED
  BY <1>4, <1>5, <1>8, <1>9, <1>10, IngestingKeeps

LEMMA StoreFailsKeeps ==
    ASSUME OrchInv, UNCHANGED settings, NEW t \in Threads, NEW committed \in BOOLEAN,
           StoreFails(t, committed)
    PROVE  OrchInv'
<1>1. MaxFailures \in Nat
  BY OrchestratorAssumption DEF OrchestratorAssumption
<1>2. failures' \in 0..MaxFailures
  BY <1>1 DEF OrchInv, Shapes, StoreFails, ServiceFails
<1>. QED
  BY <1>2, FailureKeeps DEF StoreFails, searching, history

LEMMA StoreRefusesKeeps ==
    ASSUME OrchInv, UNCHANGED settings, NEW t \in Threads, NEW some \in BOOLEAN,
           StoreRefuses(t, some)
    PROVE  OrchInv'
<1>1. failures' \in 0..MaxFailures
  BY DEF OrchInv, Shapes, StoreRefuses, bounds
<1>. QED
  BY <1>1, FailureKeeps DEF StoreRefuses, Unfit, searching, history, bounds

LEMMA IndexLexicallyKeeps ==
    ASSUME OrchInv, UNCHANGED settings, NEW t \in Threads, IndexLexically(t)
    PROVE  OrchInv'
<1>1. Shapes /\ StoresInv /\ Progress(t)
  BY DEF OrchInv
<1>2. /\ pc[t] = "index" /\ pc' = [pc EXCEPT ![t] = "success"]
      /\ lexical' = lexical \cup {doc[t]}
      /\ UNCHANGED <<vectors, cached, ingested, upload, results, doc, request, found, fresh, expected,
                     reply, acked, before, created, calls, failures, restarts>>
  BY DEF IndexLexically, Goto, ingesting, searching, history, bounds
<1>3. doc[t] \in Documents /\ doc[t] \in vectors
  BY <1>1, <1>2 DEF Progress, Active
<1>4. Shapes'
  BY <1>1, <1>2, <1>3 DEF Shapes, Loop, Active
<1>5. StoresInv'
  BY <1>1, <1>2, <1>3 DEF StoresInv, LexicalHasVectors, AckedIsSearchable
<1>6. /\ pc'[t] = "success" /\ Item(t)' = Item(t)
      /\ Rejected(Item(t))' = Rejected(Item(t)) /\ Misfits(Item(t))' = Misfits(Item(t))
  BY <1>1, <1>2 DEF Shapes, Item, Rejected, Misfits, settings
<1>7. Progress(t)'
  BY <1>1, <1>2, <1>6 DEF Progress, Outside, Loop, Active
<1>8. Ingesting(t)
  BY <1>1, <1>2 DEF Ingesting, Shapes, Active
<1>9. upload'[t] = upload[t] /\ results'[t] = results[t] /\ reply'[t] = reply[t]
  BY <1>2
<1>10. Right(upload[t].items, results[t])'
  BY <1>8, <1>9, ResultsStayRight
<1>11. RightReply(reply[t])'
  BY <1>8, <1>9, RepliesStayRight
<1>. QED
  BY <1>4, <1>5, <1>7, <1>8, <1>10, <1>11, IngestingKeeps

LEMMA SucceedKeeps ==
    ASSUME OrchInv, UNCHANGED settings, NEW t \in Threads, Succeed(t)
    PROVE  OrchInv'
<1>1. Shapes /\ StoresInv /\ Progress(t) /\ pc[t] = "success" /\ pc[t] \in Loop
      /\ pc[t] \in Active
  BY DEF OrchInv, Succeed, Loop, Active
<1>2. /\ doc[t] \in Documents /\ doc[t].id \in 0..created /\ doc[t] \in lexical
      /\ Item(t) \notin Unloadable /\ ~Unfit(Item(t))
  BY <1>1 DEF Shapes, Progress, Unfit, Documents
<1>3. PICK r : r = [id |-> doc[t].id, ok |-> TRUE]
  OBVIOUS
<1>4. r \in Results /\ r.id = doc[t].id /\ r.ok = TRUE
  BY <1>2, <1>3 DEF Results, Documents
<1>5. /\ Report(t, r)
      /\ UNCHANGED <<vectors, lexical, cached, upload, doc, request, found, fresh, expected, reply,
                     acked, before, created, calls, failures, restarts>>
  BY <1>3 DEF Succeed, stores, searching, history, bounds
<1>6. /\ results' \in [Threads -> Seq(Results)]
      /\ pc' \in [Threads -> Outside \cup Loop \cup {"respond"}]
      /\ pc' = [pc EXCEPT ![t] = pc'[t]] /\ results' = [results EXCEPT ![t] = results'[t]]
      /\ pc'[t] \in {"load", "respond"} /\ pc'[t] \notin Active
      /\ Progress(t)'
  BY <1>1, <1>4, <1>5, ReportKeeps
<1>7. ingested' \in Nat
  BY <1>1 DEF Succeed, Shapes
<1>8. Shapes'
  BY <1>1, <1>5, <1>6, <1>7 DEF Shapes
<1>9. StoresInv'
  BY <1>1, <1>5 DEF StoresInv, LexicalHasVectors, AckedIsSearchable
<1>10. Ingesting(t)
  BY <1>1, <1>5, <1>6 DEF Ingesting, Shapes
<1>11. PICK item : item = Item(t)
  OBVIOUS
<1>12. RightResult(item, r)'
  BY <1>2, <1>4, <1>5, <1>11 DEF RightResult, settings, Unfit, Rejected, Misfits
<1>13. Right(upload[t].items, results[t])'
  BY <1>5, <1>10, <1>11, <1>12, ReportIsRight DEF Report
<1>14. RightReply(reply[t])'
  BY <1>5, <1>10, RepliesStayRight
<1>. QED
  BY <1>6, <1>8, <1>9, <1>10, <1>13, <1>14, IngestingKeeps

LEMMA RespondKeeps ==
    ASSUME OrchInv, UNCHANGED settings, NEW t \in Threads, Respond(t)
    PROVE  OrchInv'
<1>1. Shapes /\ StoresInv /\ Progress(t) /\ Right(upload[t].items, results[t])
  BY DEF OrchInv
<1>2. SomeUpload \in Uploads
  BY OrchestratorAssumption DEF OrchestratorAssumption, SomeUpload
<1>3. PICK a : /\ a.kind = "ingest" /\ a.upload = upload[t] /\ a.results = results[t]
               /\ reply' = [reply EXCEPT ![t] = a]
  BY DEF Respond
<1>4. /\ pc[t] = "respond" /\ pc' = [pc EXCEPT ![t] = "idle"]
      /\ upload' = [upload EXCEPT ![t] = SomeUpload] /\ results' = [results EXCEPT ![t] = <<>>]
      /\ doc' = [doc EXCEPT ![t] = NoDoc]
      /\ UNCHANGED <<vectors, lexical, cached, ingested, request, found, fresh, expected, before,
                     created, calls, failures, restarts>>
  BY DEF Respond, Goto, stores, searching, bounds
<1>5. acked \subseteq acked' /\ \A d \in acked' \ acked :
         d \in vectors /\ \E i \in DOMAIN results[t] : results[t][i].ok /\ results[t][i].id = d.id
  BY DEF Respond
<1>6. ASSUME NEW d \in acked' \ acked PROVE d \in lexical /\ d \in vectors
  <2>1. PICK i \in DOMAIN results[t] : results[t][i].ok /\ results[t][i].id = d.id
    BY <1>5
  <2>2. \E e \in lexical : e.id = d.id
    BY <1>1, <2>1 DEF Right, RightResult
  <2>. QED
    BY <1>1, <1>5, <2>2 DEF StoresInv, LexicalHasVectors
<1>7. /\ pc'[t] = "idle" /\ upload'[t] = SomeUpload /\ results'[t] = <<>> /\ reply'[t] = a
      /\ doc'[t] = NoDoc
  BY <1>1, <1>3, <1>4 DEF Shapes
<1>8. Shapes'
  <2>1. reply' = [u \in Threads |-> reply'[u]]
    BY <1>1, <1>3, ReplyShape DEF Shapes
  <2>2. pc' \in [Threads -> Outside \cup Loop \cup {"respond"}]
    BY <1>1, <1>4 DEF Shapes, Outside
  <2>3. acked' \subseteq Documents /\ before' \subseteq acked'
    BY <1>1, <1>4, <1>5, <1>6 DEF Shapes
  <2>. QED
    BY <1>1, <1>2, <1>4, <2>1, <2>2, <2>3 DEF Shapes
<1>9. StoresInv'
  BY <1>1, <1>4, <1>6 DEF StoresInv, LexicalHasVectors, AckedIsSearchable
<1>10. Progress(t)'
  BY <1>7 DEF Progress, Outside, Loop, Active
<1>11. Ingesting(t)
  BY <1>1, <1>3, <1>4, <1>7 DEF Ingesting, Shapes, Active
<1>12. Right(upload[t].items, results[t])'
  BY <1>7 DEF Right
<1>13. RightReply(reply[t])'
  <2>1. Right(a.upload.items, a.results)
    BY <1>1, <1>3
  <2>2. Right(a.upload.items, a.results)'
    BY <1>11, <2>1, RightGrows
  <2>3. a.upload \in Uploads /\ a.results \in Seq(Results)
        /\ Len(a.results) = Len(a.upload.items)
    BY <1>1, <1>3, <1>4 DEF Shapes, Progress
  <2>. QED
    BY <1>3, <1>7, <2>2, <2>3 DEF RightReply, Right, RightResult
<1>. QED
  BY <1>8, <1>9, <1>10, <1>11, <1>12, <1>13, IngestingKeeps

LEMMA RestartKeeps ==
    ASSUME OrchInv, UNCHANGED settings, Restart
    PROVE  OrchInv'
<1>1. SomeUpload \in Uploads /\ SomeRequest \in Requests /\ MaxRestarts \in Nat
  BY OrchestratorAssumption DEF OrchestratorAssumption, SomeUpload, SomeRequest
<1>2. Shapes /\ StoresInv
  BY DEF OrchInv
<1>3. Shapes'
  <2>1. /\ vectors' \subseteq Documents /\ lexical' \subseteq Documents
        /\ acked' \subseteq Documents /\ before' \subseteq acked'
        /\ \A k \in DOMAIN cached' : cached'[k] \subseteq Documents
        /\ ingested' \in Nat /\ created' \in Nat
    BY <1>2 DEF Shapes, Restart
  <2>2. /\ pc' \in [Threads -> Outside \cup Loop \cup {"respond"}]
        /\ upload' \in [Threads -> Uploads]
        /\ results' \in [Threads -> Seq(Results)]
        /\ doc' \in [Threads -> Documents \cup {NoDoc}]
    BY <1>1 DEF Restart, EachThread, Outside
  <2>3. /\ request' \in [Threads -> Requests]
        /\ found' \in [Threads -> SUBSET Documents] /\ fresh' \in [Threads -> BOOLEAN]
        /\ expected' \in [Threads -> SUBSET Documents]
        /\ reply' = [v \in Threads |-> reply'[v]]
    BY <1>1 DEF Restart, EachThread
  <2>4. /\ calls' \in 0..MaxCalls /\ failures' \in 0..MaxFailures
        /\ restarts' \in 0..MaxRestarts
    BY <1>1, <1>2 DEF Shapes, Restart
  <2>. QED
    BY <2>1, <2>2, <2>3, <2>4 DEF Shapes
<1>4. StoresInv'
  BY <1>2 DEF Shapes, StoresInv, LexicalHasVectors, AckedIsSearchable, Restart
<1>5. ASSUME NEW t \in Threads
      PROVE  pc'[t] = "idle" /\ results'[t] = <<>> /\ reply'[t] = NoReply
  BY DEF Restart, EachThread
<1>6. ASSUME NEW t \in Threads PROVE Progress(t)'
  BY <1>5 DEF Progress, Outside, Loop, Active
<1>7. Distinct'
  BY <1>5 DEF Distinct, Active
<1>8. ASSUME NEW t \in Threads PROVE Right(upload[t].items, results[t])'
  BY <1>5 DEF Right
<1>9. ASSUME NEW t \in Threads PROVE RightReply(reply[t])'
  <2>1. reply'[t].kind # "ingest"
    BY <1>5 DEF NoReply
  <2>. QED
    BY <2>1 DEF RightReply
<1>. QED
  BY <1>3, <1>4, <1>6, <1>7, <1>8, <1>9 DEF OrchInv

LEMMA OrchInvNext == OrchInv /\ [Next]_vars => OrchInv'
<1> SUFFICES ASSUME OrchInv, [Next]_vars PROVE OrchInv'
  OBVIOUS
<1>1. ASSUME NEW t \in Threads, ThreadStep(t) PROVE OrchInv'
  <2>. UNCHANGED settings
    BY <1>1 DEF ThreadStep
  <2>1. CASE Load(t)
    BY <2>1, LoadFailsKeeps, LoadSucceedsKeeps DEF Load
  <2>2. CASE Embed(t)
    BY <2>2, EmbedKeeps
  <2>3. CASE StoreVectors(t)
    BY <2>3, StoreVectorsKeeps
  <2>4. CASE IndexLexically(t)
    BY <2>4, IndexLexicallyKeeps
  <2>5. ASSUME NEW committed \in BOOLEAN, StoreFails(t, committed) PROVE OrchInv'
    BY <2>5, StoreFailsKeeps
  <2>6. CASE Succeed(t)
    BY <2>6, SucceedKeeps
  <2>7. CASE Respond(t)
    BY <2>7, RespondKeeps
  <2>8. CASE RetrieveStep(t)
    BY <2>8, RetrieveIsSearching, SearchingKeeps
  <2>9. CASE AnswerStep(t)
    BY <2>9, AnswerIsSearching, SearchingKeeps
  <2>10. ASSUME NEW some \in BOOLEAN, StoreRefuses(t, some) PROVE OrchInv'
    BY <2>10, StoreRefusesKeeps
  <2>. QED
    BY <1>1, <2>1, <2>2, <2>3, <2>4, <2>5, <2>6, <2>7, <2>8, <2>9, <2>10
    DEF ThreadStep, IngestStep
<1>2. CASE EnvironmentStep
  <2>. UNCHANGED settings
    BY <1>2 DEF EnvironmentStep
  <2>1. ASSUME NEW t \in Threads, NEW u \in Uploads, CallIngest(t, u) PROVE OrchInv'
    BY <2>1, CallIngestKeeps
  <2>2. ASSUME NEW t \in Threads, NEW r \in Requests, NEW route \in {"/search", "/query"},
               CallSearch(t, r, route)
        PROVE  OrchInv'
    BY <2>2, CallSearchIsSearching, SearchingKeeps
  <2>3. CASE Restart
    BY <2>3, RestartKeeps
  <2>. QED
    BY <1>2, <2>1, <2>2, <2>3 DEF EnvironmentStep
<1>3. CASE UNCHANGED vars
  BY <1>3 DEF vars, settings, stores, ingesting, searching, history, bounds, OrchInv, Shapes,
              StoresInv, LexicalHasVectors, AckedIsSearchable, Progress, Item, Rejected, Misfits,
              Unfit, Distinct, Right, RightResult, RightReply
<1>. QED
  BY <1>1, <1>2, <1>3 DEF Next

LEMMA OrchInvAlways == Spec => []OrchInv
  BY OrchInvInit, OrchInvNext, PTL DEF Spec

-----------------------------------------------------------------------------
\* Whatever is uploaded, searched, failing or restarted, the variables keep their
\* types, and a document id names one document in both stores (pipeline.py:137-138).
THEOREM TypeCorrect == Spec => []TypeOK
<1>1. ASSUME OrchInv PROVE TypeOK
  <2>1. Shapes /\ StoresInv
    BY <1>1 DEF OrchInv
  <2>2. ASSUME NEW t \in Threads PROVE Len(results[t]) <= Len(upload[t].items)
    <3>1. upload[t].items \in Seq(Items) \ {<<>>} /\ results[t] \in Seq(Results)
      BY <2>1, OrchestratorAssumption DEF OrchestratorAssumption, Shapes
    <3>2. Len(results[t]) \in Nat /\ Len(upload[t].items) \in Nat
      BY <3>1
    <3>3. Progress(t) /\ pc[t] \in Outside \cup Loop \cup {"respond"}
      BY <1>1, <2>1 DEF OrchInv, Shapes
    <3>. QED
      BY <3>2, <3>3 DEF Progress
  <2>3. \A d, e \in vectors \cup lexical : d.id = e.id => d = e
    BY <2>1 DEF StoresInv, LexicalHasVectors
  <2>. QED
    BY <2>1, <2>2, <2>3 DEF Shapes, TypeOK
<1>. QED
  BY <1>1, OrchInvAlways, PTL

\* A chunk that BM25 finds has its vectors: the two adds of ingest_documents() come in
\* this order, and both stores are emptied together (pipeline.py:137-138).
THEOREM HitsHaveVectors == Spec => []LexicalHasVectors
<1>1. OrchInv => LexicalHasVectors
  BY DEF OrchInv, StoresInv
<1>. QED
  BY <1>1, OrchInvAlways, PTL

\* What an ingestion has reported a success stays in the vector store, across restarts
\* when it is a database, and in the lexical index of its process (pipeline.py:139-148).
THEOREM AckedStays == Spec => []AckedIsSearchable
<1>1. OrchInv => AckedIsSearchable
  BY DEF OrchInv, StoresInv
<1>. QED
  BY <1>1, OrchInvAlways, PTL

\* Each item of an upload has one result in its place, and a bad item, or a failure of
\* a service, changes the result of no other (pipeline.py:100).
THEOREM ItemsFailAlone == Spec => []FailuresAreIsolated
<1>1. ASSUME OrchInv PROVE FailuresAreIsolated
  <2>1. ASSUME NEW t \in Threads, reply[t].kind = "ingest"
        PROVE  /\ Len(reply[t].results) = Len(reply[t].upload.items)
               /\ \A i \in DOMAIN reply[t].upload.items :
                     RightResult(reply[t].upload.items[i], reply[t].results[i])
    <3>1. RightReply(reply[t])
      BY <1>1 DEF OrchInv
    <3>2. reply[t].upload.items \in Seq(Items)
      BY <2>1, <3>1, OrchestratorAssumption DEF OrchestratorAssumption, RightReply
    <3>. QED
      BY <2>1, <3>1, <3>2 DEF RightReply, Right
  <2>. QED
    BY <2>1 DEF FailuresAreIsolated, RightResult
<1>. QED
  BY <1>1, OrchInvAlways, PTL

-----------------------------------------------------------------------------
\* A search by vectors that does not use the cache, where it stands: what it has seen
\* of the documents acknowledged when it began.
BeforeFusion == {"search lexical", "query lexical"}
AfterFusion == {"search fill", "query fill", "search done", "query done"}
FoundKinds == {"found", "insufficient", "answer", "error"}

\* In front of the fusion: what is missing was cut off at top_k * 2.
DenseSaw(r, docs, wanted) ==
    r.methods = {"dense"} =>
        /\ \A d \in docs : Near(r, d)
        /\ store = "memory" =>
              \A d \in wanted \ docs : Near(r, d) =>
                  /\ Cardinality(docs) = 2 * r.top
                  /\ \A e \in docs : Sim(r.text, e.text) >= Sim(r.text, d.text)

\* Behind it.
Saw(r, docs, wanted) ==
    /\ \A d \in docs : Near(r, d)
    /\ Cardinality(docs) <= Cut(r)
    /\ store = "memory" /\ DenseWeighs =>
          \A d \in wanted \ docs : Near(r, d) =>
              /\ Cardinality(docs) = Cut(r)
              /\ \A e \in docs : Sim(r.text, e.text) >= Sim(r.text, d.text)
Fresh(r, new) == r.methods = {"dense"} /\ (store = "pgvector" \/ new)

SearchFresh(t) ==
    /\ expected[t] \subseteq acked
    /\ pc[t] \in BeforeFusion => DenseSaw(request[t], found[t], expected[t])
    /\ pc[t] \in AfterFusion /\ Fresh(request[t], fresh[t]) =>
          Saw(request[t], found[t], expected[t])

AnswerSaw(a) == a.kind \in FoundKinds /\ Fresh(a.request, a.fresh) =>
                    Saw(a.request, a.found, a.expected)

FreshInv == \A t \in Threads : SearchFresh(t) /\ AnswerSaw(reply[t])

LEMMA FreshInit == Init => FreshInv
<1> SUFFICES ASSUME Init, NEW t \in Threads PROVE SearchFresh(t) /\ AnswerSaw(reply[t])
  BY DEF FreshInv
<1>1. pc[t] = "idle" /\ expected[t] = {} /\ reply[t].kind = "none"
  BY DEF Init, EachThread, NoReply
<1>. QED
  BY <1>1 DEF SearchFresh, AnswerSaw, FoundKinds, BeforeFusion, AfterFusion

\* What a search has seen does not depend on the state, except for the kind of store.
LEMMA SawStays ==
    ASSUME UNCHANGED settings, NEW r, NEW docs, NEW wanted, NEW new
    PROVE  /\ DenseSaw(r, docs, wanted) => DenseSaw(r, docs, wanted)'
           /\ Saw(r, docs, wanted) => Saw(r, docs, wanted)'
           /\ Fresh(r, new)' => Fresh(r, new)
BY DEF settings, DenseSaw, Saw, Fresh, Near, Cut

\* Threads whose search and reply a step leaves alone: what is acknowledged grows.
LEMMA SearchStays ==
    ASSUME NEW t \in Threads, SearchFresh(t), UNCHANGED settings, acked \subseteq acked',
           request'[t] = request[t], found'[t] = found[t], fresh'[t] = fresh[t],
           expected'[t] = expected[t],
           pc'[t] = pc[t] \/ pc'[t] \notin BeforeFusion \cup AfterFusion
    PROVE  SearchFresh(t)'
BY DEF settings, SearchFresh, DenseSaw, Saw, Fresh, Near, Cut, BeforeFusion, AfterFusion

LEMMA AnswerStays ==
    ASSUME NEW t \in Threads, AnswerSaw(reply[t]), UNCHANGED settings,
           reply'[t] = reply[t] \/ reply'[t].kind \notin FoundKinds
    PROVE  AnswerSaw(reply[t])'
BY DEF settings, AnswerSaw, Saw, Fresh, Near, Cut

\* The steps of an upload.
LEMMA UploadIsFresh ==
    ASSUME OrchInv, FreshInv, UNCHANGED settings, NEW t \in Threads,
           IngestStep(t) \/ \E u \in Uploads : CallIngest(t, u)
    PROVE  FreshInv'
<1>1. pc = [v \in Threads |-> pc[v]] /\ reply = [v \in Threads |-> reply[v]]
  BY DEF OrchInv, Shapes
<1>2. /\ UNCHANGED <<request, found, fresh, expected>>
      /\ acked \subseteq acked'
  BY DEF IngestStep, CallIngest, Load, LoadFails, LoadSucceeds, LoadAs, Embed, EmbedThen,
         StoreVectors, StoreThen, StoreFails, StoreRefuses, IndexLexically, Succeed, Respond,
         searching, history
<1>3. /\ pc'[t] \notin BeforeFusion \cup AfterFusion
      /\ pc' = [pc EXCEPT ![t] = pc'[t]]
  BY <1>1 DEF IngestStep, CallIngest, Load, LoadFails, LoadSucceeds, LoadAs, Embed, EmbedThen,
         StoreVectors, StoreThen, StoreFails, StoreRefuses, IndexLexically, Succeed, Respond,
         Report, Goto, BeforeFusion, AfterFusion
<1>4. \/ reply' = reply
      \/ reply' = [reply EXCEPT ![t] = reply'[t]] /\ reply'[t].kind \notin FoundKinds
  BY <1>1 DEF IngestStep, CallIngest, Load, LoadFails, LoadSucceeds, LoadAs, Embed, EmbedThen,
         StoreVectors, StoreThen, StoreFails, StoreRefuses, IndexLexically, Succeed, Respond,
         NoReply, FoundKinds
<1>5. ASSUME NEW u \in Threads PROVE SearchFresh(u)' /\ AnswerSaw(reply[u])'
  <2>1. SearchFresh(u) /\ AnswerSaw(reply[u])
    BY DEF FreshInv
  <2>2. pc'[u] = pc[u] \/ pc'[u] \notin BeforeFusion \cup AfterFusion
    BY <1>1, <1>3
  <2>3. reply'[u] = reply[u] \/ reply'[u].kind \notin FoundKinds
    BY <1>1, <1>4
  <2>. QED
    BY <1>2, <2>1, <2>2, <2>3, SearchStays, AnswerStays
<1>. QED
  BY <1>5 DEF FreshInv

\* A step of a search that changes the search of its own thread only.
LEMMA OwnSearch ==
    ASSUME OrchInv, FreshInv, UNCHANGED settings, NEW t \in Threads, acked' = acked,
           pc' = [pc EXCEPT ![t] = pc'[t]], request' = [request EXCEPT ![t] = request'[t]],
           found' = [found EXCEPT ![t] = found'[t]], fresh' = [fresh EXCEPT ![t] = fresh'[t]],
           expected' = [expected EXCEPT ![t] = expected'[t]],
           reply' = [reply EXCEPT ![t] = reply'[t]],
           SearchFresh(t)', AnswerSaw(reply[t])'
    PROVE  FreshInv'
<1>1. ASSUME NEW u \in Threads, u # t PROVE SearchFresh(u)' /\ AnswerSaw(reply[u])'
  <2>1. SearchFresh(u) /\ AnswerSaw(reply[u])
    BY DEF FreshInv
  <2>2. /\ pc'[u] = pc[u] /\ request'[u] = request[u] /\ found'[u] = found[u]
        /\ fresh'[u] = fresh[u] /\ expected'[u] = expected[u] /\ reply'[u] = reply[u]
    BY <1>1 DEF OrchInv, Shapes
  <2>. QED
    BY <2>1, <2>2, SearchStays, AnswerStays
<1>. QED
  BY <1>1 DEF FreshInv

LEMMA CallSearchIsFresh ==
    ASSUME OrchInv, FreshInv, UNCHANGED settings, NEW t \in Threads,
           NEW r \in Requests, NEW route \in {"/search", "/query"}, CallSearch(t, r, route)
    PROVE  FreshInv'
<1>1. Shapes
  BY DEF OrchInv
<1>2. /\ pc' = [pc EXCEPT ![t] = pc'[t]] /\ pc'[t] \in {"search", "query"}
      /\ request' = [request EXCEPT ![t] = r] /\ expected' = [expected EXCEPT ![t] = acked]
      /\ reply' = [reply EXCEPT ![t] = NoReply]
      /\ UNCHANGED <<found, fresh, acked>>
  BY <1>1 DEF Shapes, CallSearch, history
<1>3. pc'[t] \notin BeforeFusion \cup AfterFusion
  BY <1>2 DEF BeforeFusion, AfterFusion
<1>4. expected'[t] = acked /\ reply'[t] = NoReply
  BY <1>1, <1>2 DEF Shapes
<1>5. SearchFresh(t)'
  BY <1>2, <1>3, <1>4 DEF SearchFresh
<1>6. AnswerSaw(reply[t])'
  BY <1>4 DEF AnswerSaw, NoReply, FoundKinds
<1>7. /\ request' = [request EXCEPT ![t] = request'[t]] /\ found' = [found EXCEPT ![t] = found'[t]]
      /\ fresh' = [fresh EXCEPT ![t] = fresh'[t]]
      /\ expected' = [expected EXCEPT ![t] = expected'[t]]
      /\ reply' = [reply EXCEPT ![t] = reply'[t]]
  BY <1>1, <1>2 DEF Shapes
<1>. QED
  BY <1>2, <1>5, <1>6, <1>7, OwnSearch

\* The request of a thread ends: its search is over, and its answer saw what it has to.
LEMMA FinishIsFresh ==
    ASSUME OrchInv, FreshInv, UNCHANGED settings, NEW t \in Threads,
           pc' = [pc EXCEPT ![t] = "idle"], NEW a, Finish(t, a), acked' = acked, AnswerSaw(a)
    PROVE  FreshInv'
<1>1. Shapes
  BY DEF OrchInv
<1>2. pc'[t] = "idle" /\ expected'[t] = {} /\ reply'[t] = a
  BY <1>1 DEF Shapes, Finish
<1>3. SearchFresh(t)'
  BY <1>2 DEF SearchFresh, BeforeFusion, AfterFusion
<1>4. AnswerSaw(reply[t])'
  BY <1>2 DEF settings, AnswerSaw, Saw, Fresh, Near, Cut
<1>5. /\ request' = [request EXCEPT ![t] = request'[t]] /\ found' = [found EXCEPT ![t] = found'[t]]
      /\ fresh' = [fresh EXCEPT ![t] = fresh'[t]]
      /\ expected' = [expected EXCEPT ![t] = expected'[t]]
      /\ reply' = [reply EXCEPT ![t] = reply'[t]] /\ pc' = [pc EXCEPT ![t] = pc'[t]]
  BY <1>1, <1>2 DEF Shapes, Finish
<1>. QED
  BY <1>3, <1>4, <1>5, OwnSearch

LEMMA AnswerStepIsFresh ==
    ASSUME OrchInv, FreshInv, UNCHANGED settings, NEW t \in Threads, AnswerStep(t)
    PROVE  FreshInv'
<1>1. SearchFresh(t)
  BY DEF FreshInv
<1>2. PICK kind \in FoundKinds :
         /\ Goto(t, "search done", "idle") \/ Goto(t, "query done", "idle")
         /\ Answer(t, kind)
         /\ UNCHANGED <<stores, ingested, ingesting, history, bounds>>
  BY DEF AnswerStep, ReturnSearch, AnswerWithoutEvidence, Generate, FoundKinds
<1>3. PICK a : /\ a.request = request[t] /\ a.found = found[t] /\ a.expected = expected[t]
               /\ a.fresh = fresh[t] /\ Finish(t, a)
  BY <1>2 DEF Answer
<1>4. pc[t] \in AfterFusion /\ pc' = [pc EXCEPT ![t] = "idle"]
  BY <1>2 DEF Goto, AfterFusion
<1>5. AnswerSaw(a)
  BY <1>1, <1>3, <1>4 DEF SearchFresh, AnswerSaw
<1>6. acked' = acked
  BY <1>2 DEF history
<1>. QED
  BY <1>3, <1>4, <1>5, <1>6, FinishIsFresh

\* A step of retrieve(): only where the search stands and what it has found changes.
LEMMA RetrievingIsFresh ==
    ASSUME OrchInv, FreshInv, UNCHANGED settings, NEW t \in Threads,
           pc' = [pc EXCEPT ![t] = pc'[t]], found' = [found EXCEPT ![t] = found'[t]],
           fresh' = [fresh EXCEPT ![t] = fresh'[t]],
           UNCHANGED <<request, expected, reply, acked>>, SearchFresh(t)'
    PROVE  FreshInv'
<1>1. /\ request' = [request EXCEPT ![t] = request'[t]]
      /\ expected' = [expected EXCEPT ![t] = expected'[t]]
      /\ reply' = [reply EXCEPT ![t] = reply'[t]]
  BY DEF OrchInv, Shapes
<1>2. AnswerSaw(reply[t])
  BY DEF FreshInv
<1>3. AnswerSaw(reply[t])'
  BY <1>2, AnswerStays
<1>. QED
  BY <1>1, <1>3, OwnSearch

\* The search of the vector store sees everything that is acknowledged: what is near
\* enough and not among its hits was cut off at its limit.
LEMMA DenseHitsSaw ==
    ASSUME NEW r, NEW T \in DenseHits(r), NEW wanted, wanted \subseteq vectors,
           "dense" \in r.methods
    PROVE  DenseSaw(r, T, wanted)
<1>1. PICK near : near = {d \in vectors : Sim(r.text, d.text) >= r.least}
  OBVIOUS
<1>2. T \subseteq near
  BY <1>1 DEF DenseHits, BestOf
<1>3. ASSUME store = "memory", NEW d \in wanted \ T, Near(r, d)
      PROVE  /\ Cardinality(T) = 2 * r.top
             /\ \A e \in T : Sim(r.text, e.text) >= Sim(r.text, d.text)
  <2>1. T \in BestOf(near, 2 * r.top, r.text)
    BY <1>1, <1>3 DEF DenseHits
  <2>2. d \in near \ T
    BY <1>1, <1>3 DEF Near
  <2>. QED
    BY <2>1, <2>2 DEF BestOf
<1>4. \A d \in T : Near(r, d)
  BY <1>1, <1>2 DEF Near
<1>. QED
  BY <1>3, <1>4 DEF DenseSaw

LEMMA SearchDenseIsFresh ==
    ASSUME OrchInv, FreshInv, UNCHANGED settings, NEW t \in Threads, SearchDense(t)
    PROVE  FreshInv'
<1>1. Shapes /\ AckedIsSearchable /\ SearchFresh(t)
  BY DEF OrchInv, StoresInv, FreshInv
<1>2. pc' = [pc EXCEPT ![t] = pc'[t]] /\ pc'[t] \in BeforeFusion
  BY <1>1 DEF Shapes, SearchDense, Advance, Goto, Dense, Lexical, BeforeFusion
<1>3. UNCHANGED <<request, fresh, expected, reply, acked>>
  BY DEF SearchDense, history
<1>4. /\ found' = [found EXCEPT ![t] = found'[t]]
      /\ "dense" \in request[t].methods => found'[t] \in DenseHits(request[t])
  BY <1>1 DEF Shapes, SearchDense
<1>5. expected[t] \subseteq acked /\ acked \subseteq vectors
  BY <1>1 DEF SearchFresh, AckedIsSearchable
<1>6. DenseSaw(request[t], found'[t], expected[t])
  <2>1. CASE "dense" \in request[t].methods
    BY <1>4, <1>5, <2>1, DenseHitsSaw
  <2>2. CASE "dense" \notin request[t].methods
    BY <2>2 DEF DenseSaw
  <2>. QED
    BY <2>1, <2>2
<1>7. DenseSaw(request[t], found[t], expected[t])'
  BY <1>3, <1>6 DEF settings, DenseSaw, Near
<1>8. BeforeFusion \cap AfterFusion = {}
  BY DEF BeforeFusion, AfterFusion
<1>9. SearchFresh(t)'
  BY <1>2, <1>3, <1>5, <1>7, <1>8 DEF SearchFresh
<1>10. fresh' = [fresh EXCEPT ![t] = fresh'[t]]
  BY <1>1, <1>3 DEF Shapes
<1>. QED
  BY <1>2, <1>3, <1>4, <1>9, <1>10, RetrievingIsFresh

\* The cut after the fusion keeps the most similar hits, and it is below the limit of
\* the search before it: of a document that either cut away the same can be said.
LEMMA FusedSaw ==
    ASSUME NEW r \in Requests, NEW docs, NEW wanted, DenseSaw(r, docs, wanted),
           r.methods = {"dense"}, NEW F \in Fused(r, docs, {})
    PROVE  Saw(r, F, wanted)
<1>1. r.top \in Nat \ {0} /\ CandidateLimit \in Nat
  BY OrchestratorAssumption DEF OrchestratorAssumption
<1>2. Cut(r) \in Nat /\ Cut(r) < 2 * r.top
  BY <1>1 DEF Cut
<1>3. F \subseteq docs /\ Cardinality(F) <= Cut(r)
  BY DEF Fused, BestOf
<1>4. \A d \in F : Near(r, d)
  BY <1>3 DEF DenseSaw
<1>5. ASSUME store = "memory", DenseWeighs, NEW d \in wanted \ F, Near(r, d)
      PROVE  /\ Cardinality(F) = Cut(r)
             /\ \A e \in F : Sim(r.text, e.text) >= Sim(r.text, d.text)
  <2>1. F # docs => Cardinality(F) = Cut(r)
    BY <1>5 DEF Fused, BestOf
  <2>2. CASE d \in docs
    BY <1>5, <2>1, <2>2 DEF Fused, BestOf
  <2>3. CASE d \notin docs
    <3>1. /\ Cardinality(docs) = 2 * r.top
          /\ \A e \in docs : Sim(r.text, e.text) >= Sim(r.text, d.text)
      BY <1>5, <2>3 DEF DenseSaw
    <3>2. F # docs
      BY <1>1, <1>2, <1>3, <3>1
    <3>. QED
      BY <1>3, <2>1, <3>1, <3>2
  <2>. QED
    BY <2>2, <2>3
<1>. QED
  BY <1>3, <1>4, <1>5 DEF Saw

LEMMA SearchLexicalIsFresh ==
    ASSUME OrchInv, FreshInv, UNCHANGED settings, NEW t \in Threads, SearchLexical(t)
    PROVE  FreshInv'
<1>1. Shapes /\ SearchFresh(t)
  BY DEF OrchInv, FreshInv
<1>2. pc[t] \in BeforeFusion /\ pc' = [pc EXCEPT ![t] = pc'[t]] /\ pc'[t] \in AfterFusion
  BY <1>1 DEF Shapes, SearchLexical, Advance, Goto, Lexical, Fill, Done, BeforeFusion, AfterFusion
<1>3. UNCHANGED <<request, fresh, expected, reply, acked>>
  BY DEF SearchLexical, history
<1>4. PICK H \in LexicalHits(request[t]) : \E F \in Fused(request[t], found[t], H) :
         found' = [found EXCEPT ![t] = F]
  BY DEF SearchLexical
<1>5. /\ found' = [found EXCEPT ![t] = found'[t]]
      /\ found'[t] \in Fused(request[t], found[t], H)
  BY <1>1, <1>4 DEF Shapes
<1>6. ASSUME Fresh(request[t], fresh[t]) PROVE Saw(request[t], found'[t], expected[t])
  <2>1. request[t].methods = {"dense"} /\ request[t] \in Requests
    BY <1>1, <1>6 DEF Fresh, Shapes
  <2>2. H = {}
    BY <1>4, <2>1 DEF LexicalHits
  <2>3. DenseSaw(request[t], found[t], expected[t])
    BY <1>1, <1>2 DEF SearchFresh
  <2>. QED
    BY <1>5, <2>1, <2>2, <2>3, FusedSaw
<1>7. Fresh(request[t], fresh[t])' => Saw(request[t], found[t], expected[t])'
  BY <1>3, <1>6 DEF settings, Saw, Fresh, Near, Cut
<1>8. BeforeFusion \cap AfterFusion = {}
  BY DEF BeforeFusion, AfterFusion
<1>9. SearchFresh(t)'
  BY <1>1, <1>2, <1>3, <1>7, <1>8 DEF SearchFresh
<1>10. fresh' = [fresh EXCEPT ![t] = fresh'[t]]
  BY <1>1, <1>3 DEF Shapes
<1>. QED
  BY <1>2, <1>3, <1>5, <1>9, <1>10, RetrievingIsFresh

LEMMA RetrieveStepIsFresh ==
    ASSUME OrchInv, FreshInv, UNCHANGED settings, NEW t \in Threads, RetrieveStep(t)
    PROVE  FreshInv'
<1>1. Shapes /\ SearchFresh(t)
  BY DEF OrchInv, FreshInv
<1>2. CASE GetCached(t)
  <2>1. /\ pc' = [pc EXCEPT ![t] = pc'[t]]
        /\ fresh' = [fresh EXCEPT ![t] = fresh'[t]]
        /\ found' = [found EXCEPT ![t] = found'[t]]
        /\ UNCHANGED <<request, expected, reply, acked>>
    BY <1>1, <1>2 DEF Shapes, GetCached, Advance, Goto, history
  <2>2. \/ pc'[t] \notin BeforeFusion \cup AfterFusion
        \/ pc'[t] \notin BeforeFusion /\ store # "pgvector" /\ fresh'[t] = FALSE
    BY <1>1, <1>2 DEF Shapes, GetCached, UsesCache, Advance, Goto, Begin, Dense, Done,
                      BeforeFusion, AfterFusion
  <2>3. SearchFresh(t)'
    BY <1>1, <2>1, <2>2 DEF SearchFresh, Fresh, settings
  <2>. QED
    BY <2>1, <2>3, RetrievingIsFresh
<1>3. CASE FillCache(t)
  <2>1. /\ pc[t] \in AfterFusion /\ pc' = [pc EXCEPT ![t] = pc'[t]] /\ pc'[t] \in AfterFusion
        /\ UNCHANGED <<request, found, fresh, expected, reply, acked>>
    BY <1>1, <1>3 DEF Shapes, FillCache, Advance, Goto, Fill, Done, AfterFusion, searching, history
  <2>2. found' = [found EXCEPT ![t] = found'[t]] /\ fresh' = [fresh EXCEPT ![t] = fresh'[t]]
    BY <1>1, <2>1 DEF Shapes
  <2>3. BeforeFusion \cap AfterFusion = {}
    BY DEF BeforeFusion, AfterFusion
  <2>4. SearchFresh(t)'
    BY <1>1, <2>1, <2>3 DEF SearchFresh, Saw, Fresh, Near, Cut, settings
  <2>. QED
    BY <2>1, <2>2, <2>4, RetrievingIsFresh
<1>4. ASSUME NEW kind, kind \notin FoundKinds, Finish(t, [kind |-> kind]),
             Advance(t, Dense, <<"idle", "idle">>) \/ Advance(t, Lexical, <<"idle", "idle">>),
             acked' = acked
      PROVE  FreshInv'
  <2>1. pc' = [pc EXCEPT ![t] = "idle"]
    BY <1>4 DEF Advance, Goto
  <2>2. PICK a : a = [kind |-> kind]
    OBVIOUS
  <2>3. AnswerSaw(a)
    BY <1>4, <2>2 DEF AnswerSaw
  <2>. QED
    BY <1>4, <2>1, <2>2, <2>3, FinishIsFresh
<1>5. CASE \E exception \in Exceptions : RetrieveFails(t, exception)
  BY <1>4, <1>5 DEF RetrieveFails, Exceptions, FoundKinds, history
<1>6. CASE LexicalFails(t)
  BY <1>4, <1>6 DEF LexicalFails, FoundKinds, history
<1>. QED
  BY <1>2, <1>3, <1>5, <1>6, SearchDenseIsFresh, SearchLexicalIsFresh DEF RetrieveStep

LEMMA FreshNext == OrchInv /\ FreshInv /\ [Next]_vars => FreshInv'
<1> SUFFICES ASSUME OrchInv, FreshInv, [Next]_vars PROVE FreshInv'
  OBVIOUS
<1>1. ASSUME NEW t \in Threads, ThreadStep(t) PROVE FreshInv'
  <2>. UNCHANGED settings
    BY <1>1 DEF ThreadStep
  <2>. QED
    BY <1>1, UploadIsFresh, RetrieveStepIsFresh, AnswerStepIsFresh DEF ThreadStep
<1>2. CASE EnvironmentStep
  <2>. UNCHANGED settings
    BY <1>2 DEF EnvironmentStep
  <2>1. ASSUME NEW t \in Threads, NEW u \in Uploads, CallIngest(t, u) PROVE FreshInv'
    BY <2>1, UploadIsFresh
  <2>2. ASSUME NEW t \in Threads, NEW r \in Requests, NEW route \in {"/search", "/query"},
               CallSearch(t, r, route)
        PROVE  FreshInv'
    BY <2>2, CallSearchIsFresh
  <2>3. CASE Restart
    <3>1. ASSUME NEW t \in Threads PROVE SearchFresh(t)' /\ AnswerSaw(reply[t])'
      <4>1. pc'[t] = "idle" /\ expected'[t] = {} /\ reply'[t].kind = "none"
        BY <2>3 DEF Restart, EachThread, NoReply
      <4>. QED
        BY <4>1 DEF SearchFresh, AnswerSaw, FoundKinds, BeforeFusion, AfterFusion
    <3>. QED
      BY <3>1 DEF FreshInv
  <2>. QED
    BY <1>2, <2>1, <2>2, <2>3 DEF EnvironmentStep
<1>3. CASE UNCHANGED vars
  BY <1>3 DEF vars, settings, searching, history, FreshInv, SearchFresh, AnswerSaw, DenseSaw,
              Saw, Fresh, Near, Cut
<1>. QED
  BY <1>1, <1>2, <1>3 DEF Next

\* A search by vectors that the cache does not answer, and with a database any such
\* search, gives at most as many documents as it asked for, all near enough; in memory
\* it misses a document acknowledged before only for others that are as near, although
\* its hits are cut at top_k * 2 and twice after that (pipeline.py:165, hybrid.py:108-137).
THEOREM SearchesStayFresh == Spec => []SearchesAreFresh
<1>1. FreshInv => SearchesAreFresh
  <2> SUFFICES ASSUME FreshInv, NEW a \in SearchReplies, Fresh(a.request, a.fresh)
               PROVE  Saw(a.request, a.found, a.expected)
    BY DEF SearchesAreFresh, Fresh, Saw
  <2>1. PICK t \in Threads : a = reply[t] /\ reply[t].kind \in FoundKinds
    BY DEF SearchReplies, FoundKinds
  <2>. QED
    BY <2>1 DEF FreshInv, AnswerSaw
<1>2. Spec => []FreshInv
  BY FreshInit, FreshNext, OrchInvAlways, PTL DEF Spec
<1>. QED
  BY <1>1, <1>2, PTL

-----------------------------------------------------------------------------
\* Documents that both stores hold and that are not counted yet.
Pending == {doc[t] : t \in {u \in Threads : pc[u] = "success"}}

CountInv == /\ IsFiniteSet(lexical \ Pending)
            /\ ingested = Cardinality(lexical \ Pending)

\* Only IndexLexically makes a document pending, and only Succeed counts one.
LEMMA CountStays ==
    ASSUME OrchInv, CountInv, NEW t \in Threads, pc[t] # "success", pc'[t] # "success",
           pc' = [pc EXCEPT ![t] = pc'[t]], doc' = [doc EXCEPT ![t] = doc'[t]],
           UNCHANGED <<lexical, ingested>>
    PROVE  CountInv'
<1>1. pc = [u \in Threads |-> pc[u]] /\ doc = [u \in Threads |-> doc[u]]
  BY DEF OrchInv, Shapes
<1>2. Pending' = Pending
  BY <1>1 DEF Pending
<1>. QED
  BY <1>2 DEF CountInv

LEMMA IndexLexicallyCounts ==
    ASSUME OrchInv, CountInv, NEW t \in Threads, IndexLexically(t)
    PROVE  CountInv'
<1>1. pc \in [Threads -> Outside \cup Loop \cup {"respond"}]
  BY DEF OrchInv, Shapes
<1>2. /\ pc[t] = "index" /\ pc' = [pc EXCEPT ![t] = "success"]
      /\ lexical' = lexical \cup {doc[t]} /\ doc' = doc /\ ingested' = ingested
  BY DEF IndexLexically, Goto, ingesting
<1>3. Pending' = Pending \cup {doc[t]}
  BY <1>1, <1>2 DEF Pending
<1>4. doc[t] \notin lexical
  BY <1>2 DEF OrchInv, Progress
<1>5. lexical' \ Pending' = lexical \ Pending
  BY <1>2, <1>3, <1>4
<1>. QED
  BY <1>2, <1>5 DEF CountInv

LEMMA SucceedCounts ==
    ASSUME OrchInv, CountInv, NEW t \in Threads, Succeed(t)
    PROVE  CountInv'
<1>1. /\ pc \in [Threads -> Outside \cup Loop \cup {"respond"}]
      /\ pc[t] = "success" /\ pc[t] \in Active /\ doc[t] \in lexical
  BY DEF OrchInv, Shapes, Succeed, Progress, Active
<1>2. /\ lexical' = lexical /\ doc' = doc /\ ingested' = ingested + 1
      /\ \A u \in Threads : pc'[u] = "success" <=> pc[u] = "success" /\ u # t
  BY <1>1 DEF Succeed, Report, stores
<1>3. ASSUME NEW u \in Threads, u # t, pc[u] = "success" PROVE doc[u] # doc[t]
  BY <1>1, <1>3 DEF OrchInv, Distinct, Active
<1>4. lexical' \ Pending' = (lexical \ Pending) \cup {doc[t]} /\ doc[t] \notin lexical \ Pending
  BY <1>1, <1>2, <1>3 DEF Pending
<1>5. Cardinality((lexical \ Pending) \cup {doc[t]}) = Cardinality(lexical \ Pending) + 1
      /\ IsFiniteSet((lexical \ Pending) \cup {doc[t]})
  BY <1>4, FS_AddElement DEF CountInv
<1>. QED
  BY <1>2, <1>4, <1>5 DEF CountInv

LEMMA CountNext == OrchInv /\ CountInv /\ [Next]_vars => CountInv'
<1> SUFFICES ASSUME OrchInv, CountInv, [Next]_vars PROVE CountInv'
  OBVIOUS
<1>1. Shapes /\ pc = [u \in Threads |-> pc[u]] /\ doc = [u \in Threads |-> doc[u]]
  BY DEF OrchInv, Shapes
<1>2. ASSUME NEW t \in Threads, Searching(t) PROVE CountInv'
  BY <1>1, <1>2, CountStays DEF Searching, Outside
<1>3. ASSUME NEW t \in Threads, ThreadStep(t) PROVE CountInv'
  <2>. UNCHANGED settings
    BY <1>3 DEF ThreadStep
  <2>1. CASE \/ Load(t) \/ Embed(t) \/ StoreVectors(t) \/ Respond(t)
             \/ \E committed \in BOOLEAN : StoreFails(t, committed)
             \/ \E some \in BOOLEAN : StoreRefuses(t, some)
    <3>1. /\ pc[t] # "success" /\ pc'[t] # "success" /\ pc' = [pc EXCEPT ![t] = pc'[t]]
          /\ lexical' = lexical
      BY <1>1, <2>1 DEF Load, LoadFails, LoadSucceeds, LoadAs, Embed, EmbedThen, StoreVectors,
                        StoreThen, StoreFails, StoreRefuses, Respond, Report, Goto, stores
    <3>2. doc' = [doc EXCEPT ![t] = doc'[t]]
      BY <1>1, <2>1 DEF Load, LoadFails, LoadSucceeds, LoadAs, Embed, EmbedThen, StoreVectors,
                        StoreThen, StoreFails, StoreRefuses, Respond, ingesting
    <3>3. ingested' = ingested
      BY <1>1, <2>1 DEF Shapes, Load, LoadFails, LoadSucceeds, LoadAs, Embed, EmbedThen,
                        StoreVectors, StoreThen, StoreFails, StoreRefuses, Respond
    <3>. QED
      BY <3>1, <3>2, <3>3, CountStays
  <2>2. CASE RetrieveStep(t) \/ AnswerStep(t)
    BY <2>2, <1>2, RetrieveIsSearching, AnswerIsSearching
  <2>. QED
    BY <1>3, <2>1, <2>2, IndexLexicallyCounts, SucceedCounts DEF ThreadStep, IngestStep
<1>4. CASE EnvironmentStep
  <2>. UNCHANGED settings
    BY <1>4 DEF EnvironmentStep
  <2>1. ASSUME NEW t \in Threads, NEW u \in Uploads, CallIngest(t, u) PROVE CountInv'
    BY <1>1, <2>1, CountStays DEF CallIngest, Goto, stores
  <2>2. ASSUME NEW t \in Threads, NEW r \in Requests, NEW route \in {"/search", "/query"},
               CallSearch(t, r, route)
        PROVE  CountInv'
    BY <1>2, <2>2, CallSearchIsSearching
  <2>3. CASE Restart
    <3>1. lexical' \ Pending' = {} /\ ingested' = 0
      BY <2>3 DEF Restart
    <3>. QED
      BY <3>1, FS_EmptySet DEF CountInv
  <2>. QED
    BY <1>4, <2>1, <2>2, <2>3 DEF EnvironmentStep
<1>5. CASE UNCHANGED vars
  BY <1>5 DEF vars, stores, ingesting, CountInv, Pending
<1>. QED
  BY <1>3, <1>4, <1>5 DEF Next

\* The counter ingest.documents is exact: when no request is under way it is the number
\* of documents that both stores hold, whatever failed before (pipeline.py:147).
THEOREM CounterIsExact == Spec => []DocumentsAreCounted
<1>1. Init => CountInv
  <2>1. Init => lexical \ Pending = {} /\ ingested = 0
    BY DEF Init
  <2>. QED
    BY <2>1, FS_EmptySet DEF CountInv
<1>2. OrchInv /\ CountInv => DocumentsAreCounted
  <2> SUFFICES ASSUME OrchInv, CountInv, Quiet PROVE ingested = Cardinality(vectors \cap lexical)
    BY DEF DocumentsAreCounted
  <2>1. lexical \ Pending = vectors \cap lexical
    BY DEF Quiet, Pending, OrchInv, StoresInv, LexicalHasVectors
  <2>. QED
    BY <2>1 DEF CountInv
<1>3. Spec => []CountInv
  BY <1>1, CountNext, OrchInvAlways, PTL DEF Spec
<1>. QED
  BY <1>2, <1>3, OrchInvAlways, PTL
=============================================================================

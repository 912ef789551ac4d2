---------------------------- MODULE PgVectorStore ---------------------------
(***************************************************************************)
(* PgVectorStore of app/storage/pgvector_store.py: the vector store that   *)
(* outlives the process.  Clients hand their calls to one event loop,      *)
(* where they interleave at every statement sent to PostgreSQL.  A call is *)
(* two transactions: _ensure_schema(), then the operation.                 *)
(*                                                                         *)
(* Of PostgreSQL the model has what the code relies on: a transaction's    *)
(* writes are seen by others when it commits; a row it has written is      *)
(* locked until then; a DELETE works on the rows that were there when it   *)
(* began, one after the other in an order of its own; CREATE INDEX and     *)
(* DROP TABLE wait for those who write to the table; of transactions that  *)
(* wait for each other one is ended with an error; and a transaction ends  *)
(* without effect when a statement fails or its connection is gone.        *)
(***************************************************************************)
EXTENDS Integers, Sequences

CONSTANTS Clients,   \* the threads that call the store
          DocIds,    \* the document ids
          Versions,  \* the contents, offsets and metadata that a document may have
          RowIds,    \* the chunk ids
          PgBatches, \* the [doc, ids, text, bad] that add() may be given: the chunks
                     \* of doc in version `text`, of which the one at place `bad` has
                     \* a vector of the wrong length (0: none has) or none at all
          MaxCalls,  \* bound: calls
          MaxCrashes \* bound: crashes of the process

BatchIds(b) == {b.ids[n] : n \in DOMAIN b.ids}

\* An id hashes the document, the place and the first 128 characters: two versions of a
\* document may agree on an id at a place, and may have more or fewer chunks.
ASSUME PgAssumption ==
    /\ PgBatches \subseteq [doc : DocIds, ids : Seq(RowIds), text : Versions, bad : Nat]
    /\ PgBatches # {} /\ \A b \in PgBatches : b.ids # <<>>
    /\ \A b, c \in PgBatches : \A m \in DOMAIN b.ids, n \in DOMAIN c.ids :
          b.ids[m] = c.ids[n] => b.doc = c.doc /\ m = n
    /\ MaxCalls \in Nat /\ MaxCrashes \in Nat

VARIABLES exists,  \* whether the table rag_chunks exists
          rows,    \* its committed rows: id -> [doc, text, meta], the versions that its
                   \* contents and vector are of, and its offsets and metadata
          pc,      \* the next statement of each thread's call
          call,    \* the call: [op, batch]
          place,   \* add(): the place of `c` in the batch
          seen,    \* a DELETE: the ids of the rows it found when it began
          written, \* the ids the running transaction of a thread has written
          reply,   \* how its last call ended
          latest,  \* history: document -> the batch stored last, while all of it is there
          added,   \* history: the batches stored, while something of them is there
          kept,    \* history: the batches acknowledged, while all of them is there
          calls,   \* calls so far
          crashes  \* crashes so far

table == <<exists, rows>>
history == <<latest, added, kept>>
pgVars == <<table, pc, call, place, seen, written, reply, history, calls, crashes>>

Ops == {"add", "search", "list", "count", "get", "delete", "reset"}
Steps == {"schema", "create", "index", "deleting"} \cup Ops
Endings == {"none", "added", "rows", "deleted", "DataError", "IntegrityError",
            "ProgrammingError", "OperationalError", "DeadlockDetected"}
NoBatch == CHOOSE b \in PgBatches : TRUE
NoCall == [op |-> "search", batch |-> NoBatch]

PgInit ==
    /\ exists = FALSE /\ rows = [i \in {} |-> <<>>]
    /\ pc = [t \in Clients |-> "idle"]
    /\ call = [t \in Clients |-> NoCall]
    /\ place = [t \in Clients |-> 1]
    /\ seen = [t \in Clients |-> {}]
    /\ written = [t \in Clients |-> {}]
    /\ reply = [t \in Clients |-> "none"]
    /\ latest = [d \in {} |-> <<>>] /\ added = {} /\ kept = {}
    /\ calls = 0 /\ crashes = 0

Goto(t, from, to) == pc[t] = from /\ pc' = [pc EXCEPT ![t] = to]

Batch(t) == call[t].batch
DocRows(d) == {i \in DOMAIN rows : rows[i].doc = d}

\* The call ends: its transaction is over.  A fault: it is left open.
EndCallInTransaction(t, r) ==
    /\ pc' = [pc EXCEPT ![t] = "idle"]
    /\ reply' = [reply EXCEPT ![t] = r]
    /\ UNCHANGED <<seen, written>>
EndCall(t, r) ==
    /\ pc' = [pc EXCEPT ![t] = "idle"]
    /\ seen' = [seen EXCEPT ![t] = {}]
    /\ written' = [written EXCEPT ![t] = {}]
    /\ reply' = [reply EXCEPT ![t] = r]

\* A call that ends with nothing changed for the others.
Finish(t, r) == EndCall(t, r) /\ UNCHANGED <<table, call, place, history, calls, crashes>>

-----------------------------------------------------------------------------
\* _run(...): a thread hands its call to the loop and waits for the result.
Call(t, op, b) ==
    /\ calls < MaxCalls
    /\ calls' = calls + 1
    /\ Goto(t, "idle", "schema")
    /\ call' = [call EXCEPT ![t] = [op |-> op, batch |-> b]]
    /\ place' = [place EXCEPT ![t] = 1]
    /\ reply' = [reply EXCEPT ![t] = "none"]
    /\ UNCHANGED <<table, seen, written, history, crashes>>

\* Those that write to the table: their transactions hold a lock on it.
Writers == {t \in Clients : pc[t] = "deleting" \/ written[t] # {}}

\* _ensure_schema(): CREATE TABLE IF NOT EXISTS finds the table or does not ...
LookForTable(t) ==
    /\ Goto(t, "schema", IF exists THEN "index" ELSE "create")
    /\ UNCHANGED <<table, call, place, seen, written, reply, history, calls, crashes>>

\* ... and creates it with its indexes, in one transaction ...
CreateTable(t) ==
    /\ pc[t] = "create" /\ ~exists
    /\ exists' = TRUE
    /\ \/ Goto(t, "create", call[t].op) /\ UNCHANGED <<seen, written, reply>>
       \/ EndCall(t, "OperationalError") \* the answer to the commit is lost
    /\ UNCHANGED <<rows, call, place, history, calls, crashes>>

\* ... or fails, as another thread has created it since: the names are taken.
TableExists(t) == pc[t] = "create" /\ exists /\ Finish(t, "IntegrityError")

\* CREATE INDEX IF NOT EXISTS locks the table against writers before it looks.
LookForIndexes(t) ==
    /\ Goto(t, "index", call[t].op)
    /\ exists /\ Writers = {}
    /\ UNCHANGED <<table, call, place, seen, written, reply, history, calls, crashes>>

\* Another thread's reset() has dropped the table since: the statement fails, with
\* the driver's exception.
UndefinedTable(t) ==
    /\ pc[t] \in ({"index"} \cup Ops) \ {"reset"} /\ ~exists
    /\ Finish(t, "ProgrammingError")

Locked(t, S) == \E u \in Clients \ {t} : written[u] \cap S # {}

\* INSERT ... ON CONFLICT DO UPDATE of the chunk at `place`
UpsertRow(t, i) ==
    /\ pc[t] = "add" /\ exists
    /\ place[t] <= Len(Batch(t).ids) /\ place[t] # Batch(t).bad
    /\ ~Locked(t, {i})
    /\ written' = [written EXCEPT ![t] = @ \cup {i}]
    /\ place' = [place EXCEPT ![t] = @ + 1]
    /\ UNCHANGED <<table, pc, call, seen, reply, history, calls, crashes>>

NextId(t) == Batch(t).ids[IF place[t] <= Len(Batch(t).ids) THEN place[t] ELSE 1]

\* A fault: the schema is looked for again, on a connection of its own, in front of
\* every row.
UpsertBehindSchema(t) == Writers = {} /\ UpsertRow(t, NextId(t))
Upsert(t) == UpsertRow(t, NextId(t))

\* The rows with the transaction of thread t applied: a row that is there keeps its
\* document, its offsets and its metadata.
Committed(t) == [i \in DOMAIN rows \cup written[t] |->
                    IF i \notin written[t] THEN rows[i]
                    ELSE IF i \in DOMAIN rows THEN [rows[i] EXCEPT !.text = Batch(t).text]
                    ELSE [doc |-> Batch(t).doc, text |-> Batch(t).text, meta |-> Batch(t).text]]

\* A fault: the transaction is left in front of a row that fails, and what it has
\* written is committed.
RejectKeepingRows(t) ==
    /\ pc[t] = "add" /\ exists /\ place[t] = Batch(t).bad
    /\ rows' = Committed(t)
    /\ EndCall(t, "DataError")
    /\ UNCHANGED <<exists, call, place, history, calls, crashes>>

\* The vector does not fit the column, or the vectors are more or fewer than the
\* chunks (zip(..., strict=True)): the transaction is rolled back.
RejectVector(t) ==
    /\ pc[t] = "add" /\ exists /\ place[t] = Batch(t).bad
    /\ Finish(t, "DataError")

Done(t) == /\ pc[t] = "add" /\ exists
           /\ place[t] > Len(Batch(t).ids) /\ place[t] # Batch(t).bad

\* What is stored last of a document, and the batches with rows in it.
StoreBatch(b) ==
    /\ latest' = [d \in DOMAIN latest \cup {b.doc} |-> IF d = b.doc THEN b ELSE latest[d]]
    /\ added' = added \cup {b}

\* A fault: `async with engine.connect()`, which does not commit.
ReturnUncommitted(t) ==
    /\ Done(t)
    /\ EndCall(t, "added")
    /\ kept' = kept \cup {Batch(t)}
    /\ UNCHANGED <<table, call, place, latest, added, calls, crashes>>

CommitAdd(t) ==
    /\ Done(t)
    /\ rows' = Committed(t)
    /\ StoreBatch(Batch(t))
    /\ EndCall(t, "added")
    /\ kept' = kept \cup {Batch(t)}
    /\ UNCHANGED <<exists, call, place, calls, crashes>>

\* The connection is lost after the commit: add() raises although it is stored.
CommitUnheard(t) ==
    /\ Done(t)
    /\ rows' = Committed(t)
    /\ StoreBatch(Batch(t))
    /\ EndCall(t, "OperationalError")
    /\ UNCHANGED <<exists, call, place, kept, calls, crashes>>

\* The connection is lost in front of a statement: the transaction is rolled back.
LoseConnection(t) == pc[t] # "idle" /\ Finish(t, "OperationalError")

\* search(), list_documents(), count() and get(): one SELECT each
Read(t) == pc[t] \in {"search", "list", "count", "get"} /\ exists /\ Finish(t, "rows")

-----------------------------------------------------------------------------
\* delete_document(): one DELETE, which finds the rows that are there ...
BeginDelete(t) ==
    /\ Goto(t, "delete", "deleting")
    /\ exists
    /\ seen' = [seen EXCEPT ![t] = DocRows(Batch(t).doc)]
    /\ UNCHANGED <<table, call, place, written, reply, history, calls, crashes>>

\* ... locks them one after the other ...
DeleteRow(t) ==
    /\ pc[t] = "deleting"
    /\ \E i \in seen[t] \ written[t] :
          /\ ~Locked(t, {i})
          /\ written' = [written EXCEPT ![t] = @ \cup {i}]
    /\ UNCHANGED <<table, pc, call, place, seen, reply, history, calls, crashes>>

\* Rows are gone: what is left of the histories, and of what other DELETEs have found.
Remove(gone) ==
    /\ rows' = [i \in DOMAIN rows \ gone |-> rows[i]]
    /\ latest' = [d \in {e \in DOMAIN latest : BatchIds(latest[e]) \cap gone = {}} |-> latest[d]]
    /\ added' = {b \in added : BatchIds(b) \cap (DOMAIN rows \ gone) # {}}
    /\ kept' = {b \in kept : BatchIds(b) \cap gone = {}}

\* ... and removes them.  Rows inserted by an add() that committed since are left.
CommitDelete(t) ==
    /\ pc[t] = "deleting" /\ seen[t] \subseteq written[t]
    /\ Remove(written[t])
    /\ pc' = [pc EXCEPT ![t] = "idle"]
    /\ seen' = [u \in Clients |-> IF u = t THEN {} ELSE seen[u] \ written[t]]
    /\ written' = [written EXCEPT ![t] = {}]
    /\ \E r \in {"deleted", "OperationalError"} : reply' = [reply EXCEPT ![t] = r]
    /\ UNCHANGED <<exists, call, place, calls, crashes>>

\* reset(): DROP TABLE IF EXISTS
ResetTable(t) ==
    /\ pc[t] = "reset" /\ Writers = {}
    /\ exists' = FALSE
    /\ Remove(DOMAIN rows)
    /\ \E r \in {"none", "OperationalError"} : EndCall(t, r)
    /\ UNCHANGED <<call, place, calls, crashes>>

\* A transaction waits for another that has written the row it is about to write.
WaitsFor(t, u) ==
    /\ t # u
    /\ \/ pc[t] = "add" /\ place[t] <= Len(Batch(t).ids) /\ NextId(t) \in written[u]
       \/ pc[t] = "deleting" /\ (seen[t] \ written[t]) \cap written[u] # {}

\* Of transactions that wait for each other in a circle PostgreSQL ends one.
BreakDeadlock(t) ==
    /\ \E S \in SUBSET Clients : t \in S /\ \E next \in [S -> S] :
          /\ \A u \in S : WaitsFor(u, next[u])
          /\ \A u, v \in S : next[u] = next[v] => u = v
    /\ Finish(t, "DeadlockDetected")

\* The process dies: what no transaction has committed is gone.
Crash ==
    /\ crashes < MaxCrashes
    /\ crashes' = crashes + 1
    /\ pc' = [t \in Clients |-> "idle"]
    /\ seen' = [t \in Clients |-> {}]
    /\ written' = [t \in Clients |-> {}]
    /\ reply' = [t \in Clients |-> "none"]
    /\ UNCHANGED <<table, call, place, history, calls>>

-----------------------------------------------------------------------------
SchemaStep(t) == LookForTable(t) \/ CreateTable(t) \/ TableExists(t) \/ LookForIndexes(t)
OpStep(t) == \/ UndefinedTable(t) \/ Upsert(t) \/ RejectVector(t) \/ CommitAdd(t)
             \/ Read(t) \/ BeginDelete(t) \/ DeleteRow(t) \/ CommitDelete(t)
             \/ ResetTable(t) \/ BreakDeadlock(t)
CallStep(t) == SchemaStep(t) \/ OpStep(t)

PgNext ==
    \/ \E t \in Clients :
          \/ CallStep(t) \/ CommitUnheard(t) \/ LoseConnection(t)
          \/ \E op \in Ops, b \in PgBatches :
                /\ op \notin {"add", "get", "delete"} => b = NoBatch
                /\ Call(t, op, b)
    \/ Crash

PgSpec == PgInit /\ [][PgNext]_pgVars

\* PostgreSQL answers every statement that no lock holds up.
PgFairSpec == PgSpec /\ \A t \in Clients : WF_pgVars(CallStep(t))

-----------------------------------------------------------------------------
\* Every variable keeps its shape, and a lock is held only inside a transaction.
PgTypeOK ==
    /\ exists \in BOOLEAN
    /\ DOMAIN rows \subseteq RowIds
    /\ rows \in [DOMAIN rows -> [doc : DocIds, text : Versions, meta : Versions]]
    /\ pc \in [Clients -> {"idle"} \cup Steps]
    /\ call \in [Clients -> [op : Ops, batch : PgBatches]]
    /\ place \in [Clients -> Nat \ {0}]
    /\ seen \in [Clients -> SUBSET RowIds] /\ written \in [Clients -> SUBSET RowIds]
    /\ \A t \in Clients : /\ written[t] # {} => pc[t] \in {"add", "deleting"}
                          /\ seen[t] # {} => pc[t] = "deleting"
    /\ reply \in [Clients -> Endings]
    /\ DOMAIN latest \subseteq DocIds /\ latest \in [DOMAIN latest -> PgBatches]
    /\ added \subseteq PgBatches /\ kept \subseteq PgBatches
    /\ calls \in 0..MaxCalls /\ crashes \in 0..MaxCrashes

\* The version of a document that add() stored last is stored whole, with all of its
\* chunks and no contents of another version, until a row of it is removed; and a row
\* has its contents and its metadata from versions that were stored: nothing is there
\* of an add() that met a vector of the wrong length, lost its connection or died in
\* the middle of its loop, whoever else adds or deletes the document at the time.
\* (pgvector_store.py:139-170, 301-314)
DocumentsAreWhole ==
    /\ \A d \in DOMAIN latest : \A i \in BatchIds(latest[d]) :
          i \in DOMAIN rows /\ rows[i].doc = d /\ rows[i].text = latest[d].text
    /\ \A i \in DOMAIN rows : \E b, c \in added :
          /\ i \in BatchIds(b) \cap BatchIds(c)
          /\ rows[i] = [doc |-> b.doc, text |-> b.text, meta |-> c.text]

\* Every chunk that add() has acknowledged is stored until one of its batch is removed,
\* across crashes. (pgvector_store.py:139-170)
AcknowledgedIsStored == \A b \in kept : BatchIds(b) \subseteq DocRows(b.doc)

\* Every call returns or raises, although transactions wait for each other's rows and
\* the schema check for all of them. (pgvector_store.py:85-88, 118-130, 139-170)
EveryCallEnds == \A t \in Clients : pc[t] # "idle" ~> pc[t] = "idle"
=============================================================================

------------------------------- MODULE Ingest -------------------------------
(***************************************************************************)
(* handle_ingest_contract (scripts/ingest_worker.py) in several workers:   *)
(* the contract row, the embeddings, the vectors in Pinecone, the clause   *)
(* rows.  A contract may be dispatched again, by a re-run of the script or *)
(* in a newer version, also while another worker is at it, and a task may  *)
(* fail or its worker die at any await.  Each session() (db.py) is one     *)
(* transaction; an upsert locks its row to the end of the transaction and  *)
(* waits for a row that another has locked.                                *)
(***************************************************************************)
EXTENDS Driver

CONSTANT Workers

NULL == "null"    \* a column without a value

VARIABLES
  at,          \* where each worker is in the handler
  task,        \* {} or {the payload of its task}
  progress,    \* calls made by embed, or clauses inserted by the open transaction
  contracts,   \* table contracts: contract id -> filename
  clauses,     \* table clauses: clause id -> row
  index,       \* the Pinecone index: id -> vector
  finished     \* history: the payloads a handler has returned for

handling == <<at, task, progress>>
stores == <<contracts, clauses, index>>
ivars == <<dvars, handling, stores, finished>>

Points == {"idle", "contract", "embed", "vectors", "rows"}

Init ==
  /\ DriverInit
  /\ at = [w \in Workers |-> "idle"]
  /\ task = [w \in Workers |-> {}]
  /\ progress = [w \in Workers |-> 0]
  /\ contracts = <<>>
  /\ clauses = <<>>
  /\ index = <<>>
  /\ finished = {}

(* What is stored of a parsed contract: its row, its clauses' rows ... *)
Ids(p) == {p.clauses[i].clause_id : i \in DOMAIN p.clauses}
Texts(p) == [i \in DOMAIN p.clauses |-> p.clauses[i].text]
ContractRow(p) == [id \in {p.contract_id} |-> p.filename]
Rows(p) ==
  [id \in Ids(p) |->
     LET c == CHOOSE d \in ToSet(p.clauses) : d.clause_id = id
     IN  [contract_id |-> c.contract_id, category |-> c.category, text |-> c.text,
          risk_level |-> NULL]]

(* A table or index once these rows are inserted, over those with their id. *)
Upserted(rows, table) ==
  [id \in DOMAIN rows \cup DOMAIN table |->
     IF id \in DOMAIN rows THEN rows[id] ELSE table[id]]

(* Mutant: the row is replaced. *)
ReplaceRows(rows) == Upserted(rows, clauses)

(* ON CONFLICT DO UPDATE SET text: the other columns stay as they are. *)
UpsertRows(rows) ==
  LET updated(id) == [clauses[id] EXCEPT !.text = rows[id].text]
  IN  Upserted([id \in DOMAIN rows |->
                  IF id \in DOMAIN clauses THEN updated(id) ELSE rows[id]], clauses)

(* ... and the records of zip(clauses, vectors). *)
Records(p) ==
  LET vectors == embed(Texts(p), MaxChunk)
      zip == DOMAIN p.clauses \cap DOMAIN vectors
  IN  [id \in {p.clauses[i].clause_id : i \in zip} |->
         vectors[CHOOSE i \in zip : p.clauses[i].clause_id = id]]

(* The payload of w's task. *)
payload(w) == CHOOSE p \in task[w] : TRUE

Goto(w, point) ==
  /\ at' = [at EXCEPT ![w] = point]
  /\ progress' = [progress EXCEPT ![w] = 0]
  /\ UNCHANGED task

(* Mutant: the worker forgets where it was, not what it was at. *)
LeaveKeepsTask(w) ==
  /\ at' = [at EXCEPT ![w] = "idle"]
  /\ progress' = [progress EXCEPT ![w] = 0]
  /\ UNCHANGED task

Leave(w) ==
  /\ at' = [at EXCEPT ![w] = "idle"]
  /\ progress' = [progress EXCEPT ![w] = 0]
  /\ task' = [task EXCEPT ![w] = {}]

(* _handle returns; the worker pops its next task later. *)
Returns(w) ==
  /\ Leave(w)
  /\ finished' = finished \cup task[w]

-----------------------------------------------------------------------------

(* The worker pops a task; neither the ring nor Redis excludes that two    *)
(* workers have one contract at a time (Cluster's NoContention).           *)
Start(w, t) ==
  /\ at[w] = "idle"
  /\ inflight' = inflight \ {t}
  /\ task' = [task EXCEPT ![w] = {t.payload}]
  /\ at' = [at EXCEPT ![w] = "contract"]
  /\ UNCHANGED <<script, runs, promised, progress, stores, finished>>

(* Mutant: the contract's row is deleted first, its clauses with it. *)
ReplaceContract(w) ==
  /\ at[w] = "contract"
  /\ IF payload(w).clauses = <<>>
     THEN Returns(w)
     ELSE Goto(w, "embed") /\ UNCHANGED finished
  /\ contracts' = Upserted(ContractRow(payload(w)), contracts)
  /\ clauses' = [id \in DOMAIN clauses \ Ids(payload(w)) |-> clauses[id]]
  /\ UNCHANGED <<dvars, index>>

(* 1. The contract row; nothing more to do for an empty contract. *)
UpsertContract(w) ==
  /\ at[w] = "contract"
  /\ IF payload(w).clauses = <<>>
     THEN Returns(w)
     ELSE Goto(w, "embed") /\ UNCHANGED finished
  /\ contracts' = Upserted(ContractRow(payload(w)), contracts)
  /\ UNCHANGED <<dvars, clauses, index>>

(* 2. One call of embed's loop; only this task sees the vectors. *)
Embed(w) ==
  /\ at[w] = "embed"
  /\ IF progress[w] + 1 < Len(Chunks(Texts(payload(w)), MaxChunk))
     THEN progress' = [progress EXCEPT ![w] = @ + 1] /\ UNCHANGED <<at, task>>
     ELSE Goto(w, "vectors")
  /\ UNCHANGED <<dvars, stores, finished>>

(* 3. One upsert call for all records. *)
UpsertVectors(w) ==
  /\ at[w] = "vectors"
  /\ Goto(w, "rows")
  /\ index' = Upserted(Records(payload(w)), index)
  /\ UNCHANGED <<dvars, contracts, clauses, finished>>

(* Mutant: one of the workers inserts them from the last to the first. *)
RowReversed(w, i) ==
  LET cs == payload(w).clauses
  IN  cs[IF w = CHOOSE v \in Workers : TRUE THEN i ELSE Len(cs) + 1 - i].clause_id

(* 4. The clause rows, in the payload's order, in one transaction. *)
Row(w, i) == payload(w).clauses[i].clause_id

NextRow(w) == Row(w, progress[w] + 1)

(* The rows w's open transaction has locked. *)
Locked(w) == IF at[w] = "rows" THEN {Row(w, i) : i \in 1 .. progress[w]} ELSE {}

(* Mutant: every row in a transaction of its own. *)
InsertAndCommit(w) ==
  /\ at[w] = "rows" /\ progress[w] < Len(payload(w).clauses)
  /\ \A v \in Workers \ {w} : NextRow(w) \notin Locked(v)
  /\ progress' = [progress EXCEPT ![w] = @ + 1]
  /\ clauses' = UpsertRows([id \in {NextRow(w)} |-> Rows(payload(w))[id]])
  /\ UNCHANGED <<dvars, at, task, contracts, index, finished>>

InsertClause(w) ==
  /\ at[w] = "rows" /\ progress[w] < Len(payload(w).clauses)
  /\ \A v \in Workers \ {w} : NextRow(w) \notin Locked(v)
  /\ progress' = [progress EXCEPT ![w] = @ + 1]
  /\ UNCHANGED <<dvars, at, task, stores, finished>>

Commit(w) ==
  /\ at[w] = "rows" /\ progress[w] = Len(payload(w).clauses)
  /\ Returns(w)
  /\ clauses' = UpsertRows(Rows(payload(w)))
  /\ UNCHANGED <<dvars, contracts, index>>

(* An await raises, or the worker dies, perhaps after the commit or the    *)
(* upsert it was waiting for took effect, the latter for some of the       *)
(* records; an open transaction is rolled back.                            *)
Fails(w) ==
  /\ at[w] # "idle"
  /\ \/ UNCHANGED <<contracts, index, clauses>>
     \/ /\ at[w] = "contract"
        /\ contracts' = Upserted(ContractRow(payload(w)), contracts)
        /\ UNCHANGED <<index, clauses>>
     \/ /\ at[w] = "vectors"
        /\ \E ids \in SUBSET DOMAIN Records(payload(w)) :
             index' = Upserted([id \in ids |-> Records(payload(w))[id]], index)
        /\ UNCHANGED <<contracts, clauses>>
     \/ /\ at[w] = "rows" /\ progress[w] = Len(payload(w).clauses)
        /\ clauses' = UpsertRows(Rows(payload(w)))
        /\ UNCHANGED <<contracts, index>>
  /\ Leave(w)
  /\ promised' = promised \ task[w]
  /\ UNCHANGED <<script, inflight, runs, finished>>

Step(w) ==
  UpsertContract(w) \/ Embed(w) \/ UpsertVectors(w) \/ InsertClause(w) \/ Commit(w)

Pipeline ==
  \/ DriverNext /\ UNCHANGED <<handling, stores, finished>>
  \/ \E w \in Workers : Fails(w) \/ \E t \in inflight : Start(w, t)

-----------------------------------------------------------------------------
(* Properties.                                                             *)

Payloads == UNION {ToSet(Parsed[f]) : f \in DOMAIN Files}

(* The contract's row, and of every clause the row and its own vector. *)
Stored(p) ==
  /\ p.contract_id \in DOMAIN contracts
  /\ \A c \in ToSet(p.clauses) :
       /\ c.clause_id \in DOMAIN clauses \cap DOMAIN index
       /\ clauses[c.clause_id].text = c.text
       /\ index[c.clause_id] = Embedding(c.text)

(* AllFaithful and AllInOrder, which no state changes: evaluated once. *)
ParsesFaithfully == runs = 0 => AllFaithful
EmbedsInOrder == runs = 0 => AllInOrder

(* "so a retried task is safe" (scripts/ingest_worker.py:12-13): what one  *)
(* run has completed, no later or concurrent run of any task undoes, nor   *)
(* the ingestion of another version of the contract.                       *)
FinishedStaysComplete == \A p \in finished : Stored(p)

(* Two runs of one contract lock the same rows: since they do it in the    *)
(* same order, each gets through.                                          *)
RunsGetThrough == \A w \in Workers : []<>(at[w] # "rows")

(* "dispatches one `ingest_contract` task per contract"                    *)
(* (scripts/ingest.py:3): every contract that a run was asked for, up to   *)
(* its limit, is ingested in the end, unless a task with its payload was   *)
(* lost or failed in a handler, or a dispatch of the run raised, its own   *)
(* or that of a contract before it.  For such a dispatch ends the run and  *)
(* costs all that is left of it, where a failed task costs no contract but *)
(* its own.  What was lost counts again when a later run asks for it.      *)
EverythingIngested == []<>(promised \subseteq finished)

=============================================================================

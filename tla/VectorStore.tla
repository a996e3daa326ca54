---------------------------- MODULE VectorStore ----------------------------
(***************************************************************************)
(* LocalNumpyIndex of src/legallens/ingestion/pinecone_writer.py: every    *)
(* process that uses the local vector store reads the two files once,      *)
(* works on its own copy in memory and, if it upserts, writes the whole    *)
(* copy back.  Ingest workers upsert; the API is a process that never      *)
(* does.  Within a process nothing awaits; between processes nothing       *)
(* locks.                                                                  *)
(*                                                                         *)
(* A clause id is a hash of the contract, the category and the text        *)
(* (ingestion/parser.py, _clause_id), so it stands for its vector too: row *)
(* i of vectors.npy is written as the id of the clause it embeds, and row  *)
(* i of manifest.json as the id it names.                                  *)
(***************************************************************************)
EXTENDS Sorting, Sequences, SequencesExt

CONSTANTS
  Processes,
  Batches,     \* what is upserted: the clause ids of each contract, in order
  MaxRows,     \* bound on the rows of vectors.npy, which crashes can inflate
  Absent,      \* a file that does not exist
  Torn,        \* a file that is truncated or half written: reading it raises
  Score        \* how close each clause's vector is to that of a query

Ids == UNION {ToSet(b) : b \in Batches}

ASSUME StoreConstants ==
  /\ \A b \in Batches : b \in Seq(ToSet(b)) /\ IsInjective(b)
  /\ MaxRows \in Nat
  /\ Score \in [Ids -> Nat]
  /\ Absent # Torn /\ Absent \notin Seq(Ids) /\ Torn \notin Seq(Ids)

VARIABLES
  vfile,    \* vectors.npy
  mfile,    \* manifest.json
  at,       \* where each process is
  vec,      \* self.vectors
  man,      \* self.manifest
  stored,   \* history: the ids whose upsert has returned
  writers,  \* history: the processes that have upserted
  crashed,  \* history: whether one was killed in the middle of a write
  before    \* history: what was stored when each process opened its store

history == <<stored, writers, crashed, before>>
vars == <<vfile, mfile, at, vec, man, history>>

Points ==
  {"closed",    \* no store yet: _get_store's global is None
   "opening",   \* in __init__, between np.load and the manifest's read_text
   "open",
   "vectors",   \* in _persist: np.save has truncated the file
   "between",   \* vectors.npy is written, manifest.json untouched
   "manifest"}  \* write_text has truncated the file

Init ==
  /\ vfile = Absent
  /\ mfile = Absent
  /\ at = [p \in Processes |-> "closed"]
  /\ vec = [p \in Processes |-> <<>>]
  /\ man = [p \in Processes |-> <<>>]
  /\ stored = {}
  /\ writers = {}
  /\ crashed = FALSE
  /\ before = [p \in Processes |-> {}]

Goto(p, point) == at' = [at EXCEPT ![p] = point]

-----------------------------------------------------------------------------
(* __init__                                                                *)

Opens(p) ==
  /\ before' = [before EXCEPT ![p] = stored]
  /\ UNCHANGED <<stored, writers, crashed>>

(* Mutant: the store starts empty whatever there is. *)
OpenNew(p) ==
  /\ at[p] = "closed"
  /\ vec' = [vec EXCEPT ![p] = <<>>]
  /\ man' = [man EXCEPT ![p] = <<>>]
  /\ Goto(p, "open")
  /\ Opens(p)
  /\ UNCHANGED <<vfile, mfile>>

(* One of the files is missing: the store starts empty. *)
OpenEmpty(p) ==
  /\ at[p] = "closed"
  /\ vfile = Absent \/ mfile = Absent
  /\ vec' = [vec EXCEPT ![p] = <<>>]
  /\ man' = [man EXCEPT ![p] = <<>>]
  /\ Goto(p, "open")
  /\ Opens(p)
  /\ UNCHANGED <<vfile, mfile>>

(* np.load; of a torn file it raises and the process is left without a     *)
(* store, to try again with its next task.                                 *)
LoadVectors(p) ==
  /\ at[p] = "closed"
  /\ vfile \notin {Absent, Torn} /\ mfile # Absent
  /\ vec' = [vec EXCEPT ![p] = vfile]
  /\ Goto(p, "opening")
  /\ Opens(p)
  /\ UNCHANGED <<vfile, mfile, man>>

(* Mutant: a torn manifest is not noticed. *)
LoadManifestAsIs(p) ==
  /\ at[p] = "opening"
  /\ Goto(p, "open")
  /\ man' = [man EXCEPT ![p] = mfile]
  /\ UNCHANGED <<vfile, mfile, vec, history>>

LoadManifest(p) ==
  /\ at[p] = "opening"
  /\ IF mfile = Torn THEN Goto(p, "closed") /\ UNCHANGED man
     ELSE Goto(p, "open") /\ man' = [man EXCEPT ![p] = mfile]
  /\ UNCHANGED <<vfile, mfile, vec, history>>

-----------------------------------------------------------------------------
(* upsert                                                                  *)

(* Mutant: known ids are overwritten at their place in the batch. *)
OverwriteByBatch(p, batch) ==
  [i \in DOMAIN vec[p] |->
     IF i \in DOMAIN batch /\ batch[i] \in ToSet(man[p]) THEN batch[i] ELSE vec[p][i]]

(* The rows of ids the manifest has already are overwritten in place ...   *)
Overwrite(p, batch) ==
  [i \in DOMAIN vec[p] |->
     IF i \in DOMAIN man[p] /\ man[p][i] \in ToSet(batch)
     THEN man[p][i] ELSE vec[p][i]]

(* Mutant: known ids are appended too. *)
NewAll(p, batch) == batch

(* ... and the others are appended, in the batch's order. *)
New(p, batch) == Kept(batch, {i \in DOMAIN batch : batch[i] \notin ToSet(man[p])})

(* The places in the batch of ids whose row is past the end of vectors. *)
OutOfBounds(p, batch) ==
  {j \in DOMAIN batch :
     \E i \in DOMAIN man[p] \ DOMAIN vec[p] : man[p][i] = batch[j]}

(* Mutant: the new rows replace the old ones. *)
UpsertReplaces(p, batch) ==
  /\ at[p] = "open"
  /\ vec' = [vec EXCEPT ![p] = New(p, batch)]
  /\ man' = [man EXCEPT ![p] = New(p, batch)]
  /\ vfile' = Torn
  /\ Goto(p, "vectors")
  /\ writers' = writers \cup {p}
  /\ UNCHANGED <<mfile, stored, crashed, before>>

(* Mutant: the manifest lists the whole batch, known ids included. *)
UpsertListsAll(p, batch) ==
  /\ at[p] = "open"
  /\ OutOfBounds(p, batch) = {}
  /\ Len(man[p]) + Len(batch) =< MaxRows
  /\ vec' = [vec EXCEPT ![p] = Overwrite(p, batch) \o New(p, batch)]
  /\ man' = [man EXCEPT ![p] = @ \o batch]
  /\ vfile' = Torn
  /\ Goto(p, "vectors")
  /\ writers' = writers \cup {p}
  /\ UNCHANGED <<mfile, stored, crashed, before>>

Upsert(p, batch) ==
  /\ at[p] = "open"
  /\ OutOfBounds(p, batch) = {}
  /\ Len(vec[p]) + Len(New(p, batch)) =< MaxRows
  /\ vec' = [vec EXCEPT ![p] = Overwrite(p, batch) \o New(p, batch)]
  /\ man' = [man EXCEPT ![p] = @ \o New(p, batch)]
  /\ vfile' = Torn
  /\ Goto(p, "vectors")
  /\ writers' = writers \cup {p}
  /\ UNCHANGED <<mfile, stored, crashed, before>>

(* IndexError at the first of them: nothing is persisted, and the rows     *)
(* before it stay overwritten in memory.                                   *)
UpsertRaises(p, batch) ==
  /\ at[p] = "open"
  /\ \E j \in OutOfBounds(p, batch) :
       /\ \A k \in OutOfBounds(p, batch) : j =< k
       /\ vec' = [vec EXCEPT ![p] = Overwrite(p, SubSeq(batch, 1, j - 1))]
  /\ UNCHANGED <<vfile, mfile, at, man, history>>

(* What a process leaves in a file it truncated.  If another one is        *)
(* writing the file too, or has written it meanwhile, that may be a        *)
(* mixture of both contents, which does not parse.                         *)
Written(p, file, content) ==
  {content} \cup
    IF file # Torn \/ \E q \in Processes \ {p} : at[q] = at[p] THEN {Torn} ELSE {}

SaveVectors(p) ==
  /\ at[p] = "vectors"
  /\ vfile' \in Written(p, vfile, vec[p])
  /\ Goto(p, "between")
  /\ UNCHANGED <<mfile, vec, man, history>>

OpenManifest(p) ==
  /\ at[p] = "between"
  /\ mfile' = Torn
  /\ Goto(p, "manifest")
  /\ UNCHANGED <<vfile, vec, man, history>>

SaveManifest(p) ==
  /\ at[p] = "manifest"
  /\ mfile' \in Written(p, mfile, man[p])
  /\ stored' = stored \cup ToSet(man[p])
  /\ Goto(p, "open")
  /\ UNCHANGED <<vfile, vec, man, writers, crashed, before>>

(* The process is killed; another takes its place. *)
Crash(p) ==
  /\ at[p] # "closed"
  /\ crashed' = (crashed \/ at[p] \in {"vectors", "between", "manifest"})
  /\ Goto(p, "closed")
  /\ vec' = [vec EXCEPT ![p] = <<>>]
  /\ man' = [man EXCEPT ![p] = <<>>]
  /\ before' = [before EXCEPT ![p] = {}]
  /\ UNCHANGED <<vfile, mfile, stored, writers>>

-----------------------------------------------------------------------------
(* query, which reads the store in memory and nothing else                 *)

(* scores[i] of a row that the manifest has and the vectors have not is an *)
(* IndexError.                                                             *)
QueryRaises(p) == Len(man[p]) > Len(vec[p])

(* The rows of the manifest by score, those of one score in their order.   *)
Rank(p, i) ==
  LET score(j) == Score[vec[p][j]]
  IN  1 + Cardinality({j \in DOMAIN man[p] :
             score(j) > score(i) \/ (score(j) = score(i) /\ j < i)})

query(p, top_k) ==
  LET k == IF top_k < Len(man[p]) THEN top_k ELSE Len(man[p])
      ranked(r) == CHOOSE i \in DOMAIN man[p] : Rank(p, i) = r
  IN  [r \in 1 .. k |-> [id |-> man[p][ranked(r)], score |-> Score[vec[p][ranked(r)]]]]

-----------------------------------------------------------------------------

Open(p) == OpenEmpty(p) \/ LoadVectors(p) \/ LoadManifest(p)
Persist(p) == SaveVectors(p) \/ OpenManifest(p) \/ SaveManifest(p)

Next ==
  \E p \in Processes :
    \/ Open(p)
    \/ \E batch \in Batches : Upsert(p, batch) \/ UpsertRaises(p, batch)
    \/ Persist(p)
    \/ Crash(p)

Spec == Init /\ [][Next]_vars

-----------------------------------------------------------------------------
(* Properties.                                                             *)

Files == Seq(Ids) \cup {Absent, Torn}

TypeOK ==
  /\ vfile \in Files
  /\ mfile \in Files
  /\ at \in [Processes -> Points]
  /\ vec \in [Processes -> Seq(Ids)]
  /\ man \in [Processes -> Seq(Ids)]
  /\ stored \subseteq Ids
  /\ writers \subseteq Processes
  /\ crashed \in BOOLEAN
  /\ before \in [Processes -> SUBSET stored]

(* What the layout needs to work: no process but p has ever written. *)
SoleWriter(p) == writers \subseteq {p}

(* "Returns [{'id', 'score', 'metadata'}], highest score first"            *)
(* (pinecone_writer.py:41): as long as one process writes and none is      *)
(* killed while it does, every query that a store can answer gives each    *)
(* clause its own score and passes over none that is closer, also where    *)
(* the store was opened in the middle of a write.                          *)
QueriesAreRight ==
  \A p, q \in Processes :
    SoleWriter(p) /\ ~crashed /\ at[q] = "open" /\ ~QueryRaises(q) =>
      \A top_k \in 1 .. MaxRows :
        LET r == query(q, top_k)
            ids == {r[i].id : i \in DOMAIN r}
        IN  /\ \A i \in DOMAIN r : r[i].score = Score[r[i].id]
            /\ \A i, j \in DOMAIN r : i < j => r[i].id # r[j].id /\ r[i].score >= r[j].score
            /\ \A id \in ToSet(man[q]) \ ids :
                 Len(r) = top_k /\ \A i \in DOMAIN r : r[i].score >= Score[id]

(* "list of {id, metadata}, parallel to rows of vectors.npy"               *)
(* (pinecone_writer.py:91): as long as one process writes and none is      *)
(* killed while it does, a query of no store raises.                       *)
StoresAreParallel ==
  \A p, q \in Processes :
    SoleWriter(p) /\ ~crashed /\ at[q] = "open" => ~QueryRaises(q)

(* A store is opened once per process ("Per-process singletons are fine",  *)
(* retrieval/tools.py:28) and sees no later write of another one; but what *)
(* had been stored when it was opened, it has, with the vectors, unless    *)
(* several processes write or one was killed while it did.                 *)
OpenSeesStored ==
  \A p, q \in Processes : SoleWriter(p) /\ ~crashed /\ at[q] = "open" =>
    before[q] \subseteq ToSet(man[q]) \cap ToSet(vec[q])

(* Vectors are written before the manifest, so the one process that writes *)
(* never finds a clause in its manifest that it has no row for, wherever   *)
(* it was killed before: no query and no upsert of it is an IndexError.    *)
NeverOutOfBounds ==
  \A p \in Processes : SoleWriter(p) /\ at[p] = "open" => Len(man[p]) =< Len(vec[p])

(* No store ever names a clause twice, so a query returns it once at most, *)
(* whatever other processes and crashes left in the files.                 *)
NoDuplicates == \A p \in Processes : IsInjective(man[p])

(* When nobody is writing, every id whose upsert has returned is on disk,  *)
(* with its vector.                                                        *)
StoredIsOnDisk ==
  (\A p \in Processes : at[p] \in {"closed", "opening", "open"}) =>
    \A id \in stored :
      /\ mfile \notin {Absent, Torn} /\ id \in ToSet(mfile)
      /\ vfile \notin {Absent, Torn} /\ id \in ToSet(vfile)

(* As long as one process writes and none is killed while it does, nothing *)
(* that was upserted is lost, however often processes come and go.         *)
SoleWriterKeepsAll ==
  (\E p \in Processes : SoleWriter(p)) /\ ~crashed => StoredIsOnDisk

(* "Scale horizontally ... or run multiple terminals locally"              *)
(* (scripts/ingest_worker.py:3-8): nothing that was upserted is lost where *)
(* several workers share the store, either, unless one is killed.          *)
NothingStoredIsLost == ~crashed => StoredIsOnDisk

=============================================================================

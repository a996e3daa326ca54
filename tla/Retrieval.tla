----------------------------- MODULE Retrieval -----------------------------
(***************************************************************************)
(* The agent's tools (src/legallens/retrieval/tools.py) in API processes,  *)
(* over the tables and the index that Ingest's workers are writing.  Each  *)
(* tool is a few database sessions or index queries with awaits between    *)
(* them, so everything below happens beside ingestion and beside the tools *)
(* of other reviews.                                                       *)
(***************************************************************************)
EXTENDS Ingest

CONSTANTS
  Reviews,         \* the reviews in progress
  MaxCalls,        \* bound on the tool calls of all reviews
  TopK,            \* top_k of a search
  Similarity,      \* vector -> how close it is to that of the query
  HighTerms,       \* the texts that contain one of high_signal_terms
  MediumTerms      \* ... and of medium_signal_terms

ASSUME RetrievalConstants == MaxCalls \in Nat /\ TopK \in Nat

VARIABLES
  tool,    \* what each review awaits
  found,   \* the matches of its search, and what was finished when it began
  score,   \* the clause it scores and the level it computed
  calls    \* history: how many tools were called

toolVars == <<tool, found, score, calls>>
vars == <<ivars, toolVars>>

ToolPoints ==
  {"none",
   "hydrate",   \* search: matches are there, their rows are to be read
   "update",    \* score: the text was read, UPDATE is to be carried out
   "commit"}    \* score: UPDATE has locked the row

NotFound == [matches |-> <<>>, before |-> {}]
NoScore == [clause_id |-> <<>>, level |-> NULL]

RetrievalInit ==
  /\ Init
  /\ tool = [a \in Reviews |-> "none"]
  /\ found = [a \in Reviews |-> NotFound]
  /\ score = [a \in Reviews |-> NoScore]
  /\ calls = 0

Await(a, point) == tool' = [tool EXCEPT ![a] = point]

Call(a, point) ==
  /\ tool[a] = "none" /\ calls < MaxCalls
  /\ calls' = calls + 1
  /\ Await(a, point)

-----------------------------------------------------------------------------
(* extract_clauses: one SELECT, the rows of a moment.                      *)
extract_clauses(contract_id, category) ==
  {id \in DOMAIN clauses :
     clauses[id].contract_id = contract_id /\ clauses[id].category = category}

(* What PineconeIndex.query may return: top_k of the index's ids, best     *)
(* first, none of the others closer; ties come in any order.               *)
closeness(id) == Similarity[index[id]]

query ==
  LET n == Cardinality(DOMAIN index)
      k == IF TopK < n THEN TopK ELSE n
  IN  {m \in [1 .. k -> DOMAIN index] :
         /\ \A i, j \in 1 .. k :
              i < j => m[i] # m[j] /\ closeness(m[i]) >= closeness(m[j])
         /\ \A id \in DOMAIN index \ Range(m), i \in 1 .. k :
              closeness(m[i]) >= closeness(id)}

(* search_similar_clauses, up to the index's answer; without a match it    *)
(* returns at once.                                                        *)
Query(a) ==
  /\ DOMAIN index # {}
  /\ Call(a, "hydrate")
  /\ \E m \in query :
       found' = [found EXCEPT ![a] =
         [matches |-> [i \in DOMAIN m |-> [id |-> m[i], score |-> closeness(m[i])]],
          before |-> finished]]
  /\ UNCHANGED <<ivars, score>>

(* The matches that have a row, in their order. *)
Hydrated(matches) ==
  Kept(matches, {i \in DOMAIN matches : matches[i].id \in DOMAIN clauses})

(* Mutant: in the order of the rows. *)
results_by_id(a) == Hydrated(Reverse(found[a].matches))

(* What the search returns if its rows are read now: the matches, best     *)
(* first, that have one.                                                   *)
results(a) == Hydrated(found[a].matches)

Hydrate(a) ==
  /\ tool[a] = "hydrate"
  /\ Await(a, "none")
  /\ found' = [found EXCEPT ![a] = NotFound]
  /\ UNCHANGED <<ivars, score, calls>>

-----------------------------------------------------------------------------
(* score_clause_risk                                                       *)

level(text) ==
  IF text \in HighTerms THEN "high" ELSE IF text \in MediumTerms THEN "medium" ELSE "low"

(* The clause is read and scored; the session ends.  (An id without a row  *)
(* is an error in the result and changes nothing.)                         *)
ReadClause(a, id) ==
  /\ Call(a, "update")
  /\ score' = [score EXCEPT ![a] = [clause_id |-> id, level |-> level(clauses[id].text)]]
  /\ UNCHANGED <<ivars, found>>

(* UPDATE waits for a row that another transaction has locked. *)
ScoreLocks(a, id) == tool[a] = "commit" /\ score[a].clause_id = id

Update(a) ==
  /\ tool[a] = "update"
  /\ \A w \in Workers : score[a].clause_id \notin Locked(w)
  /\ \A b \in Reviews \ {a} : ~ScoreLocks(b, score[a].clause_id)
  /\ Await(a, "commit")
  /\ UNCHANGED <<ivars, found, score, calls>>

(* Mutant: UPDATE without its WHERE. *)
SetAllRisks(a) == [id \in DOMAIN clauses |-> [clauses[id] EXCEPT !.risk_level = score[a].level]]

SetRisk(a) == [clauses EXCEPT ![score[a].clause_id].risk_level = score[a].level]

CommitScore(a) ==
  /\ tool[a] = "commit"
  /\ Await(a, "none")
  /\ clauses' = SetRisk(a)
  /\ score' = [score EXCEPT ![a] = NoScore]
  /\ UNCHANGED <<dvars, handling, contracts, index, finished, found, calls>>

(* An await raises, or the client goes away; a commit may have been        *)
(* carried out.                                                            *)
ToolFails(a) ==
  /\ tool[a] # "none"
  /\ \/ UNCHANGED clauses
     \/ tool[a] = "commit" /\ clauses' = SetRisk(a)
  /\ Await(a, "none")
  /\ found' = [found EXCEPT ![a] = NotFound]
  /\ score' = [score EXCEPT ![a] = NoScore]
  /\ UNCHANGED <<dvars, handling, contracts, index, finished, calls>>

-----------------------------------------------------------------------------

ToolStep(a) == Hydrate(a) \/ Update(a) \/ CommitScore(a)

(* A worker waits for the row that a review is scoring, too. *)
WorkerStep(w) ==
  /\ Step(w)
  /\ at[w] = "rows" /\ at'[w] = "rows" =>
       \A a \in Reviews : ~ScoreLocks(a, NextRow(w))
  /\ UNCHANGED toolVars

Next ==
  \/ Pipeline /\ UNCHANGED toolVars
  \/ \E w \in Workers : WorkerStep(w)
  \/ \E a \in Reviews :
       \/ Query(a) \/ ToolStep(a) \/ ToolFails(a)
       \/ \E id \in DOMAIN clauses : ReadClause(a, id)

Spec == RetrievalInit /\ [][Next]_vars

(* A statement that may proceed does, the script goes on, a worker that is *)
(* free takes a task; nothing forces a failure, a review or another run of *)
(* the script.                                                             *)
FairSpec ==
  /\ Spec
  /\ WF_vars(Script /\ UNCHANGED <<handling, stores, finished, toolVars>>)
  /\ \A w \in Workers :
       WF_vars(\/ WorkerStep(w)
               \/ \E t \in inflight : Start(w, t) /\ UNCHANGED toolVars)
  /\ \A a \in Reviews : WF_vars(ToolStep(a))

-----------------------------------------------------------------------------
(* Properties.                                                             *)

TypeOK ==
  /\ script \in {NotRunning} \cup [file : DOMAIN Files, limit : Limits, enqueued : Nat]
  /\ \A t \in inflight : t.payload \in Payloads
  /\ at \in [Workers -> Points]
  /\ task \in [Workers -> {{}} \cup {{p} : p \in Payloads}]
  /\ \A w \in Workers : (task[w] = {}) <=> (at[w] = "idle")
  /\ DOMAIN contracts \subseteq {p.contract_id : p \in Payloads}
  /\ DOMAIN clauses \cup DOMAIN index \subseteq UNION {Ids(p) : p \in Payloads}
  /\ \A id \in DOMAIN clauses : clauses[id].risk_level \in {NULL, "low", "medium", "high"}
  /\ tool \in [Reviews -> ToolPoints]
  /\ calls \in 0 .. MaxCalls

(* What an extraction shows of a contract is never half of it: a clause    *)
(* comes with all others of its category in one version of the contract,   *)
(* and that version is stored with its row and its vectors, wherever tasks *)
(* failed, were retried or ran twice at a time.                            *)
ClausesAreWhole ==
  \A p \in Payloads : \A c \in ToSet(p.clauses) :
    LET shown == extract_clauses(p.contract_id, c.category)
        part(q) == {d.clause_id : d \in {d \in ToSet(q.clauses) : d.category = c.category}}
    IN  \A id \in shown : \E q \in Payloads :
          id \in part(q) /\ part(q) \subseteq shown /\ Stored(q)

(* A search misses no clause that was there to be found: one whose         *)
(* ingestion had finished before the index was asked is returned unless    *)
(* top_k matches, with rows or without, are at least as close; and what is *)
(* returned comes best first, each with the score of its own text,         *)
(* although the rows are read after the vectors.                           *)
SearchMissesNothing ==
  \A a \in Reviews : tool[a] = "hydrate" =>
    LET r == results(a)
        ms == found[a].matches
        ids == {r[i].id : i \in DOMAIN r}
    IN  /\ \A i, j \in DOMAIN r : i < j => r[i].score >= r[j].score
        /\ \A i \in DOMAIN r :
             r[i].score = Similarity[Embedding(clauses[r[i].id].text)]
        /\ \A c \in found[a].before : \A id \in Ids(c) \ ids :
             /\ Len(ms) = TopK
             /\ \A i \in DOMAIN ms :
                  ms[i].score >= Similarity[Embedding(Rows(c)[id].text)]

(* "Cache back to PG" (tools.py:149): the text is read in one session and  *)
(* its score is written in another, with any ingestion of the same or a    *)
(* newer version of the contract in between; still no clause ever has the  *)
(* score of another text than the one in its row.                          *)
RiskIsOfText ==
  \A id \in DOMAIN clauses :
    clauses[id].risk_level \in {NULL, level(clauses[id].text)}

(* ... and no ingestion takes a score away again. *)
RiskIsKept ==
  [][\A id \in DOMAIN clauses : clauses[id].risk_level # NULL =>
       id \in DOMAIN clauses' /\ clauses'[id].risk_level # NULL]_vars

=============================================================================

# A TLA+ verification of LegalLens

LegalLens reviews contracts with a language model. Its interesting half is the
pipeline that ingests contracts: dispatching processes route tasks over a
consistent-hash ring to worker processes, through Redis lists, with heartbeat
keys deciding who is on the ring and Sentinel failing the master over. The
other half is the agent that answers a review request over a stream of events,
and the stores both halves share.

Paths below are those of the repository (`src/legallens/...`, `scripts/...`).

## Contents

| module | what it is |
|---|---|
| `WorkerIds` | the constant `Workers`, shared by the modules that need it |
| `Ring` | the placement rule of the hash ring, as operators |
| `HashRing`, `MCHashRing` | the `ConsistentHashRing` object and its instance |
| `Membership` | worker processes, heartbeat keys, registries and their background tasks |
| `TaskDelivery` | abstract: what the pipeline promises about a task |
| `Cluster`, `MCCluster` | dispatch, queues, handling and failover on top of `Membership` and `Ring` |
| `VectorStore`, `MCVectorStore` | `LocalNumpyIndex`, shared by several processes |
| `AgentStream` | abstract: what a client may rely on about its event stream |
| `ToolDispatch` | the tools as the model is told of them, and as `dispatch_tool` runs them |
| `AgentLoop` | `ContractReviewAgent.run` inside the endpoint's `event_stream` |
| `Parsing` | `parse_cuad` and the chunks of the embedder, as functions |
| `Driver` | the script that enqueues one task per parsed contract |
| `Ingest` | `handle_ingest_contract` in several workers |
| `Retrieval`, `MCRetrieval` | the agent's tools beside all of that, and the instance of the four modules |
| `Sorting` | `sorted` and a loop that skips elements, as functions |
| `Sorting_proofs`, `Ring_proofs`, `HashRing_proofs`, `Membership_proofs`, `Cluster_proofs`, `VectorStore_proofs`, `Retrieval_proofs`, `AgentLoop_proofs` | theorems and their proofs; `Retrieval_proofs` has those of `Parsing` and `Ingest`, too |

`Cluster` extends `Membership` and `Ring`; it is shown to implement
`TaskDelivery`, and `AgentLoop`, which extends `ToolDispatch`, to implement
`AgentStream`. `Retrieval` extends `Ingest`, which extends `Driver`, which
extends `Parsing`: the way of a contract from the file to a search result.
`VectorStore` stands by itself. The two chains meet in what one takes from the
other: `Cluster` shows how a task may be lost, and that two workers may hold
tasks of one contract, and `Driver` and `Ingest` allow both.

Definitions introduced by a comment that begins "Mutant:" are not part of a
specification. Each is the version of the definition next to it that a
plausible bug would give; a run in which it takes that definition's place
violates the property `PROJECT.json` pairs it with, which shows that the
property depends on the code's doing the right thing there.

## Inventory

| part | state | operations | interacts with | hard about it | correct if |
|---|---|---|---|---|---|
| hash ring (`workers/hash_ring.py`) | dict position -> worker, sorted positions | add, remove, replace, look up | owned by a registry | wrap-around, stale positions, repeated joins and leaves | the object depends on the membership alone; lookup is the placement rule; keys move only with members |
| registry (`coordination/worker_registry.py`) | ring | register, heartbeat, deregister, scan, refresh, watch events | Redis keys and pub/sub; monitor and watcher share the ring | two tasks refresh one ring; replica lag; events lost | rings settle on the live keys; the dead leave and stay away |
| monitor (`orchestration/heartbeat.py`) | last list seen | run | registry | its own death on an error | it keeps reconciling |
| worker (`workers/worker.py`) | stop flag, heartbeat task, current task | run, handle, signal | registry, queue, handler | cancellation during a heartbeat or before its first turn; errors outside the try; kill -9 | while it serves it is registered; when it stops it is forgotten |
| dispatcher (`orchestration/dispatcher.py`) | none of its own | dispatch, dispatch_many | ring (before its await), Redis list (after it) | ring read before the await, push carried out after it | one owner per task, from the ring of the dispatch |
| queue (`workers/task_queue.py`) | Redis list per worker | pop | worker, Redis | destructive pop, lost reply, failover | no task stolen, repeated or handled beside another |
| Redis/Sentinel (`coordination/sentinel_client.py`) | master, replica | promote, replicate, expire | all of the above | asynchronous replication | (environment) |
| ingest handler (`scripts/ingest_worker.py`, `db.py`) | open transaction | four steps | Postgres, embedder, vector store | failure between steps, two runs of one contract, row locks | never half a contract; never undone; no deadlock |
| vector store (`ingestion/pinecone_writer.py`) | two files, a copy per process | open, upsert, query | ingest workers, API | crash between the writes, several writers, opening between the writes | rows of both files correspond; nothing lost |
| agent loop (`agents/loop.py`) | iteration, tool results | run, call with retries | model, tools, `api/main.py` | failing tools, retries, disconnects, endless tool calls | ordered, bounded stream; results match calls |
| tool definitions (`prompts/tools.py`) | none | none | the model, `dispatch_tool` | two accounts of the same functions in two files | a call that follows them runs |
| API (`api/main.py`) | none | /review, /followup | agent loop | error after error | (with the agent loop) |
| retrieval tools (`retrieval/tools.py`) | cached store, `clauses.risk_level` | extract, search, score | Postgres, store | vectors before rows; a text read in one session, its score written in another | no half contract; no clause missed; no score of another text |
| parser (`ingestion/parser.py`) | none | parse | dispatcher script | repeated and padded spans, ids | every span once, in order, with an id of its own |
| embedder (`ingestion/embedder.py`) | none | embed in chunks | handler, search | the end of a chunk | one vector per text, in order |
| dispatcher script (`scripts/ingest.py`) | count of tasks | main | parser, dispatcher | a push that fails half-way, a second run, a newer file | every contract up to the limit gets ingested |

`PROJECT.json` lists every component with its status, and every hazard at the
line where it bites with the properties that would catch it.

## The models

### Ring and HashRing

`Ring` says which worker owns a key when a set S of workers is on the ring:
`Build(S)` is the dict, `Clockwise` the first position strictly behind the
key's, or the smallest. The hash is a constant function into the naturals;
`NoCollisions` says that two virtual nodes do not share a position (MD5 of
distinct strings). `HashRing` is the mutable object, with one action per
mutator and `get_worker` through `bisect_right`; `members` is a history
variable. `Assign` is the loop over the virtual nodes of one worker or of
several, which overwrites what a position had: with `NoCollisions` the order of
the assignments makes no difference.

### Membership

One process per worker, with `pc` marking the awaits of `Worker.run`: register
is two calls (SET, PUBLISH), deregister two (DEL, PUBLISH), and everything
between two awaits is one action. `hb` is the heartbeat task, which shares the
event loop with `run`. A SET that its caller gave up may be carried out later:
it waits in `late` and `LateSet` delivers it. `keys` are the heartbeat keys on
the master, `rkeys` what a scan of the replica returns; `CatchUp` carries one
worker's key over, so that a scan, which takes several calls, may return any
mixture of old and new. Each registry runs some `Background` tasks. Both scan
(`StartRefresh`), await and replace the ring (`FinishRefresh`), so the older
scan may win. The script `scripts/ingest.py` scans once; that is a behaviour of
a registry whose monitor stops after its first round.

Time is not modelled. `Expire` may remove a key only if nothing refreshes it in
time: the heartbeat task is over, or a handler occupies the event loop. The
time to live is 10 s and the interval 3 s, so a loop that gets its turns keeps
its key; the model takes that as given.

`Faults` selects what the environment may do: kill a worker at any point, send
it a signal, make its Redis calls raise (with or without effect), make a scan or
subscription raise, fail over.

### Cluster

`Dispatch` is `dispatch` and `dispatch_many` up to their await: look-ups in one
ring, an atomic push still to come (`sending`); `Push` is the RPUSH or
MULTI/EXEC. `Pop` extends `BeginTask`, `HandleReturns` extends `EndTask`,
`Killed` extends `Crash`, and the rest of `Membership` runs beside them. Lists
are replicated as a whole (`Replicate`); `Promote` makes the replica's lists
and keys the master's. `route`, `begun`, `ended` and `failovers` are history
variables. A push is lost (`PushLost`) when Redis fails or the dispatching
process dies between its two steps.

`TaskDelivery` is the pipeline without processes: the stage and the owner of each
task, and the batch it is pushed with. The refinement mapping computes all three
from where the task is. `Places` are its occurrences in the pushes under way, on
the lists and in the workers' hands: a task with one place has the stage of that
place, a task with two has no stage that `TaskDelivery` knows. The owner is
whoever has it (`Holders`), so that it may not change hands; the batch is what
the push under way holds for all workers together (`Batch`), so that it may not
be queued or lost in part.

### VectorStore

Each process loads both files (two steps), queries and upserts in memory and
writes both back (`Upsert` truncates the first file, then three steps). A row of
`vectors.npy` is written as the id of the clause it embeds, `Score` says how
close each is to the query. `query` is the code's: scores by row, names by the
manifest, an exception where the manifest is longer (`QueryRaises`). Concurrent
writers may leave a mixture that does not parse (`Torn`), and so does a kill in
the middle of a write. `writers` and `crashed` record what happened, so that
properties can say under which use of the store they hold; `before` is what the
files held when a process began to open them. The API is a process that never
upserts.

### AgentStream, ToolDispatch and AgentLoop

`AgentLoop` has one action per outcome of the model's call (retry, give up,
answer, tool calls) and of a tool (return, raise), the end of a turn, the
endpoint's own error event, and the client's disappearance. A tool call is a
tool's name and the names of its parameters; its outcome is `output`, `raised`
(by the tool) or `refused` (by `dispatch_tool`, which has no tool of that name,
or not with these parameters). `ToolCalls` holds for each tool the calls that
`TOOL_DEFINITIONS` allows, and some that it does not. `AgentStream` is the
protocol on `emitted` alone: what may come next is said with the place of the
last "thinking" event (`Turn`), the events since then (`InTurn`) and the calls
it announced that are not started (`Owed`). /review and /followup share all of
it.

### Parsing and Driver

A file is a sequence of entries, an entry a title and a sequence of answers.
`Category` (the regular expression) and `Strip` are constant functions, hashes
are the tuples they hash. `embed` concatenates the responses to the calls that
`Chunks` cuts the texts into.

`Driver` is `main`: `StartScript` reads a file, `Enqueue` pushes the next
contract's task, `EnqueueFails` is the exception out of `dispatch` that ends the
script, `LoseTask` what `Cluster` may do to a task on its way. An operator
starts the script up to `MaxRuns` times, each time with any version of the file
and any of `Limits`. `promised` holds the payloads that a run was asked to
ingest, less those that failures have cost. What a failure costs is the code's:
a push, task or handler its own contract, but a `dispatch` that raises its
contract and all behind it, since nothing in the loop catches it.

### Ingest

The four steps of the handler, driven by `Driver`'s tasks, with the clause rows
inserted one by one in a transaction that holds their locks. A step that fails
may have had its effect, an upsert to Pinecone a part of it. Two workers may
have the same contract at a time, in the same version or two, since neither the
ring nor Redis excludes it (see `NoContention`). `finished` holds the payloads a
handler has returned for.

### Retrieval

The three tools, each split where it awaits: a search asks the index (`Query`)
and reads the rows of the matches later (`Hydrate`); `score_clause_risk` reads
the text in one session (`ReadClause`) and writes the level in another, whose
UPDATE waits for a lock and holds it to its commit (`Update`, `CommitScore`). A
worker waits for that lock, too (`WorkerStep`). `query` is every answer that
respects the similarities; ties come in any order. A tool may fail at each
await, with its commit carried out or not.

## The runs

| run | checks | instance |
|---|---|---|
| `MCHashRing` | `TypeOK`, `HistoryIndependent`, `LookupIsPlacement`, `MovesOnlyWithMembers` | 7 workers, 2 virtual nodes each at scattered positions, a key at every position, between any two, before the first and behind the last |
| `MembershipLiveness` | `TypeOK`, `StaysForgotten`, `Converges`, `DeadLeavesRing`, `KeyIsRestored` | 1 worker, 1 registry, both tasks, all faults |
| `MembershipZombie` | violates `ServingIsRegistered` | the same with failing Redis calls only |
| `ClusterChurn` | `NoStealing`, `RepeatsNeedFailover`, `ContentionNeedsChurn`, `StaysUnroutable` | 2 workers whose arcs alternate, 2 tasks of one contract, batches of up to 2, kills, one failover |
| `ClusterContention` | violates `NoContention` | the same without any fault |
| `ClusterDelivery` | `ClusterTypeOK`, `Delivers`, `QueuedIsTaken` | 1 worker, 2 tasks, the monitor, all faults but failover |
| `ClusterBatches` | `Delivers` | 2 workers, 2 tasks of two contracts with different owners, batches of up to 2, the watcher, kills |
| `VectorStoreShared` | `TypeOK`, `QueriesAreRight`, `OpenSeesStored`, `NeverOutOfBounds`, `NoDuplicates`, `SoleWriterKeepsAll` | 2 processes, two overlapping batches, kills, `MaxRows` = 4 |
| `VectorStoreWriters` | violates `NothingStoredIsLost` | the same |
| `VectorStoreReaders` | violates `StoresAreParallel` | the same |
| `AgentLoopStream` | `TypeOK`, `ResultsAnswerCalls`, `DefinedCallsRun`, `StreamIsOrdered`, `Terminates` | 3 turns of up to 2 calls, 3 attempts |
| `IngestRetries` | `TypeOK`, `ParsesFaithfully`, `EmbedsInOrder`, `ClausesAreWhole`, `FinishedStaysComplete`, `SearchMissesNothing`, `RiskIsOfText`, `RiskIsKept`, `RunsGetThrough`, `EverythingIngested` | 2 workers, 1 review, two runs of the script over any of two versions of a file, with `--limit 1` or none |

What they show:

- Processes that agree on the members of a ring route alike, whatever joins and
  leaves each of them saw, and a change moves only the keys it has to.
- A worker that has left every key, replica, scan and ring never returns. Its
  key may come back after a deregistration that a late heartbeat overtook, but
  then it expires and every ring drops it for good.
- Every ring whose monitor runs settles on the heartbeat keys, although watcher
  and monitor may each overwrite the other's newer result with an older one. The
  monitor alone is what makes it so; events only help. A worker that serves gets
  back a key it lost, whatever fails except its own heartbeat.
- No task is ever held by a worker it was not routed to, also through a
  failover that undoes pops. Two workers share a contract only if one of them
  was missing from the ring by which the other's task was routed.
- Without failovers a task is handed out at most once, is in one place at a
  time, stays with the worker it was routed to, and once lost is not found
  again: the pipeline is at-most-once. A batch is queued as a whole, once, or
  lost as a whole, also where it has shares for two workers.
- One writing process that is not killed in the middle of a write keeps the two
  files of the store consistent: a query that a store can answer names each row
  by its own id, best first, also where the store was opened in the middle of a
  write, and a store that is opened has all that was stored before. A killed writer never leaves a manifest longer than its
  vectors.
- A stream is ordered and bounded, the model gets one result per call it made,
  in order and each with its own call's outcome, and no call that follows the
  tool definitions is refused.
- Parsing keeps every category and text of an entry that is not blank, once, in
  order and with an id of its own; embedding gives each text its own vector,
  wherever a chunk ends.
- Failures, retries, concurrent runs of a contract and a newer version of the
  file never show half of a contract, undo a finished one or block each other
  for good, although rows of different versions are mixed.
- Every contract that a run of the script was asked for is ingested in the end,
  except what a failure has cost: a lost task or failed handler its own
  contract, a raising `dispatch` that contract and all later ones of the run.
  What a failure costs is counted per payload: one handler that fails excuses
  every task of the same payload.
- A search that is answered before a commit and reads its rows after it, and a
  score written over a row that was upserted since its text was read, still
  return and store nothing wrong. What makes the second so is the hash in the
  clause id: another text is another row.

### Where the code and its documentation disagree

Four runs violate a property that a comment states:

- `MembershipZombie`: `heartbeat_loop` catches `CancelledError` alone, so one
  failed SET ends it while the worker serves on with an expired key, on no ring
  ("Run forever", `worker_registry.py:66`).
- `ClusterContention`: a worker that joins between two dispatches of a contract
  handles the second beside the first ("two workers never contend on the same
  contract's rows", `init_db.sql:6`). `ContentionNeedsChurn` is what holds
  instead.
- `VectorStoreWriters`: two ingest workers over one local store erase each
  other's clauses ("Scale horizontally", `ingest_worker.py:3`).
- `VectorStoreReaders`: a store opened while the one writer persists pairs old
  vectors with the new manifest ("parallel to rows of vectors.npy",
  `pinecone_writer.py:91`). Nothing compares their lengths, and the store is
  opened once per process, so every later query raises until a restart.

Others were met while the code was translated and need no exploration to see:

- No task of a dead worker is dispatched again, since nothing passes `on_change`
  (`heartbeat.py:8-9`).
- A failure of one contract's push costs the others: `dispatch` raises out of
  the loop (`ingest.py:67`), the script ends, and every contract behind it waits
  for another run. "Dispatches one `ingest_contract` task per contract"
  (`ingest.py:3`) holds only without such a failure. `EnqueueFails` takes all of
  them out of `promised`, so `EverythingIngested` does not speak of them.
- No row of `ingest_tasks` is ever written (`dispatcher.py:11`), so a second run
  of the script skips nothing (`init_db.sql:77-78`).
- A join event triggers a scan of the replica, which may not have the new key
  yet (`worker_registry.py:9-10`).
- `HeartbeatMonitor.run` ends at the first failed scan (`heartbeat.py:35`).
- A store file truncated by a kill cannot be opened by any retried task
  (`ingest_worker.py:12-13`).
- A tool that raises has no `tool_result` event (`loop.py:71`), and from its
  second request on the agent sends tool results without the user's query
  (`loop.py:132`).
- `score_clause_risk` writes the level back "so subsequent calls are free"
  (`tools.py:149`) but never reads it.
- The API opens the local store once ("Per-process singletons are fine",
  `tools.py:27-28`), so its searches do not find what is ingested later.
- `--limit 0` is no limit ("Stop after N contracts", `ingest.py:89`; the test in
  line 55 is for truth).
- `from_settings` raises for a Sentinel host without a port ("Sentinel ports
  default to 26379", `sentinel_client.py:44`).
- A category is matched exactly; the model is told a list of names
  (`prompts/tools.py:31`) that the parser's tags need not be among, and the
  full list that `domain.py:14` places in `scripts/ingest.py` is not there.
- A clause that a newer version of its contract no longer has stays in both
  stores; nothing deletes it.
- `scripts/init_db.py`, named in `ingest.py:13`, does not exist.

### Bounds, and why they are enough

- One worker in most runs of `Membership`: workers interact only through the
  rings, scans copy sets, and no action of one worker reads another's state.
  For the same reason there is one registry: a registry reads the replica and
  its own inbox, and writes nothing another one reads. `MembershipLiveness` has
  all faults at that size; the theorems have any number of both.
- Two workers in `ClusterChurn` and `ClusterBatches`: contention, and whether a
  task changes hands, are about two workers, and with alternating arcs a key
  changes its owner when either joins. The theorems below hold for any number.
- Two tasks: each property speaks of one task or a pair. `MaxBatch` = 2 is a
  batch that is more than one dispatch; in `ClusterBatches` its two tasks are of
  different contracts, so that it has a share for each worker.
- `MaxFailovers` = 1: one failover already undoes pops and loses pushes;
  `RepeatsNeedFailover` counts them.
- `MaxRows` = 4 in `VectorStore`: three ids, and one row that a crash left
  without an entry in the manifest.
- `MaxRuns` = 2 in `Driver`: the second run meets the first's tasks in every
  stage, with the same version of the file or the other one, older or newer.
  The first version has a contract of two clauses, one of them given twice and
  once padded, and an empty contract; the second replaces one clause. Limits 0
  and 1: none, and one that cuts the file.
- `MaxCalls` = 1 with one review in `Retrieval`: a tool shares no state with
  another but the row it scores, where two write the same function of the same
  text. They share that row's lock, too, but a tool that has it asks for no
  other. `TopK` = 2 of up to three vectors.
- `MaxInput` = 3 in `Parsing`: entries of up to three answers and inputs of up
  to three texts in chunks of 1 to 3: a chunk that is full, one that is not, and
  none. Whether an answer is kept depends on one earlier answer at a time.
- `MaxTurns` = 3 and `MaxCalls` = 2 in `AgentLoop` (the code has 8 turns and no
  limit on calls): a first, a middle and a last turn, and a call that is
  neither the only nor the last one.

What the models take as given, beside that: hashes do not collide; an upsert to
Pinecone is visible to the next query (the service may be slower, which would
only make a search miss what has just been stored); and the versions of a file
have the clauses they share in the same order. Otherwise two workers may lock
rows against each other, which Postgres ends by failing one of the tasks.

The runs that do not check for deadlock are those of systems that do stop: all
workers exited or dead, all tasks dispatched, a torn store, a finished stream,
all runs started.

### Fairness

`Fairness` of `Membership` and `ClusterFairness` are weak fairness of what the
asyncio scheduler and a healthy network provide: a coroutine that can go on
does, handlers return, a reply arrives, an unrefreshed key expires, replication
catches up, the monitor wakes up. Nothing forces a worker to start, a signal, a
failure, or an event to be delivered. A busy worker's key may expire again and
again; no property rests on its not doing so. In `AgentLoop` the model and the
tools answer or fail.

`FairSpec` of `Retrieval` has one weak fairness condition per sequential
process: the script goes on with its loop, a worker takes a task or carries out
the next statement of the one it has, a tool carries out its next statement. A
row lock is asked for in one order by workers and `MaxCalls` times at most by
reviews, so weak fairness is enough; Postgres serves the waiters of a row in
turn. Nothing forces the script to be started, a tool to be called, or a
failure; `EverythingIngested` excuses the payloads that a failure has cost, which
after a raising `dispatch` are all that were left of that run.

A failed call ends a heartbeat loop, monitor or watcher for good, as the hazards
say. `Converges` and `DeadLeavesRing` are therefore about a ring whose monitor
still runs, `KeyIsRestored` about a worker whose heartbeat does. `DeadLeavesRing`
also supposes that failovers cease: each may undo the expiry of a key that its
replica still has, and nothing bounds their number.

## The theorems

Every safety invariant and every action property that a run checks is also
proved, and so are both refinements, for any number of workers, registries,
background tasks, tasks, keys, virtual nodes, failovers, processes, batches,
files, reviews, calls, turns and attempts, and any choice of faults. The
assumptions are those the modules state of their constants:

- `RingConstants` and `NoCollisions` (hashes are naturals, and MD5 does not
  collide), `MembershipConstants` and `ClusterConstants` (kinds of faults, sizes);
- `StoreConstants`: a batch has no id twice, which the parser gives it
  (`ParsingIsFaithful`); `Absent` and `Torn`, which stand for states of a file,
  are not contents of one;
- `ParsingConstants`, `DriverConstants` and `RetrievalConstants`: sizes, and
  that files are sequences of entries;
- `LoopConstants`: at least one turn, call and attempt.

**Operators.** `SortedProperties`: `Sorted(S)` is the elements of a finite set of
integers in increasing order. It is what `sorted` returns, and everything that
goes by position in the ring, the parser and the store rests on it, by way of
`KeptProperties` (a comprehension with a condition keeps the order) and
`BisectFindsClockwise`. `ParsingIsFaithful` and `EmbedReturnsEachVector` are the parser and the
embedder for inputs of any length (`ParsesFaithfully` and `EmbedsInOrder` say
the same up to a bound); a chunk's limits follow from the division
(`ChunkBounds`), the concatenation from a recursive function that has only one
solution.

**Ring.** `OwnerIsMember`: every key has an owner on a nonempty ring, one of its
workers, from the least element of a set of naturals and from `Build` giving
each position to the one worker that has it. `OwnersDisagreeOnlyAcrossChurn`: if
two rings each have the other's owner of a key, they agree on it, since each
ring's first position behind the key is then also on the other.

**HashRing.** `RingIsReplicated`, `LookupFollowsPlacement` and
`KeysMoveOnlyWithMembers` (`HistoryIndependent`, `LookupIsPlacement`,
`MovesOnlyWithMembers`) rest on `HashRingInv`: the dict is `Build(members)` and
the list its sorted positions. That is inductive because assigning a worker's
positions to `Build(S)` gives `Build` of `S` and the worker, and taking them off
`Build` without it. `BisectFindsClockwise` says that the position at the index
of `bisect_right`, or the first one past the end, is the first behind the key.

**Membership.** `MembershipTypes`, `ForgottenForever` (`StaysForgotten`): the
inductive invariant is `MembershipInv`, type correctness and `HeartbeatServes`:
a heartbeat task that runs belongs to a worker in its task loop. Without it a
worker that is gone could set its key again.

**Cluster.** `NoWorkerSteals`, `ContentionOnlyThroughChurn` and
`UnroutableForever` (`NoStealing`, `ContentionNeedsChurn`, `StaysUnroutable`):
the inductive invariant is `ClusterInv`. `RoutesByRing` says that a task's
recorded worker is the owner of its key on the recorded view; `CustodyRouted`
that whatever is being sent to, queued for (on either Redis) or handled by a
worker was routed to it. `NoStealing` alone is not inductive: a push under way
and the replica's copy feed the queues. Contention then follows from
`OwnersDisagreeOnlyAcrossChurn` for the two views.

`HandedOutOncePerFailover` (`RepeatsNeedFailover`) needs `DeliveryInv`, which
adds where a task can be. A task is routed once (`OneRoute`) and is at one place
of one list or in one push (`OneList`); what is being pushed is on no list and
was never handed out. What bounds the repetitions is `HandedOut`: a task on the
master's list was handed out at most `failovers` times. The list of the replica
may be older, and a task on it may have been popped since; a failover that
brings it back also raises the bound by one.

`PipelineDelivers` (`Delivers`): while no failover has happened, every step of
`Cluster` maps to a step of `TaskDelivery` or to a stutter. Its hypothesis
`[](failovers = 0)` is what the run states by `MaxFailovers = 0`; with a
failover the claim is false, since a popped task comes back. By `DeliveryInv` a
push, a list and a hand never share a task (`PlacesApart`), and each of them has
it once (`SentPlace`, `QueuedPlace`, `RunningPlace`). `StageTellsPlace` concludes
that a stage names the one place where the task is, and that its holder is the
worker it was routed to. `PushOver` shows that the tasks of a push are one batch
that ends as one. There is a lemma for each kind of step: `DispatchRoutes`,
`PushDelivers`, `PushLostDelivers`, `PopBegins`, `PopLosesTaskLoses`,
`HandleEnds`, `KilledLoses`. All others leave stages, owners and batches as they
are (`StagesStay`).

**VectorStore.** `StoresHaveNoDuplicates` (`NoDuplicates`),
`SoleWriterIsInBounds` (`NeverOutOfBounds`), `OpenedStoresAreComplete`
(`OpenSeesStored`), `NothingIsLost` (`SoleWriterKeepsAll`) and
`StoresAnswerRightly` (`QueriesAreRight`) rest on `StoreInv`. Its heart is the
log of the sole writer (`Log`): the rows it has persisted or is about to.
`Intact` says how the two files and its own two lists relate to the log at each
point of a write, and `Follows` that what every other process has in memory is a
beginning of the log, and long enough for what was stored when it opened. The
code keeps no log; that appending is all that ever happens to it is why a reader
that opens between the two writes still names its rows correctly. Only
`RowsForAll` and `ManifestsAreInjective` survive a kill in a write, and only the
latter a second writer; the properties are stated accordingly.

**Parsing, Ingest, Retrieval.** `IngestionLasts` (`FinishedStaysComplete`),
`ExtractionsAreWhole` (`ClausesAreWhole`), `SearchesMissNothing`
(`SearchMissesNothing`), `RisksAreOfTexts` (`RiskIsOfText`) and `RisksStay`
(`RiskIsKept`) rest on `RetrievalInv`. `RowsAreClauses` and
`VectorsAreEmbeddings` say that a row or vector is that of a parsed clause with
its id; since the id holds the text's hash (`ParsingIsFaithful`), there is one
such text, which makes retries, other versions and late writes harmless.
`RowsAreWhole` says that no row is there without the rest of some version, which
a transaction over all rows gives; `HandlersProgress` what a handler has stored
when it awaits its next call; `ScoresAreRight` and `MatchesAreBest` what a tool
that awaits has in hand. `StoresGrow` is the step from which all stability
follows: no action takes a row, a vector, a contract or a level away.

**AgentLoop.** `ResultsAreAnswers` (`ResultsAnswerCalls`),
`DefinitionsAreTheTools` (`DefinedCallsRun`) and `ReviewsStreamInOrder`
(`StreamIsOrdered`, the refinement of `AgentStream`) rest on `LoopInv`.
`TurnMatches` ties the stream to the variables of the loop: its last turn
announces the calls under way, as many of them are started as there are results,
one more while a tool runs, and as many `tool_result` events are there as
outputs. `Reviewing` counts one turn per iteration, so that the bound on
iterations becomes one on the stream. `Answered` says that the results are of
the first calls, in order, each with an outcome `dispatch_tool` has. How an
event changes the last turn is in `TurnAppend`, `SameTurn` and `OwedStays`.

The invariants `DeliveryInv`, `StoreInv`, `RetrievalInv` and `LoopInv` held on
the instances of the runs before they were proved.

Only model-checked: the liveness properties `Converges`, `DeadLeavesRing`,
`KeyIsRestored`, `QueuedIsTaken`, `Terminates`, `RunsGetThrough` and
`EverythingIngested`, which rest on fairness and `ENABLED`, out of the prover's
reach; and the four runs that violate a property, whose counterexamples are the
evidence.

## Not modelled

- Pub/sub helpers (`orchestration/pub_sub.py`), `decode_task`, `iter_tasks`,
  the `on_change` callbacks: nothing calls them.
- Configuration, domain types, prompts, the schema's partitions and indexes: no
  behaviour.
- The download script: it takes whatever `data.zip` it finds as complete, which
  is all that could go wrong with it.
- `LocalEmbedder` is one call of a library and may be seen as `embed` with one
  chunk. The dimension of vectors is left out: a store persisted with one
  embedder and used with the other fails at the first upsert or query.
- The engine's pool and its disposal (`db.py`): a session is a transaction.
- The store that `Ingest` and `Retrieval` use is Pinecone's; that of the other
  configuration is `VectorStore`, with the same callers.
- Postgres, Pinecone, Redis and the model are present only as far as the code
  relies on them. An idle BLPOP of 2 s over a socket with a timeout of 0.5 s
  may raise in some releases of redis-py; the model has the effect (`PopFails`)
  and leaves its cause open.
- Time: see `Membership`.

## Plan

1. Done: the modules `Ring`, `HashRing`, `Membership`, `Cluster` with
   `TaskDelivery`; `VectorStore`; `AgentLoop` with `AgentStream` and
   `ToolDispatch`; `Parsing`, `Driver`, `Ingest`, `Retrieval`; proofs of all their
   safety invariants, action properties and refinements.
2. Next proofs, in this order:
   - safety facts that the liveness properties rest on and that need no
     fairness: that a review's remaining steps decrease (`Terminates`), that a
     chain of lock waits in `Ingest` and `Retrieval` ends (`RunsGetThrough`);
   - what remains of `TaskDelivery` with failovers: which of its clauses one
     failover breaks, and which it does not;
   - what `AgentStream` implies for a client: a bound on the length of the
     stream, at most one final answer, no result without its call;
   - that `Cluster` uses the ring as `HashRing` provides it, as an instance of
     `LookupIsPlacement` at each dispatch.
3. Considered and left: a clock for `Membership`. Its guard of `Expire` says
   that an event loop that gets its turns keeps its key; with the interval of
   3 s and the time to live of 10 s that is arithmetic on two settings.

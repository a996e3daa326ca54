------------------------- MODULE VectorStore_proofs -------------------------
(***************************************************************************)
(* The local vector store for every set of processes and batches, any      *)
(* number of rows and any number of crashes: what its files and the copies *)
(* in memory have in common, as long as one process writes.                *)
(***************************************************************************)
EXTENDS VectorStore, Sorting_proofs, SequenceTheorems

(* A file with contents. *)
Content(file) == file \notin {Absent, Torn}

(* p is in _persist. *)
Writing(p) == at[p] \in {"vectors", "between", "manifest"}

(* t begins with s. *)
Begins(s, t) == /\ DOMAIN s \subseteq DOMAIN t
                /\ \A i \in DOMAIN s : s[i] = t[i]

-----------------------------------------------------------------------------
(* The inductive invariant.                                                *)

(* vectors.npy is there before manifest.json, and both stay.               *)
FilesAppear ==
  /\ (mfile # Absent \/ \E p \in Processes : Writing(p)) => vfile # Absent
  /\ \A p \in Processes : at[p] = "opening" => mfile # Absent

WritersAreKnown == \A p \in Processes : Writing(p) => p \in writers

ManifestsAreInjective ==
  /\ \A p \in Processes : IsInjective(man[p])
  /\ Content(mfile) => IsInjective(mfile)

(* Of the sole writer, whatever crashed: no manifest is ever longer than   *)
(* the vectors that it is or will be loaded with.                          *)
RowsForAll(p) ==
  /\ at[p] = "opening" => vec[p] = vfile
  /\ at[p] = "open" \/ Writing(p) =>
       /\ Len(man[p]) =< Len(vec[p])
       /\ Content(mfile) => Len(mfile) =< Len(man[p])
  /\ at[p] \in {"between", "manifest"} => vfile \in {vec[p], Torn}
  /\ Content(vfile) /\ Content(mfile) => Len(mfile) =< Len(vfile)

(* All rows that the sole writer p has persisted or is about to.           *)
Log(p) == IF Writing(p) THEN vec[p] ELSE IF vfile = Absent THEN <<>> ELSE vfile

(* Of the sole writer, as long as it was not killed in a write: both files *)
(* and its own two lists are the log wherever it is not at writing them,   *)
(* and so is what it has in memory; what is stored is in the log and in    *)
(* each file.                                                              *)
Intact(p) ==
  /\ ~Writing(p) => vfile = mfile /\ vfile # Torn
  /\ at[p] = "open" => vec[p] = Log(p)
  /\ at[p] = "open" \/ Writing(p) => man[p] = vec[p]
  /\ at[p] = "vectors" => vfile = Torn
  /\ at[p] \in {"between", "manifest"} => vfile = vec[p]
  /\ at[p] \in {"vectors", "between"} => mfile # Torn
  /\ at[p] = "manifest" => mfile = Torn
  /\ vfile = Absent \/ mfile = Absent => stored = {}
  /\ Content(mfile) => stored \subseteq ToSet(mfile) /\ Begins(mfile, Log(p))
  /\ stored \subseteq ToSet(Log(p))

(* ... and every other process has opened what the log begins with, all of *)
(* it that was stored by then.                                             *)
Follows(p, q) ==
  /\ Begins(vec[q], Log(p))
  /\ Begins(man[q], Log(p))
  /\ at[q] # "closed" => before[q] \subseteq ToSet(vec[q])
  /\ at[q] \notin {"closed", "opening"} => before[q] \subseteq ToSet(man[q])

SoleWriters ==
  \A p \in Processes : SoleWriter(p) =>
    /\ RowsForAll(p)
    /\ ~crashed => Intact(p) /\ \A q \in Processes : Follows(p, q)

StoreInv ==
  /\ TypeOK
  /\ FilesAppear
  /\ WritersAreKnown
  /\ ManifestsAreInjective
  /\ SoleWriters

-----------------------------------------------------------------------------
(* upsert's two lists.                                                     *)

LEMMA BatchProperties ==
  ASSUME NEW batch \in Batches
  PROVE  batch \in Seq(Ids) /\ IsInjective(batch)
<1>1. batch \in Seq(ToSet(batch)) /\ IsInjective(batch)
  BY StoreConstants
<1>2. DOMAIN batch = 1 .. Len(batch) /\ Len(batch) \in Nat
  BY <1>1, LenProperties
<1>3. \A i \in 1 .. Len(batch) : batch[i] \in Ids
  BY <1>2 DEF Ids, ToSet
<1>4. batch \in Seq(Ids)
  BY <1>1, <1>2, <1>3
<1>5. QED
  BY <1>1, <1>4

(* The ids that are appended: each once, none that the manifest has.       *)
LEMMA NewProperties ==
  ASSUME NEW p \in Processes, NEW batch \in Batches
  PROVE  /\ New(p, batch) \in Seq(Ids)
         /\ IsInjective(New(p, batch))
         /\ ToSet(New(p, batch)) \cap ToSet(man[p]) = {}
<1> DEFINE places == {i \in DOMAIN batch : batch[i] \notin ToSet(man[p])}
           new == New(p, batch)
<1>1. batch \in Seq(Ids) /\ IsInjective(batch)
  BY BatchProperties
<1>2. new = Kept(batch, places) /\ places \in SUBSET DOMAIN batch
  BY DEF New
<1>3. new \in Seq(Ids)
  <2> HIDE DEF places, new
  <2>1. QED
    BY <1>1, <1>2, KeptProperties
<1>4. PICK place \in [DOMAIN new -> places] :
        /\ \A i \in DOMAIN new : new[i] = batch[place[i]]
        /\ \A i, j \in DOMAIN new : i < j => place[i] < place[j]
  <2> HIDE DEF places, new
  <2>1. QED
    BY <1>1, <1>2, KeptProperties
<1>5. DOMAIN new = 1 .. Len(new) /\ Len(new) \in Nat
  BY <1>3, LenProperties
<1>6. ASSUME NEW i \in DOMAIN new, NEW j \in DOMAIN new, new[i] = new[j]
      PROVE  i = j
  <2> DEFINE x == place[i]
             y == place[j]
  <2>1. x \in DOMAIN batch /\ y \in DOMAIN batch /\ batch[x] = batch[y]
    BY <1>2, <1>4, <1>6
  <2>2. x = y
    BY <1>1, <2>1 DEF IsInjective
  <2>3. x \in Int /\ y \in Int
    BY <1>1, <2>1, LenProperties
  <2>4. (i < j => x < y) /\ (j < i => y < x)
    BY <1>4
  <2> HIDE DEF x, y, new
  <2>5. i \in Int /\ j \in Int
    BY <1>5
  <2>6. QED
    BY <2>2, <2>3, <2>4, <2>5
<1>7. \A i \in DOMAIN new : new[i] \notin ToSet(man[p])
  BY <1>4
<1> HIDE DEF new
<1>8. QED
  BY <1>3, <1>6, <1>7 DEF IsInjective, ToSet, new

(* Rows are overwritten in place.                                          *)
LEMMA OverwriteProperties ==
  ASSUME NEW p \in Processes, NEW batch, vec[p] \in Seq(Ids), man[p] \in Seq(Ids)
  PROVE  /\ Overwrite(p, batch) \in Seq(Ids)
         /\ Len(Overwrite(p, batch)) = Len(vec[p])
         /\ (\A i \in DOMAIN vec[p] \cap DOMAIN man[p] : vec[p][i] = man[p][i])
              => Overwrite(p, batch) = vec[p]
<1> DEFINE over == Overwrite(p, batch)
           n == Len(vec[p])
<1>1. DOMAIN vec[p] = 1 .. n /\ n \in Nat
  BY LenProperties
<1>2. \A i \in DOMAIN vec[p] : vec[p][i] \in Ids
  BY ElementOfSeq, <1>1
<1>3. \A i \in DOMAIN man[p] : man[p][i] \in Ids
  BY ElementOfSeq, LenProperties
<1>4. over \in [1 .. n -> Ids]
  BY <1>1, <1>2, <1>3 DEF Overwrite
<1>5. over \in Seq(Ids) /\ Len(over) = n
  <2> HIDE DEF over, n
  <2>1. QED
    BY <1>1, <1>4
<1>6. ASSUME \A i \in DOMAIN vec[p] \cap DOMAIN man[p] : vec[p][i] = man[p][i]
      PROVE  over = vec[p]
  <2>1. vec[p] \in [1 .. n -> Ids]
    BY <1>1, <1>2
  <2>2. \A i \in 1 .. n : over[i] = vec[p][i]
    BY <1>1, <1>6 DEF Overwrite
  <2>3. QED
    BY <1>4, <2>1, <2>2
<1>7. QED
  BY <1>5, <1>6

LEMMA ConcatInjective ==
  ASSUME NEW T, NEW s \in Seq(T), NEW t \in Seq(T), IsInjective(s), IsInjective(t),
         ToSet(t) \cap ToSet(s) = {}
  PROVE  IsInjective(s \o t)
<1> DEFINE u == s \o t
<1>1. /\ Len(s) \in Nat /\ Len(t) \in Nat
      /\ DOMAIN s = 1 .. Len(s) /\ DOMAIN t = 1 .. Len(t)
      /\ DOMAIN u = 1 .. Len(s) + Len(t)
      /\ \A i \in DOMAIN u : u[i] = IF i =< Len(s) THEN s[i] ELSE t[i - Len(s)]
  OBVIOUS
<1> HIDE DEF u
<1> SUFFICES ASSUME NEW i \in DOMAIN u, NEW j \in DOMAIN u, u[i] = u[j]
             PROVE  i = j
  BY DEF IsInjective, u
<1>2. i \in Nat /\ j \in Nat
  BY <1>1
<1>3. ASSUME NEW k \in DOMAIN u, k =< Len(s)
      PROVE  k \in DOMAIN s /\ u[k] = s[k]
  BY <1>1, <1>3
<1>4. ASSUME NEW k \in DOMAIN u, ~(k =< Len(s))
      PROVE  k - Len(s) \in DOMAIN t /\ u[k] = t[k - Len(s)]
  BY <1>1, <1>4
<1>5. \A x \in DOMAIN s, y \in DOMAIN t : s[x] # t[y]
  BY DEF ToSet
<1>6. CASE i =< Len(s) /\ j =< Len(s)
  BY <1>3, <1>6 DEF IsInjective
<1>7. CASE ~(i =< Len(s)) /\ ~(j =< Len(s))
  <2>1. i - Len(s) = j - Len(s)
    BY <1>4, <1>7 DEF IsInjective
  <2>2. QED
    BY <1>1, <1>2, <2>1
<1>8. CASE (i =< Len(s)) # (j =< Len(s))
  BY <1>3, <1>4, <1>5, <1>8
<1>9. QED
  BY <1>6, <1>7, <1>8

LEMMA BeginsConcat ==
  ASSUME NEW T, NEW s \in Seq(T), NEW t \in Seq(T)
  PROVE  Begins(s, s \o t)
BY DEF Begins

LEMMA BeginsTrans ==
  ASSUME NEW s, NEW t, NEW u, Begins(s, t), Begins(t, u)
  PROVE  Begins(s, u)
BY DEF Begins

LEMMA BeginsToSet ==
  ASSUME NEW s, NEW t, Begins(s, t)
  PROVE  ToSet(s) \subseteq ToSet(t)
BY DEF Begins, ToSet

-----------------------------------------------------------------------------
(* The parts that hold whoever writes.                                     *)

LEMMA WrittenFiles ==
  ASSUME NEW p \in Processes, NEW file, NEW content, NEW new \in Written(p, file, content)
  PROVE  new \in {content, Torn}
BY DEF Written

LEMMA UpsertTypes ==
  ASSUME TypeOK, NEW p \in Processes, NEW batch \in Batches, Upsert(p, batch)
  PROVE  TypeOK'
<1>1. vec[p] \in Seq(Ids) /\ man[p] \in Seq(Ids)
  BY DEF TypeOK
<1>2. New(p, batch) \in Seq(Ids) /\ Overwrite(p, batch) \in Seq(Ids)
  BY <1>1, NewProperties, OverwriteProperties
<1>3. Overwrite(p, batch) \o New(p, batch) \in Seq(Ids) /\ man[p] \o New(p, batch) \in Seq(Ids)
  BY <1>1, <1>2, ConcatProperties
<1>4. QED
  BY <1>3 DEF TypeOK, Upsert, Goto, Points, Files

LEMMA StoreTypes ==
  ASSUME StoreInv, [Next]_vars
  PROVE  TypeOK'
<1> USE DEF TypeOK
<1>1. TypeOK
  BY DEF StoreInv
<1>2. ASSUME NEW p \in Processes, OpenEmpty(p)
      PROVE  TypeOK'
  <2>1. <<>> \in Seq(Ids)
    OBVIOUS
  <2>2. QED
    BY <1>1, <1>2, <2>1 DEF OpenEmpty, Opens, Goto, Points
<1>3. ASSUME NEW p \in Processes, LoadVectors(p)
      PROVE  TypeOK'
  BY <1>1, <1>3 DEF LoadVectors, Opens, Goto, Points, Files
<1>4. ASSUME NEW p \in Processes, LoadManifest(p)
      PROVE  TypeOK'
  BY <1>1, <1>4 DEF LoadManifest, StoreInv, FilesAppear, Goto, Points, Files, history
<1>5. ASSUME NEW p \in Processes, NEW batch \in Batches, Upsert(p, batch)
      PROVE  TypeOK'
  BY <1>1, <1>5, UpsertTypes
<1>6. ASSUME NEW p \in Processes, NEW batch \in Batches, UpsertRaises(p, batch)
      PROVE  TypeOK'
  <2>1. PICK j \in OutOfBounds(p, batch) :
          vec' = [vec EXCEPT ![p] = Overwrite(p, SubSeq(batch, 1, j - 1))]
    BY <1>6 DEF UpsertRaises
  <2>2. Overwrite(p, SubSeq(batch, 1, j - 1)) \in Seq(Ids)
    BY <1>1, OverwriteProperties
  <2>3. QED
    BY <1>1, <1>6, <2>1, <2>2 DEF UpsertRaises, history
<1>7. ASSUME NEW p \in Processes, SaveVectors(p)
      PROVE  TypeOK'
  <2>1. vfile' \in {vec[p], Torn}
    BY <1>7, WrittenFiles DEF SaveVectors
  <2>2. QED
    BY <1>1, <1>7, <2>1 DEF SaveVectors, Goto, Points, Files, history
<1>8. ASSUME NEW p \in Processes, OpenManifest(p)
      PROVE  TypeOK'
  BY <1>1, <1>8 DEF OpenManifest, Goto, Points, Files, history
<1>9. ASSUME NEW p \in Processes, SaveManifest(p)
      PROVE  TypeOK'
  <2>1. mfile' \in {man[p], Torn}
    BY <1>9, WrittenFiles DEF SaveManifest
  <2>2. ToSet(man[p]) \subseteq Ids
    BY <1>1, ElementOfSeq, LenProperties DEF ToSet
  <2>3. QED
    BY <1>1, <1>9, <2>1, <2>2 DEF SaveManifest, Goto, Points, Files
<1>10. ASSUME NEW p \in Processes, Crash(p)
       PROVE  TypeOK'
  <2>1. <<>> \in Seq(Ids)
    OBVIOUS
  <2>2. QED
    BY <1>1, <1>10, <2>1 DEF Crash, Goto, Points
<1>11. CASE UNCHANGED vars
  BY <1>1, <1>11 DEF vars, history
<1>12. QED
  BY <1>2, <1>3, <1>4, <1>5, <1>6, <1>7, <1>8, <1>9, <1>10, <1>11 DEF Next, Open, Persist

LEMMA FilesStay ==
  ASSUME StoreInv, [Next]_vars
  PROVE  FilesAppear' /\ WritersAreKnown'
<1> USE DEF FilesAppear, WritersAreKnown, Writing
<1>1. FilesAppear /\ WritersAreKnown
  BY DEF StoreInv
<1>2. /\ DOMAIN at = Processes
      /\ \A p \in Processes : vec[p] # Absent /\ man[p] # Absent
      /\ Absent # Torn
  BY StoreConstants DEF StoreInv, TypeOK
<1>3. ASSUME NEW p \in Processes, Open(p)
      PROVE  FilesAppear' /\ WritersAreKnown'
  BY <1>1, <1>2, <1>3 DEF Open, OpenEmpty, LoadVectors, LoadManifest, Opens, Goto, history
<1>4. ASSUME NEW p \in Processes, NEW batch \in Batches,
             Upsert(p, batch) \/ UpsertRaises(p, batch)
      PROVE  FilesAppear' /\ WritersAreKnown'
  BY <1>1, <1>2, <1>4 DEF Upsert, UpsertRaises, Goto, history
<1>5. ASSUME NEW p \in Processes, SaveVectors(p)
      PROVE  FilesAppear' /\ WritersAreKnown'
  <2>1. vfile' \in {vec[p], Torn}
    BY <1>5, WrittenFiles DEF SaveVectors
  <2>2. QED
    BY <1>1, <1>2, <1>5, <2>1 DEF SaveVectors, Goto, history
<1>6. ASSUME NEW p \in Processes, OpenManifest(p)
      PROVE  FilesAppear' /\ WritersAreKnown'
  BY <1>1, <1>2, <1>6 DEF OpenManifest, Goto, history
<1>7. ASSUME NEW p \in Processes, SaveManifest(p)
      PROVE  FilesAppear' /\ WritersAreKnown'
  <2>1. mfile' \in {man[p], Torn}
    BY <1>7, WrittenFiles DEF SaveManifest
  <2>2. QED
    BY <1>1, <1>2, <1>7, <2>1 DEF SaveManifest, Goto
<1>8. ASSUME NEW p \in Processes, Crash(p)
      PROVE  FilesAppear' /\ WritersAreKnown'
  BY <1>1, <1>2, <1>8 DEF Crash, Goto
<1>9. CASE UNCHANGED vars
  BY <1>1, <1>9 DEF vars, history
<1>10. QED
  BY <1>3, <1>4, <1>5, <1>6, <1>7, <1>8, <1>9 DEF Next, Persist

LEMMA ManifestsStayInjective ==
  ASSUME StoreInv, [Next]_vars
  PROVE  ManifestsAreInjective'
<1> USE DEF ManifestsAreInjective, Content
<1>1. ManifestsAreInjective /\ TypeOK /\ FilesAppear
  BY DEF StoreInv
<1>2. DOMAIN man = Processes
  BY <1>1 DEF TypeOK
<1>3. IsInjective(<<>>)
  BY DEF IsInjective
<1>4. ASSUME NEW p \in Processes, OpenEmpty(p) \/ Crash(p)
      PROVE  ManifestsAreInjective'
  BY <1>1, <1>2, <1>3, <1>4 DEF OpenEmpty, Crash
<1>5. ASSUME NEW p \in Processes, LoadManifest(p)
      PROVE  ManifestsAreInjective'
  BY <1>1, <1>2, <1>5 DEF LoadManifest, FilesAppear
<1>6. ASSUME NEW p \in Processes, NEW batch \in Batches, Upsert(p, batch)
      PROVE  ManifestsAreInjective'
  <2>1. man[p] \in Seq(Ids) /\ IsInjective(man[p])
    BY <1>1 DEF TypeOK
  <2>2. IsInjective(man[p] \o New(p, batch))
    BY <2>1, NewProperties, ConcatInjective
  <2>3. QED
    BY <1>1, <1>2, <1>6, <2>2 DEF Upsert
<1>7. ASSUME NEW p \in Processes, SaveManifest(p)
      PROVE  ManifestsAreInjective'
  <2>1. mfile' \in {man[p], Torn}
    BY <1>7, WrittenFiles DEF SaveManifest
  <2>2. QED
    BY <1>1, <1>7, <2>1 DEF SaveManifest
<1>8. CASE UNCHANGED man /\ mfile' \in {mfile, Torn}
  BY <1>1, <1>8
<1>9. QED
  BY <1>4, <1>5, <1>6, <1>7, <1>8
  DEF Next, Open, Persist, LoadVectors, UpsertRaises, SaveVectors, OpenManifest, vars

-----------------------------------------------------------------------------
(* The sole writer.                                                        *)

ProcessStep(q) ==
  \/ Open(q)
  \/ \E batch \in Batches : Upsert(q, batch) \/ UpsertRaises(q, batch)
  \/ Persist(q)
  \/ Crash(q)

(* A step of one process leaves the others where they are.                 *)
LEMMA OthersStay ==
  ASSUME TypeOK, NEW q \in Processes, ProcessStep(q), NEW r \in Processes, r # q
  PROVE  at'[r] = at[r] /\ vec'[r] = vec[r] /\ man'[r] = man[r] /\ before'[r] = before[r]
<1>1. CASE Open(q)
  BY <1>1 DEF TypeOK, Open, OpenEmpty, LoadVectors, LoadManifest, Opens, Goto, history
<1>2. CASE \E batch \in Batches : Upsert(q, batch) \/ UpsertRaises(q, batch)
  BY <1>2 DEF TypeOK, Upsert, UpsertRaises, Goto, history
<1>3. CASE Persist(q)
  BY <1>3 DEF TypeOK, Persist, SaveVectors, OpenManifest, SaveManifest, Goto, history
<1>4. CASE Crash(q)
  BY <1>4 DEF TypeOK, Crash, Goto
<1>5. QED
  BY <1>1, <1>2, <1>3, <1>4 DEF ProcessStep

LEMMA WritersGrow ==
  ASSUME NEW q \in Processes, ProcessStep(q)
  PROVE  writers \subseteq writers'
BY DEF ProcessStep, Open, OpenEmpty, LoadVectors, LoadManifest, Opens, Upsert, UpsertRaises,
       Persist, SaveVectors, OpenManifest, SaveManifest, Crash, history

(* A process that is not the sole writer leaves the files alone.           *)
LEMMA ReadersOnlyRead ==
  ASSUME StoreInv, NEW p \in Processes, NEW q \in Processes, q # p,
         ProcessStep(q), SoleWriter(p)'
  PROVE  /\ UNCHANGED <<vfile, mfile, stored, crashed>>
         /\ Open(q) \/ Crash(q) \/ \E batch \in Batches : UpsertRaises(q, batch)
<1>1. q \notin writers'
  BY DEF SoleWriter
<1>2. q \notin writers
  BY <1>1, WritersGrow
<1>3. ~Writing(q)
  BY <1>2 DEF StoreInv, WritersAreKnown
<1>4. ~ \E batch \in Batches : Upsert(q, batch)
  BY <1>1 DEF Upsert
<1>5. ~Persist(q)
  BY <1>3 DEF Persist, SaveVectors, OpenManifest, SaveManifest, Writing
<1>6. Open(q) \/ Crash(q) \/ \E batch \in Batches : UpsertRaises(q, batch)
  BY <1>4, <1>5 DEF ProcessStep
<1>7. crashed \in BOOLEAN
  BY DEF StoreInv, TypeOK
<1>8. CASE Crash(q)
  BY <1>3, <1>7, <1>8 DEF Crash, Writing
<1>9. CASE ~Crash(q)
  BY <1>6, <1>9 DEF Open, OpenEmpty, LoadVectors, LoadManifest, Opens, UpsertRaises, history
<1>10. QED
  BY <1>6, <1>8, <1>9

(* What the writer's own steps find: with its own store open, all rows     *)
(* have their vectors.                                                     *)
LEMMA WriterKeepsRows ==
  ASSUME StoreInv, NEW p \in Processes, SoleWriter(p), ProcessStep(p)
  PROVE  RowsForAll(p)'
<1> USE DEF RowsForAll, Writing, Content
<1>1. RowsForAll(p) /\ TypeOK /\ FilesAppear
  BY DEF StoreInv, SoleWriters
<1>2. /\ at \in [Processes -> Points] /\ DOMAIN vec = Processes /\ DOMAIN man = Processes
      /\ vec[p] \in Seq(Ids) /\ man[p] \in Seq(Ids)
      /\ Absent \notin Seq(Ids) /\ Torn \notin Seq(Ids)
  BY <1>1, StoreConstants DEF TypeOK
<1>3. Len(vec[p]) \in Nat /\ Len(man[p]) \in Nat
  BY <1>2, LenProperties
<1>4. CASE OpenEmpty(p)
  <2>1. vfile = Absent \/ mfile = Absent
    BY <1>4 DEF OpenEmpty
  <2>2. ~Content(mfile)
    BY <1>1, <2>1 DEF FilesAppear
  <2>3. /\ at'[p] = "open" /\ vec'[p] = <<>> /\ man'[p] = <<>>
        /\ vfile' = vfile /\ mfile' = mfile
    BY <1>2, <1>4 DEF OpenEmpty, Goto
  <2>4. QED
    BY <2>2, <2>3
<1>5. CASE LoadVectors(p)
  BY <1>1, <1>2, <1>5 DEF LoadVectors, Goto
<1>6. CASE LoadManifest(p)
  <2>1. CASE mfile = Torn
    BY <1>1, <1>2, <1>6, <2>1 DEF LoadManifest, Goto
  <2>2. CASE mfile # Torn
    <3>1. /\ at'[p] = "open" /\ vec'[p] = vec[p] /\ man'[p] = mfile
          /\ vfile' = vfile /\ mfile' = mfile
      BY <1>2, <1>6, <2>2 DEF LoadManifest, Goto
    <3>2. vfile = vec[p] /\ Content(mfile)
      BY <1>1, <1>6, <2>2 DEF LoadManifest, FilesAppear
    <3>3. Content(vfile)
      BY <1>2, <3>2
    <3>4. Len(mfile) \in Nat
      BY <1>1, <3>2, LenProperties DEF TypeOK, Files
    <3>5. QED
      BY <1>1, <3>1, <3>2, <3>3, <3>4
  <2>3. QED
    BY <2>1, <2>2
<1>7. ASSUME NEW batch \in Batches, Upsert(p, batch)
      PROVE  RowsForAll(p)'
  <2> DEFINE new == New(p, batch)
             over == Overwrite(p, batch)
  <2>1. new \in Seq(Ids) /\ over \in Seq(Ids) /\ Len(over) = Len(vec[p])
    BY <1>2, NewProperties, OverwriteProperties
  <2>2. /\ at'[p] = "vectors" /\ vfile' = Torn /\ mfile' = mfile
        /\ vec'[p] = over \o new /\ man'[p] = man[p] \o new
    BY <1>2, <1>7 DEF Upsert, Goto
  <2> HIDE DEF new, over
  <2>3. Len(vec'[p]) = Len(vec[p]) + Len(new) /\ Len(man'[p]) = Len(man[p]) + Len(new)
        /\ Len(new) \in Nat
    BY <1>2, <2>1, <2>2, LenProperties, ConcatProperties
  <2>4. Len(man[p]) =< Len(vec[p]) /\ (Content(mfile) => Len(mfile) =< Len(man[p]))
    BY <1>1, <1>7 DEF Upsert
  <2>5. Content(mfile) => Len(mfile) \in Nat
    BY <1>1, LenProperties DEF TypeOK, Files
  <2>6. QED
    BY <1>3, <2>2, <2>3, <2>4, <2>5
<1>8. ASSUME NEW batch \in Batches, UpsertRaises(p, batch)
      PROVE  RowsForAll(p)'
  <2>1. PICK sub : vec' = [vec EXCEPT ![p] = Overwrite(p, sub)]
    BY <1>8 DEF UpsertRaises
  <2>2. Len(vec'[p]) = Len(vec[p])
    BY <1>2, <2>1, OverwriteProperties
  <2>3. at'[p] = "open" /\ at[p] = "open" /\ man' = man /\ vfile' = vfile /\ mfile' = mfile
    BY <1>8 DEF UpsertRaises
  <2>4. QED
    BY <1>1, <2>2, <2>3
<1>9. CASE SaveVectors(p)
  <2>1. vfile' \in {vec[p], Torn}
    BY <1>9, WrittenFiles DEF SaveVectors
  <2>2. at[p] = "vectors" /\ at'[p] = "between" /\ vec' = vec /\ man' = man /\ mfile' = mfile
    BY <1>2, <1>9 DEF SaveVectors, Goto
  <2>3. Content(mfile) => Len(mfile) \in Nat
    BY <1>1, LenProperties DEF TypeOK, Files
  <2>4. QED
    BY <1>1, <1>3, <2>1, <2>2, <2>3
<1>10. CASE OpenManifest(p)
  BY <1>1, <1>2, <1>10 DEF OpenManifest, Goto
<1>11. CASE SaveManifest(p)
  <2>1. mfile' \in {man[p], Torn}
    BY <1>11, WrittenFiles DEF SaveManifest
  <2>2. at[p] = "manifest" /\ at'[p] = "open" /\ vec' = vec /\ man' = man /\ vfile' = vfile
    BY <1>2, <1>11 DEF SaveManifest, Goto
  <2>3. QED
    BY <1>1, <1>3, <2>1, <2>2
<1>12. CASE Crash(p)
  BY <1>1, <1>2, <1>12 DEF Crash, Goto
<1>13. QED
  BY <1>4, <1>5, <1>6, <1>7, <1>8, <1>9, <1>10, <1>11, <1>12 DEF ProcessStep, Open, Persist

(* ... and, unless it is killed in a write, the files have all of its log, *)
(* which grows at its end only.                                            *)
LEMMA WriterStaysIntact ==
  ASSUME StoreInv, NEW p \in Processes, SoleWriter(p), ProcessStep(p), ~crashed'
  PROVE  /\ ~crashed
         /\ Intact(p)'
         /\ Begins(Log(p), Log(p)')
         /\ Follows(p, p)'
<1> USE DEF Intact, Follows, Log, Writing, Content
<1>1. TypeOK /\ FilesAppear /\ RowsForAll(p)
  BY DEF StoreInv, SoleWriters
<1>2. /\ at \in [Processes -> Points] /\ DOMAIN vec = Processes /\ DOMAIN man = Processes
      /\ DOMAIN before = Processes
      /\ vec[p] \in Seq(Ids) /\ man[p] \in Seq(Ids) /\ before[p] \subseteq stored
      /\ Absent \notin Seq(Ids) /\ Torn \notin Seq(Ids) /\ Absent # Torn
  BY <1>1, StoreConstants DEF TypeOK
<1>3. ~crashed
  BY DEF ProcessStep, Open, OpenEmpty, LoadVectors, LoadManifest, Opens, Upsert, UpsertRaises,
         Persist, SaveVectors, OpenManifest, SaveManifest, Crash, history
<1>4. Intact(p) /\ Follows(p, p)
  BY <1>3 DEF StoreInv, SoleWriters
<1>5. \A s : Begins(<<>>, s) /\ Begins(s, s)
  BY DEF Begins
<1>6. \A s, t : Begins(s, t) => ToSet(s) \subseteq ToSet(t)
  BY BeginsToSet
<1>7. CASE OpenEmpty(p)
  <2>1. /\ at[p] = "closed" /\ at'[p] = "open" /\ vec'[p] = <<>> /\ man'[p] = <<>>
        /\ vfile' = vfile /\ mfile' = mfile /\ stored' = stored /\ before'[p] = stored
    BY <1>2, <1>7 DEF OpenEmpty, Goto, Opens
  <2>2. vfile = Absent /\ mfile = Absent
    BY <1>4, <1>7, <2>1 DEF OpenEmpty
  <2>3. QED
    BY <1>2, <1>3, <1>4, <1>5, <2>1, <2>2
<1>8. CASE LoadVectors(p)
  <2>1. /\ at[p] = "closed" /\ at'[p] = "opening" /\ vec'[p] = vfile /\ man'[p] = man[p]
        /\ vfile' = vfile /\ mfile' = mfile /\ stored' = stored /\ before'[p] = stored
        /\ vfile # Absent
    BY <1>2, <1>8 DEF LoadVectors, Goto, Opens
  <2>2. QED
    BY <1>2, <1>3, <1>4, <1>5, <2>1
<1>9. CASE LoadManifest(p)
  <2>1. at[p] = "opening" /\ mfile # Torn /\ vfile = mfile /\ vec[p] = vfile /\ vfile # Absent
    BY <1>1, <1>2, <1>4, <1>9 DEF LoadManifest, RowsForAll
  <2>2. /\ at'[p] = "open" /\ vec'[p] = vec[p] /\ man'[p] = mfile
        /\ vfile' = vfile /\ mfile' = mfile /\ stored' = stored /\ before'[p] = before[p]
    BY <1>2, <1>9, <2>1 DEF LoadManifest, Goto, history
  <2>3. QED
    BY <1>2, <1>3, <1>4, <1>5, <2>1, <2>2
<1>10. ASSUME NEW batch \in Batches, Upsert(p, batch)
       PROVE  Intact(p)' /\ Begins(Log(p), Log(p)') /\ Follows(p, p)'
  <2> DEFINE new == New(p, batch)
             log == vec[p]
  <2>1. at[p] = "open" /\ vec[p] = man[p] /\ Log(p) = log
    BY <1>4, <1>10 DEF Upsert
  <2>2. Overwrite(p, batch) = log
    BY <1>2, <2>1, OverwriteProperties
  <2>3. /\ at'[p] = "vectors" /\ vfile' = Torn /\ mfile' = mfile
        /\ vec'[p] = log \o new /\ man'[p] = log \o new
        /\ stored' = stored /\ before'[p] = before[p]
    BY <1>2, <1>10, <2>1, <2>2 DEF Upsert, Goto
  <2>4. new \in Seq(Ids)
    BY NewProperties
  <2>5. Begins(log, log \o new)
    BY <1>2, <2>4, BeginsConcat
  <2>6. Log(p)' = log \o new
    BY <2>3
  <2>7. vfile = mfile /\ vfile # Torn /\ (Content(mfile) => Begins(mfile, log))
        /\ stored \subseteq ToSet(log) /\ before[p] \subseteq ToSet(log)
    BY <1>2, <1>4, <2>1
  <2> HIDE DEF new, log
  <2>8. Content(mfile) => Begins(mfile, log \o new)
    BY <2>5, <2>7, BeginsTrans
  <2>9. ToSet(log) \subseteq ToSet(log \o new)
    BY <2>5, BeginsToSet
  <2>10. Intact(p)'
    BY <1>2, <1>4, <2>3, <2>6, <2>7, <2>8, <2>9
  <2>11. Follows(p, p)'
    BY <1>5, <2>3, <2>6, <2>7, <2>9
  <2>12. QED
    BY <2>1, <2>5, <2>6, <2>10, <2>11
<1>11. ASSUME NEW batch \in Batches, UpsertRaises(p, batch)
       PROVE  FALSE
  <2>1. PICK j \in DOMAIN batch : \E i \in DOMAIN man[p] \ DOMAIN vec[p] : TRUE
    BY <1>11 DEF UpsertRaises, OutOfBounds
  <2>2. man[p] = vec[p]
    BY <1>4, <1>11 DEF UpsertRaises
  <2>3. QED
    BY <2>1, <2>2
<1>12. CASE SaveVectors(p)
  <2>1. at[p] = "vectors" /\ at'[p] = "between" /\ vec' = vec /\ man' = man
        /\ mfile' = mfile /\ stored' = stored /\ before' = before
    BY <1>2, <1>12 DEF SaveVectors, Goto, history
  <2>2. vfile' = vec[p]
    <3>1. vfile = Torn
      BY <1>4, <2>1
    <3>2. \A q \in Processes \ {p} : at[q] # "vectors"
      BY DEF StoreInv, WritersAreKnown, SoleWriter
    <3>3. QED
      BY <1>12, <2>1, <3>1, <3>2 DEF SaveVectors, Written
  <2>3. QED
    BY <1>2, <1>3, <1>4, <1>5, <2>1, <2>2
<1>13. CASE OpenManifest(p)
  <2>1. at[p] = "between" /\ at'[p] = "manifest" /\ vec' = vec /\ man' = man /\ mfile' = Torn
        /\ vfile' = vfile /\ stored' = stored /\ before' = before
    BY <1>2, <1>13 DEF OpenManifest, Goto, history
  <2>2. stored = {} \/ mfile # Absent
    BY <1>4
  <2>3. vfile # Absent
    BY <1>2, <1>4, <2>1
  <2>4. QED
    BY <1>2, <1>3, <1>4, <1>5, <2>1, <2>3
<1>14. CASE SaveManifest(p)
  <2>1. at[p] = "manifest" /\ at'[p] = "open" /\ vec' = vec /\ man' = man
        /\ vfile' = vfile /\ before' = before /\ stored' = stored \cup ToSet(man[p])
    BY <1>2, <1>14 DEF SaveManifest, Goto
  <2>2. mfile' = man[p]
    <3>1. mfile = Torn
      BY <1>4, <2>1
    <3>2. \A q \in Processes \ {p} : at[q] # "manifest"
      BY DEF StoreInv, WritersAreKnown, SoleWriter
    <3>3. QED
      BY <1>14, <2>1, <3>1, <3>2 DEF SaveManifest, Written
  <2>3. man[p] = vec[p] /\ vfile = vec[p] /\ Log(p) = vec[p]
    BY <1>4, <2>1
  <2>4. QED
    BY <1>2, <1>3, <1>4, <1>5, <2>1, <2>2, <2>3
<1>15. CASE Crash(p)
  <2>1. ~Writing(p)
    BY <1>15 DEF Crash
  <2>2. at'[p] = "closed" /\ vec'[p] = <<>> /\ man'[p] = <<>>
        /\ vfile' = vfile /\ mfile' = mfile /\ stored' = stored
    BY <1>2, <1>15 DEF Crash, Goto
  <2>3. QED
    BY <1>2, <1>3, <1>4, <1>5, <2>1, <2>2
<1>16. QED
  BY <1>3, <1>7, <1>8, <1>9, <1>10, <1>11, <1>12, <1>13, <1>14, <1>15 DEF ProcessStep, Open, Persist

(* A step of another process leaves files and log as they are, and what it *)
(* reads is what the log begins with.                                      *)
LEMMA ReadersFollow ==
  ASSUME StoreInv, NEW p \in Processes, NEW q \in Processes, q # p,
         ProcessStep(q), SoleWriter(p)', SoleWriter(p)
  PROVE  /\ RowsForAll(p)'
         /\ ~crashed' => /\ Intact(p)' /\ Log(p)' = Log(p)
                         /\ Follows(p, q)' /\ Follows(p, p)'
<1> USE DEF Follows, Log, Writing, Content
<1>1. TypeOK /\ FilesAppear /\ RowsForAll(p)
  BY DEF StoreInv, SoleWriters
<1>2. /\ DOMAIN at = Processes /\ DOMAIN vec = Processes /\ DOMAIN man = Processes
      /\ DOMAIN before = Processes
      /\ vec[q] \in Seq(Ids) /\ man[q] \in Seq(Ids)
      /\ before[q] \subseteq stored
  BY <1>1 DEF TypeOK
<1>3. /\ UNCHANGED <<vfile, mfile, stored, crashed>>
      /\ Open(q) \/ Crash(q) \/ \E batch \in Batches : UpsertRaises(q, batch)
  BY ReadersOnlyRead
<1>4. at'[p] = at[p] /\ vec'[p] = vec[p] /\ man'[p] = man[p] /\ before'[p] = before[p]
  BY <1>1, OthersStay
<1>5. RowsForAll(p)'
  BY <1>1, <1>3, <1>4 DEF RowsForAll
<1> SUFFICES ASSUME ~crashed'
             PROVE  Intact(p)' /\ Log(p)' = Log(p) /\ Follows(p, q)' /\ Follows(p, p)'
  BY <1>5
<1>6. Intact(p) /\ Follows(p, q) /\ Follows(p, p)
  BY <1>3 DEF StoreInv, SoleWriters
<1>7. Log(p)' = Log(p)
  BY <1>3, <1>4
<1>8. Intact(p)' /\ Follows(p, p)'
  BY <1>3, <1>4, <1>6, <1>7 DEF Intact
<1>9. \A s : Begins(<<>>, s) /\ Begins(s, s)
  BY DEF Begins
<1>10. ASSUME Content(vfile)
       PROVE  Begins(vfile, Log(p)) /\ stored \subseteq ToSet(vfile)
  <2>1. vfile = Log(p)
    BY <1>6, <1>10 DEF Intact
  <2>2. QED
    BY <1>6, <1>9, <2>1 DEF Intact
<1>11. ASSUME Content(mfile)
       PROVE  Begins(mfile, Log(p)) /\ stored \subseteq ToSet(mfile)
  BY <1>6, <1>11 DEF Intact
<1> DEFINE L == Log(p)
<1> SUFFICES /\ Begins(vec'[q], L)
             /\ Begins(man'[q], L)
             /\ at'[q] # "closed" => before'[q] \subseteq ToSet(vec'[q])
             /\ at'[q] \notin {"closed", "opening"} => before'[q] \subseteq ToSet(man'[q])
  BY <1>7, <1>8
<1>12. /\ Begins(vec[q], L) /\ Begins(man[q], L)
       /\ at[q] # "closed" => before[q] \subseteq ToSet(vec[q])
       /\ at[q] \notin {"closed", "opening"} => before[q] \subseteq ToSet(man[q])
  BY <1>6
<1> HIDE DEF L, Log, Follows
<1>13. CASE OpenEmpty(q)
  <2>1. at'[q] = "open" /\ vec'[q] = <<>> /\ man'[q] = <<>> /\ before'[q] = stored
    BY <1>2, <1>13 DEF OpenEmpty, Goto, Opens
  <2>2. stored = {}
    BY <1>6, <1>13 DEF Intact, OpenEmpty
  <2>3. QED
    BY <1>9, <2>1, <2>2
<1>14. CASE LoadVectors(q)
  <2>1. at'[q] = "opening" /\ vec'[q] = vfile /\ man'[q] = man[q] /\ before'[q] = stored
        /\ Content(vfile)
    BY <1>2, <1>14 DEF LoadVectors, Goto, Opens
  <2>2. QED
    BY <1>10, <1>12, <2>1 DEF L
<1>15. CASE LoadManifest(q)
  <2>1. at[q] = "opening" /\ vec'[q] = vec[q] /\ before'[q] = before[q]
    BY <1>2, <1>15 DEF LoadManifest, history
  <2>2. CASE mfile = Torn
    BY <1>2, <1>12, <1>15, <2>1, <2>2 DEF LoadManifest, Goto
  <2>3. CASE mfile # Torn
    <3>1. at'[q] = "open" /\ man'[q] = mfile
      BY <1>2, <1>15, <2>3 DEF LoadManifest, Goto
    <3>2. Content(mfile)
      BY <1>1, <2>1, <2>3 DEF FilesAppear
    <3>3. QED
      BY <1>2, <1>11, <1>12, <2>1, <3>1, <3>2 DEF L
  <2>4. QED
    BY <2>2, <2>3
<1>16. ASSUME NEW batch \in Batches, UpsertRaises(q, batch)
       PROVE  /\ vec'[q] = vec[q] /\ man'[q] = man[q]
              /\ at'[q] = at[q] /\ before'[q] = before[q]
  <2>1. PICK sub : vec' = [vec EXCEPT ![q] = Overwrite(q, sub)]
    BY <1>16 DEF UpsertRaises
  <2>2. \A i \in DOMAIN vec[q] \cap DOMAIN man[q] : vec[q][i] = man[q][i]
    BY <1>12 DEF Begins
  <2>3. Overwrite(q, sub) = vec[q]
    BY <1>2, <2>2, OverwriteProperties
  <2>4. QED
    BY <1>2, <1>16, <2>1, <2>3 DEF UpsertRaises, history
<1>17. CASE Crash(q)
  <2>1. at'[q] = "closed" /\ vec'[q] = <<>> /\ man'[q] = <<>>
    BY <1>2, <1>17 DEF Crash, Goto
  <2>2. QED
    BY <1>9, <2>1
<1>18. QED
  BY <1>3, <1>12, <1>13, <1>14, <1>15, <1>16, <1>17 DEF Open

LEMMA SoleWritersStay ==
  ASSUME StoreInv, [Next]_vars
  PROVE  SoleWriters'
<1>1. CASE UNCHANGED vars
  BY <1>1 DEF vars, history, StoreInv, SoleWriters, SoleWriter, RowsForAll, Intact, Follows,
              Log, Writing
<1>2. ASSUME NEW q \in Processes, ProcessStep(q)
      PROVE  SoleWriters'
  <2> SUFFICES ASSUME NEW p \in Processes, SoleWriter(p)'
               PROVE  /\ RowsForAll(p)'
                      /\ ~crashed' => Intact(p)' /\ \A r \in Processes : Follows(p, r)'
    BY DEF SoleWriters
  <2>1. SoleWriter(p)
    BY <1>2, WritersGrow DEF SoleWriter
  <2>2. TypeOK
    BY DEF StoreInv
  <2>3. ASSUME ~crashed, NEW r \in Processes, r # q, Begins(Log(p), Log(p)')
        PROVE  Follows(p, r)'
    <3>1. at'[r] = at[r] /\ vec'[r] = vec[r] /\ man'[r] = man[r] /\ before'[r] = before[r]
      BY <1>2, <2>2, <2>3, OthersStay
    <3>2. Follows(p, r)
      BY <2>1, <2>3 DEF StoreInv, SoleWriters
    <3>3. Begins(vec[r], Log(p)') /\ Begins(man[r], Log(p)')
      BY <2>3, <3>2, BeginsTrans DEF Follows
    <3>4. QED
      BY <3>1, <3>2, <3>3 DEF Follows
  <2>4. CASE q = p
    <3>1. RowsForAll(p)'
      BY <1>2, <2>1, <2>4, WriterKeepsRows
    <3>2. ASSUME ~crashed'
          PROVE  ~crashed /\ Intact(p)' /\ Begins(Log(p), Log(p)') /\ Follows(p, p)'
      BY <1>2, <2>1, <2>4, <3>2, WriterStaysIntact
    <3>3. QED
      BY <2>3, <2>4, <3>1, <3>2
  <2>5. CASE q # p
    <3>1. RowsForAll(p)'
      BY <1>2, <2>1, <2>5, ReadersFollow
    <3>2. ASSUME ~crashed'
          PROVE  ~crashed /\ Intact(p)' /\ Begins(Log(p), Log(p)') /\ Follows(p, q)'
      <4>1. Intact(p)' /\ Log(p)' = Log(p) /\ Follows(p, q)'
        BY <1>2, <2>1, <2>5, <3>2, ReadersFollow
      <4>2. crashed' = crashed
        BY <1>2, <2>5, ReadersOnlyRead
      <4>3. QED
        BY <3>2, <4>1, <4>2 DEF Begins
    <3>3. QED
      BY <2>3, <3>1, <3>2
  <2>6. QED
    BY <2>4, <2>5
<1>3. QED
  BY <1>1, <1>2 DEF Next, ProcessStep

-----------------------------------------------------------------------------
(* The invariant holds, and what follows from it.                          *)

LEMMA StoreInvInit == Init => StoreInv
<1> SUFFICES ASSUME Init
             PROVE  StoreInv
  OBVIOUS
<1>1. <<>> \in Seq(Ids) /\ Absent # Torn
  BY StoreConstants
<1>2. TypeOK
  BY <1>1 DEF TypeOK, Init, Files, Points
<1>3. FilesAppear /\ WritersAreKnown
  BY DEF Init, FilesAppear, WritersAreKnown, Writing
<1>4. ManifestsAreInjective
  BY DEF Init, ManifestsAreInjective, IsInjective, Content
<1>5. SoleWriters
  BY <1>1 DEF Init, SoleWriters, RowsForAll, Intact, Follows, Log, Writing, Content, Begins, ToSet
<1>6. QED
  BY <1>2, <1>3, <1>4, <1>5 DEF StoreInv

LEMMA StoreInvariant == Spec => []StoreInv
<1>1. StoreInv /\ [Next]_vars => StoreInv'
  BY StoreTypes, FilesStay, ManifestsStayInjective, SoleWritersStay DEF StoreInv
<1>2. QED
  BY <1>1, StoreInvInit, PTL DEF Spec

(* The values of the variables are those TypeOK names, throughout.         *)
THEOREM VectorStoreTypes == Spec => []TypeOK
<1>1. StoreInv => TypeOK
  BY DEF StoreInv
<1>2. QED
  BY <1>1, StoreInvariant, PTL

(* No manifest names a clause twice (pinecone_writer.py, upsert), however  *)
(* many processes write and wherever they are killed.                      *)
THEOREM StoresHaveNoDuplicates == Spec => []NoDuplicates
<1>1. StoreInv => NoDuplicates
  BY DEF StoreInv, ManifestsAreInjective, NoDuplicates
<1>2. QED
  BY <1>1, StoreInvariant, PTL

(* The sole writer has vectors for all of its manifest, wherever it was    *)
(* killed before: vectors.npy is written first (pinecone_writer.py,        *)
(* _persist).                                                              *)
THEOREM SoleWriterIsInBounds == Spec => []NeverOutOfBounds
<1>1. StoreInv => NeverOutOfBounds
  BY DEF StoreInv, SoleWriters, RowsForAll, NeverOutOfBounds
<1>2. QED
  BY <1>1, StoreInvariant, PTL

(* A store that is opened has all that was stored by then, with its        *)
(* vectors, as long as one process writes and is not killed in a write.    *)
THEOREM OpenedStoresAreComplete == Spec => []OpenSeesStored
<1>1. StoreInv => OpenSeesStored
  BY DEF StoreInv, SoleWriters, Follows, OpenSeesStored
<1>2. QED
  BY <1>1, StoreInvariant, PTL

(* Under the same conditions nothing that was upserted is ever lost: when  *)
(* nobody is writing, both files have it.                                  *)
THEOREM NothingIsLost == Spec => []SoleWriterKeepsAll
<1>1. StoreInv => SoleWriterKeepsAll
  <2> SUFFICES ASSUME StoreInv, NEW p \in Processes, SoleWriter(p), ~crashed,
                      \A q \in Processes : at[q] \in {"closed", "opening", "open"},
                      NEW id \in stored
               PROVE  /\ mfile \notin {Absent, Torn} /\ id \in ToSet(mfile)
                      /\ vfile \notin {Absent, Torn} /\ id \in ToSet(vfile)
    BY DEF SoleWriterKeepsAll, StoredIsOnDisk
  <2>1. Intact(p) /\ ~Writing(p)
    BY DEF StoreInv, SoleWriters, Writing
  <2>2. QED
    BY <2>1 DEF Intact, Content
<1>2. QED
  BY <1>1, StoreInvariant, PTL

-----------------------------------------------------------------------------
(* query.                                                                  *)

Better(p, i, j) ==
  \/ Score[vec[p][j]] > Score[vec[p][i]]
  \/ Score[vec[p][j]] = Score[vec[p][i]] /\ j < i

(* Every row of the manifest has a rank of its own, and each rank from 1   *)
(* on belongs to one.                                                      *)
LEMMA RankProperties ==
  ASSUME TypeOK, NEW p \in Processes, Len(man[p]) =< Len(vec[p])
  PROVE  /\ \A i \in DOMAIN man[p] : Rank(p, i) \in 1 .. Len(man[p])
         /\ \A i, j \in DOMAIN man[p] : Rank(p, i) < Rank(p, j) =>
              Score[vec[p][i]] >= Score[vec[p][j]]
         /\ \A i, j \in DOMAIN man[p] : Rank(p, i) = Rank(p, j) => i = j
         /\ \A r \in 1 .. Len(man[p]) : \E i \in DOMAIN man[p] : Rank(p, i) = r
<1> DEFINE S == DOMAIN man[p]
           n == Len(man[p])
           below == [i \in S |-> {j \in S : Better(p, i, j)}]
<1>1. /\ S = 1 .. n /\ n \in Nat
      /\ DOMAIN vec[p] = 1 .. Len(vec[p]) /\ Len(vec[p]) \in Nat
      /\ vec[p] \in Seq(Ids)
  BY LenProperties DEF TypeOK
<1>2. S \subseteq DOMAIN vec[p]
  BY <1>1
<1>3. ASSUME NEW i \in S
      PROVE  Score[vec[p][i]] \in Nat /\ i \in Nat
  <2>1. vec[p][i] \in Ids
    BY <1>1, <1>2, ElementOfSeq
  <2>2. QED
    BY <1>1, <2>1, StoreConstants
<1>4. IsFiniteSet(S) /\ Cardinality(S) = n
  <2>1. 1 \in Int /\ n \in Int
    BY <1>1
  <2> HIDE DEF S, n
  <2>2. IsFiniteSet(1 .. n) /\ Cardinality(1 .. n) = n
    BY <1>1, <2>1, FS_Interval
  <2>3. QED
    BY <1>1, <2>2
<1>5. below \in [S -> SUBSET S]
  OBVIOUS
<1>6. \A i \in S : Rank(p, i) = 1 + Cardinality(below[i])
  BY DEF Rank, Better
<1>7. \A i, j \in S : j \in below[i] <=> Better(p, i, j)
  OBVIOUS
<1> HIDE DEF below, S, n
<1>8. ASSUME NEW i \in S
      PROVE  i \notin below[i]
  <2>1. ~Better(p, i, i)
    BY <1>3 DEF Better
  <2>2. QED
    BY <1>7, <2>1
<1>9. ASSUME NEW i \in S, NEW j \in S, i # j
      PROVE  i \in below[j] \/ j \in below[i]
  <2>1. Better(p, i, j) \/ Better(p, j, i)
    BY <1>3, <1>9 DEF Better
  <2>2. QED
    BY <1>7, <2>1
<1>10. ASSUME NEW i \in S, NEW j \in S, i \in below[j]
       PROVE  below[i] \subseteq below[j]
  <2> SUFFICES ASSUME NEW k \in S, k \in below[i]
               PROVE  k \in below[j]
    BY <1>5
  <2>1. Better(p, i, k) /\ Better(p, j, i)
    BY <1>7, <1>10
  <2>2. Better(p, j, k)
    BY <1>3, <2>1 DEF Better
  <2>3. QED
    BY <1>7, <2>2
<1>11. /\ \A i \in S : Cardinality(below[i]) \in 0 .. n - 1
       /\ \A i, j \in S : i \in below[j] => Cardinality(below[i]) < Cardinality(below[j])
       /\ \A r \in 0 .. n - 1 : \E i \in S : Cardinality(below[i]) = r
  <2>1. /\ \A i \in S : Cardinality(below[i]) \in 0 .. Cardinality(S) - 1
        /\ \A i, j \in S : i \in below[j] => Cardinality(below[i]) < Cardinality(below[j])
        /\ \A r \in 0 .. Cardinality(S) - 1 : \E i \in S : Cardinality(below[i]) = r
    BY <1>4, <1>5, <1>8, <1>9, <1>10, RanksInOrder
  <2>2. QED
    BY <1>4, <2>1
<1>12. \A i \in S : Rank(p, i) \in 1 .. n
  BY <1>1, <1>6, <1>11
<1>13. ASSUME NEW i \in S, NEW j \in S, i \in below[j]
       PROVE  Rank(p, i) < Rank(p, j)
  <2>1. Cardinality(below[i]) \in 0 .. n - 1 /\ Cardinality(below[j]) \in 0 .. n - 1
        /\ Cardinality(below[i]) < Cardinality(below[j])
    BY <1>11, <1>13
  <2>2. QED
    BY <1>1, <1>6, <2>1
<1>14. ASSUME NEW i \in S, NEW j \in S, Rank(p, i) = Rank(p, j)
       PROVE  i = j
  <2>1. Rank(p, i) \in Nat
    BY <1>1, <1>12
  <2>2. i \notin below[j] /\ j \notin below[i]
    BY <1>13, <1>14, <2>1
  <2>3. QED
    BY <1>9, <2>2
<1>15. ASSUME NEW i \in S, NEW j \in S, Rank(p, i) < Rank(p, j)
       PROVE  Score[vec[p][i]] >= Score[vec[p][j]]
  <2>1. Rank(p, i) \in Nat /\ Rank(p, j) \in Nat
    BY <1>1, <1>12
  <2>2. j \notin below[i] /\ i # j
    BY <1>13, <1>15, <2>1
  <2>3. Better(p, j, i)
    BY <1>7, <1>9, <2>2
  <2>4. QED
    BY <1>3, <2>3 DEF Better
<1>16. ASSUME NEW r \in 1 .. n
       PROVE  \E i \in S : Rank(p, i) = r
  <2>1. r - 1 \in 0 .. n - 1
    BY <1>1
  <2>2. PICK i \in S : Cardinality(below[i]) = r - 1
    BY <1>11, <2>1
  <2>3. QED
    BY <1>1, <1>6, <2>2
<1>17. QED
  BY <1>12, <1>14, <1>15, <1>16 DEF S, n

(* Of a store whose manifest and vectors agree, query returns top_k ids or *)
(* all, the closest ones, each once and with its own score.                *)
LEMMA QueryReturnsBest ==
  ASSUME TypeOK, NEW p \in Processes, NEW top_k \in Nat, IsInjective(man[p]),
         Len(man[p]) =< Len(vec[p]),
         \A i \in DOMAIN man[p] : vec[p][i] = man[p][i]
  PROVE  LET r == query(p, top_k)
             ids == {r[i].id : i \in DOMAIN r}
         IN  /\ \A i \in DOMAIN r : r[i].score = Score[r[i].id]
             /\ \A i, j \in DOMAIN r : i < j => r[i].id # r[j].id /\ r[i].score >= r[j].score
             /\ \A id \in ToSet(man[p]) \ ids :
                  Len(r) = top_k /\ \A i \in DOMAIN r : r[i].score >= Score[id]
<1> DEFINE n == Len(man[p])
           k == IF top_k < n THEN top_k ELSE n
           ranked(i) == CHOOSE j \in DOMAIN man[p] : Rank(p, j) = i
           r == query(p, top_k)
           ids == {r[i].id : i \in DOMAIN r}
<1>1. DOMAIN man[p] = 1 .. n /\ n \in Nat
  BY LenProperties DEF TypeOK
<1>2. k \in Nat /\ k =< n
  BY <1>1
<1>3. r = [i \in 1 .. k |-> [id |-> man[p][ranked(i)], score |-> Score[vec[p][ranked(i)]]]]
  BY DEF query
<1>4. ASSUME NEW i \in 1 .. n
      PROVE  ranked(i) \in DOMAIN man[p] /\ Rank(p, ranked(i)) = i
  <2>1. \E j \in DOMAIN man[p] : Rank(p, j) = i
    BY RankProperties
  <2>2. QED
    BY <2>1
<1> HIDE DEF k, ranked, r
<1>5. DOMAIN r = 1 .. k
  BY <1>3
<1>6. ASSUME NEW i \in 1 .. k
      PROVE  /\ i \in 1 .. n
             /\ r[i].id = man[p][ranked(i)]
             /\ r[i].score = Score[man[p][ranked(i)]]
             /\ r[i].score = Score[vec[p][ranked(i)]]
  <2>1. i \in 1 .. n
    BY <1>1, <1>2
  <2>2. vec[p][ranked(i)] = man[p][ranked(i)]
    BY <1>4, <2>1
  <2>3. QED
    BY <1>3, <2>1, <2>2
<1>7. ASSUME NEW i \in 1 .. k, NEW j \in 1 .. k, i < j
      PROVE  r[i].id # r[j].id /\ r[i].score >= r[j].score
  <2>1. i \in 1 .. n /\ j \in 1 .. n /\ i # j
    BY <1>2, <1>6, <1>7
  <2>2. ranked(i) # ranked(j)
    BY <1>4, <2>1
  <2>3. man[p][ranked(i)] # man[p][ranked(j)]
    BY <1>4, <2>1, <2>2 DEF IsInjective
  <2>4. Score[vec[p][ranked(i)]] >= Score[vec[p][ranked(j)]]
    BY <1>4, <1>7, <2>1, RankProperties
  <2>5. QED
    BY <1>6, <2>3, <2>4
<1>8. ASSUME NEW id \in ToSet(man[p]), id \notin ids
      PROVE  Len(r) = top_k /\ \A i \in 1 .. k : r[i].score >= Score[id]
  <2>1. PICK m \in DOMAIN man[p] : man[p][m] = id
    BY DEF ToSet
  <2> DEFINE place == Rank(p, m)
  <2>2. place \in 1 .. n
    BY RankProperties
  <2>3. ranked(place) = m
    BY <1>4, <2>2, RankProperties
  <2>4. ~(place =< k)
    <3> SUFFICES ASSUME place =< k PROVE FALSE
      OBVIOUS
    <3>1. place \in 1 .. k
      <4> HIDE DEF place
      <4>1. QED
        BY <1>1, <1>2, <2>2
    <3>2. r[place].id = id
      BY <1>6, <2>1, <2>3, <3>1
    <3>3. QED
      BY <1>5, <1>8, <3>1, <3>2
  <2>5. k = top_k
    <3> HIDE DEF place
    <3>1. QED
      BY <1>1, <1>2, <2>2, <2>4 DEF k
  <2>6. Len(r) = k
    BY <1>2, <1>3
  <2>7. ASSUME NEW i \in 1 .. k
        PROVE  r[i].score >= Score[id]
    <3>1. i < place
      <4> HIDE DEF place
      <4>1. QED
        BY <1>1, <1>2, <2>2, <2>4
    <3>2. Score[vec[p][ranked(i)]] >= Score[vec[p][m]]
      BY <1>4, <1>6, <3>1, RankProperties
    <3>3. QED
      BY <1>6, <2>1, <3>2
  <2>8. QED
    BY <2>5, <2>6, <2>7
<1>9. QED
  BY <1>5, <1>6, <1>7, <1>8 DEF r

(* "Returns [{'id', 'score', 'metadata'}], highest score first"            *)
(* (pinecone_writer.py:41), of every store that can answer, as long as one *)
(* process writes and is not killed in a write.                            *)
THEOREM StoresAnswerRightly == Spec => []QueriesAreRight
<1>1. StoreInv => QueriesAreRight
  <2> SUFFICES ASSUME StoreInv, NEW p \in Processes, NEW q \in Processes,
                      SoleWriter(p), ~crashed, at[q] = "open", ~QueryRaises(q),
                      NEW top_k \in 1 .. MaxRows
               PROVE  LET r == query(q, top_k)
                          ids == {r[i].id : i \in DOMAIN r}
                      IN  /\ \A i \in DOMAIN r : r[i].score = Score[r[i].id]
                          /\ \A i, j \in DOMAIN r :
                               i < j => r[i].id # r[j].id /\ r[i].score >= r[j].score
                          /\ \A id \in ToSet(man[q]) \ ids :
                               Len(r) = top_k /\ \A i \in DOMAIN r : r[i].score >= Score[id]
    BY DEF QueriesAreRight
  <2>1. TypeOK /\ IsInjective(man[q])
    BY DEF StoreInv, ManifestsAreInjective
  <2>2. /\ DOMAIN man[q] = 1 .. Len(man[q]) /\ Len(man[q]) \in Nat
        /\ DOMAIN vec[q] = 1 .. Len(vec[q]) /\ Len(vec[q]) \in Nat
    BY <2>1, LenProperties DEF TypeOK
  <2>3. Len(man[q]) =< Len(vec[q])
    BY <2>2 DEF QueryRaises
  <2>4. Begins(vec[q], Log(p)) /\ Begins(man[q], Log(p))
    BY DEF StoreInv, SoleWriters, Follows
  <2>5. \A i \in DOMAIN man[q] : i \in DOMAIN vec[q]
    BY <2>2, <2>3
  <2>6. \A i \in DOMAIN man[q] : vec[q][i] = man[q][i]
    BY <2>4, <2>5 DEF Begins
  <2>7. top_k \in Nat
    BY StoreConstants
  <2>8. QED
    BY <2>1, <2>3, <2>6, <2>7, QueryReturnsBest
<1>2. QED
  BY <1>1, StoreInvariant, PTL

=============================================================================

-------------------------- MODULE Retrieval_proofs --------------------------
(***************************************************************************)
(* Ingestion and the agent's tools beside it, for every set of workers and *)
(* reviews, all files, limits, numbers of runs and calls, with a failure   *)
(* possible at every await: what is stored of a contract, what a search    *)
(* returns and whose score a clause has.                                   *)
(***************************************************************************)
EXTENDS Retrieval, Sorting_proofs, SequenceTheorems

-----------------------------------------------------------------------------
(* What parsing and embedding return, for every file, every input and      *)
(* every chunk size.                                                       *)

(* Chunk n ends at the n-th multiple of size, or with the texts. *)
LEMMA ChunkBounds ==
  ASSUME NEW L \in Nat, NEW size \in Nat \ {0}
  PROVE  LET k == (L + size - 1) \div size
         IN  /\ k \in Nat
             /\ k * size >= L
             /\ \A n \in 1 .. k : (n - 1) * size < L
<1> DEFINE k == (L + size - 1) \div size
<1>1. k \in Nat /\ k * size =< L + size - 1 /\ L + size - 1 < (k + 1) * size
  OBVIOUS
<1>2. k * size >= L
  <2>1. (k + 1) * size = k * size + size
    BY <1>1
  <2>2. QED
    BY <1>1, <2>1
<1>3. ASSUME NEW n \in 1 .. k
      PROVE  (n - 1) * size < L
  <2>1. (n - 1) * size =< (k - 1) * size
    BY <1>1
  <2>2. (k - 1) * size = k * size - size
    BY <1>1
  <2>3. QED
    BY <1>1, <2>1, <2>2
<1>4. QED
  BY <1>1, <1>2, <1>3

(* A function that a recursion over 0 .. k determines is any function that *)
(* satisfies it: here the responses of embed's calls, one after the other. *)
LEMMA ConcatIsDetermined ==
  ASSUME NEW k \in Nat, NEW parts, NEW g,
         g = [n \in 0 .. k |-> IF n = 0 THEN <<>> ELSE g[n - 1] \o parts[n]],
         NEW out,
         out = [n \in 0 .. k |-> IF n = 0 THEN <<>> ELSE out[n - 1] \o parts[n]]
  PROVE  out = g
<1> DEFINE D == {n \in 0 .. k : out[n] # g[n]}
<1>1. CASE D = {}
  <2>1. \A n \in 0 .. k : out[n] = g[n]
    BY <1>1
  <2>2. QED
    BY <2>1
<1>2. CASE D # {}
  <2>1. D \in SUBSET Nat
    OBVIOUS
  <2>2. PICK m \in D : \A q \in D : m =< q
    BY <1>2, <2>1, LeastNumber
  <2>3. m \in 0 .. k /\ out[m] # g[m]
    OBVIOUS
  <2>4. CASE m = 0
    BY <2>3, <2>4
  <2>5. CASE m # 0
    <3>1. m - 1 \in 0 .. k /\ ~(m =< m - 1)
      BY <2>3, <2>5
    <3>2. out[m - 1] = g[m - 1]
      BY <2>2, <3>1
    <3>3. out[m] = out[m - 1] \o parts[m] /\ g[m] = g[m - 1] \o parts[m]
      BY <2>3, <2>5
    <3>4. QED
      BY <2>3, <3>2, <3>3
  <2>6. QED
    BY <2>4, <2>5
<1>3. QED
  BY <1>1, <1>2

(* The first n responses are the vectors of the first n * size texts, so   *)
(* what embed returns is one vector per text, in the texts' order          *)
(* (embedder.py:45-56), wherever the chunks end.                           *)
THEOREM EmbedReturnsEachVector ==
  ASSUME NEW T, NEW texts \in Seq(T), NEW size \in Nat \ {0}
  PROVE  embed(texts, size) = [i \in DOMAIN texts |-> Embedding(texts[i])]
<1> DEFINE L == Len(texts)
           k == (L + size - 1) \div size
           last(n) == IF n * size < L THEN n * size ELSE L
           chunks == Chunks(texts, size)
           parts == [n \in 1 .. k |-> [i \in DOMAIN chunks[n] |-> Embedding(chunks[n][i])]]
           g == [n \in 0 .. k |-> [i \in 1 .. last(n) |-> Embedding(texts[i])]]
<1>1. L \in Nat /\ DOMAIN texts = 1 .. L
  OBVIOUS
<1>2. k \in Nat /\ k * size >= L /\ \A n \in 1 .. k : (n - 1) * size < L
  BY <1>1, ChunkBounds
<1> HIDE DEF k
<1>3. last(0) = 0 /\ last(k) = L
  <2>1. 0 * size = 0
    OBVIOUS
  <2>2. ~(k * size < L)
    BY <1>1, <1>2
  <2>3. last(0) = IF 0 < L THEN 0 ELSE L
    BY <2>1
  <2>4. QED
    BY <1>1, <2>2, <2>3
<1>4. ASSUME NEW n \in 1 .. k
      PROVE  /\ last(n - 1) = (n - 1) * size
             /\ last(n - 1) \in Nat /\ last(n) \in Nat
             /\ last(n - 1) =< last(n) /\ last(n) =< L
  <2>1. (n - 1) * size < L /\ (n - 1) * size \in Nat /\ n * size \in Nat
    BY <1>2
  <2>2. n * size = (n - 1) * size + size
    BY <1>2
  <2>3. QED
    BY <1>1, <2>1, <2>2
<1>5. chunks = [n \in 1 .. k |-> SubSeq(texts, (n - 1) * size + 1, last(n))]
  BY DEF Chunks, k
<1>6. Len(chunks) = k
  BY <1>2, <1>5
<1>7. ASSUME NEW n \in 1 .. k
      PROVE  parts[n] = [i \in 1 .. last(n) - last(n - 1) |-> Embedding(texts[last(n - 1) + i])]
  <2>1. chunks[n] = SubSeq(texts, last(n - 1) + 1, last(n))
    BY <1>4, <1>5
  <2> DEFINE a == last(n - 1)
             b == last(n)
  <2>2. a \in Nat /\ b \in Nat /\ a =< b /\ b =< L
    BY <1>4
  <2>3. parts[n] = [i \in DOMAIN chunks[n] |-> Embedding(chunks[n][i])]
    OBVIOUS
  <2> HIDE DEF a, b, chunks, parts, last
  <2>4. chunks[n] = SubSeq(texts, a + 1, b)
    BY <2>1 DEF a, b
  <2>5. DOMAIN chunks[n] = 1 .. b - a /\ \A i \in 1 .. b - a : chunks[n][i] = texts[a + i]
    BY <1>1, <2>2, <2>4
  <2>6. parts[n] = [i \in 1 .. b - a |-> Embedding(texts[a + i])]
    BY <2>3, <2>5
  <2>7. QED
    BY <2>6 DEF a, b
<1> HIDE DEF last, chunks, parts
<1>8. ASSUME NEW n \in 0 .. k
      PROVE  g[n] = IF n = 0 THEN <<>> ELSE g[n - 1] \o parts[n]
  <2>1. CASE n = 0
    BY <1>2, <1>3, <2>1
  <2>2. CASE n # 0
    <3>1. n \in 1 .. k /\ n - 1 \in 0 .. k
      BY <1>2, <2>2
    <3> DEFINE a == last(n - 1)
               b == last(n)
               front == [i \in 1 .. a |-> Embedding(texts[i])]
               back == [i \in 1 .. b - a |-> Embedding(texts[a + i])]
    <3>2. g[n - 1] = front /\ g[n] = [i \in 1 .. b |-> Embedding(texts[i])]
      BY <3>1
    <3>3. parts[n] = back
      BY <1>7, <3>1
    <3>4. a \in Nat /\ b \in Nat /\ a =< b
      BY <1>4, <3>1
    <3> HIDE DEF a, b, g
    <3>5. front \o back = [i \in 1 .. b |-> Embedding(texts[i])]
      <4> DEFINE E == {Embedding(texts[i]) : i \in Nat}
      <4>1. front \in Seq(E) /\ Len(front) = a
        BY SMTT(30), <3>4
      <4>2. back \in Seq(E) /\ Len(back) = b - a
        BY <3>4
      <4>3. \A i \in 1 .. a : front[i] = Embedding(texts[i])
        OBVIOUS
      <4>4. \A i \in 1 .. b - a : back[i] = Embedding(texts[a + i])
        OBVIOUS
      <4> HIDE DEF front, back, E
      <4>5. front \o back \in Seq(E) /\ Len(front \o back) = b
        BY <3>4, <4>1, <4>2
      <4>6. DOMAIN (front \o back) = 1 .. b
        BY <4>5
      <4>7. ASSUME NEW i \in 1 .. b
            PROVE  (front \o back)[i] = Embedding(texts[i])
        <5>1. CASE i =< a
          BY <3>4, <4>1, <4>2, <4>3, <5>1
        <5>2. CASE ~(i =< a)
          <6>1. i - a \in 1 .. b - a /\ a + (i - a) = i
            BY <3>4, <5>2
          <6>2. (front \o back)[i] = back[i - a]
            BY <3>4, <4>1, <4>2, <5>2, <6>1
          <6>3. QED
            BY <4>4, <6>1, <6>2
        <5>3. QED
          BY <5>1, <5>2
      <4>8. front \o back \in [1 .. b -> E]
        BY <4>5, LenProperties
      <4>9. QED
        BY <4>6, <4>7, <4>8
    <3>6. QED
      BY <2>2, <3>2, <3>3, <3>5
  <2>3. QED
    BY <2>1, <2>2
<1>9. g = [n \in 0 .. k |-> IF n = 0 THEN <<>> ELSE g[n - 1] \o parts[n]]
  <2> DEFINE h == [n \in 0 .. k |-> IF n = 0 THEN <<>> ELSE g[n - 1] \o parts[n]]
  <2>1. DOMAIN g = 0 .. k /\ DOMAIN h = 0 .. k
    OBVIOUS
  <2>2. \A n \in 0 .. k : g[n] = h[n]
    BY <1>8
  <2>3. g = [n \in 0 .. k |-> g[n]] /\ h = [n \in 0 .. k |-> h[n]]
    OBVIOUS
  <2> HIDE DEF g, h
  <2>4. g = h
    BY <2>2, <2>3
  <2>5. QED
    BY <2>4 DEF h
<1> DEFINE resp(n) == [i \in DOMAIN chunks[n] |-> Embedding(chunks[n][i])]
           out == CHOOSE out :
             out = [n \in 0 .. Len(chunks) |->
                      IF n = 0 THEN <<>> ELSE out[n - 1] \o resp(n)]
<1>10. ASSUME NEW f
       PROVE  [n \in 0 .. Len(chunks) |-> IF n = 0 THEN <<>> ELSE f[n - 1] \o resp(n)]
            = [n \in 0 .. k |-> IF n = 0 THEN <<>> ELSE f[n - 1] \o parts[n]]
  <2>1. \A n \in 1 .. k : parts[n] = resp(n)
    BY DEF parts
  <2> HIDE DEF resp
  <2>2. \A n \in 0 .. k : n # 0 => n \in 1 .. k
    BY <1>2
  <2>3. QED
    BY <1>6, <2>1, <2>2
<1> HIDE DEF g, resp
<1>11. out = [n \in 0 .. Len(chunks) |-> IF n = 0 THEN <<>> ELSE out[n - 1] \o resp(n)]
  <2>1. g = [n \in 0 .. Len(chunks) |-> IF n = 0 THEN <<>> ELSE g[n - 1] \o resp(n)]
    BY <1>9, <1>10
  <2>2. QED
    BY <2>1
<1>12. embed(texts, size) = out[Len(chunks)]
  BY DEF embed, resp, chunks
<1> HIDE DEF out
<1>13. out = [n \in 0 .. k |-> IF n = 0 THEN <<>> ELSE out[n - 1] \o parts[n]]
  BY <1>10, <1>11
<1>14. out = g
  BY <1>2, <1>9, <1>13, ConcatIsDetermined
<1>15. QED
  BY <1>1, <1>2, <1>3, <1>6, <1>12, <1>14 DEF g

-----------------------------------------------------------------------------

(* Every clause that a contract can have: its id is the hash of what it is. *)
ClausesOf(cid) ==
  {[clause_id |-> ClauseId(cid, c, t), contract_id |-> cid, category |-> c, text |-> t] :
     c \in Range(Category), t \in Range(Strip)}

(* An id stands for one contract, category and text. *)
LEMMA ClauseIdInjective ==
  ASSUME NEW c1, NEW k1, NEW t1, NEW c2, NEW k2, NEW t2,
         ClauseId(c1, k1, t1) = ClauseId(c2, k2, t2)
  PROVE  c1 = c2 /\ k1 = k2 /\ t1 = t2
BY DEF ClauseId, Digest

LEMMA ClauseFields ==
  ASSUME NEW cid, NEW c \in ClausesOf(cid)
  PROVE  /\ c.clause_id = ClauseId(cid, c.category, c.text)
         /\ c.contract_id = cid
         /\ c.category \in Range(Category) /\ c.text \in Range(Strip)
BY DEF ClausesOf

(* A span for each answer, in the order of the answers. *)
LEMMA SpansProperties ==
  ASSUME NEW entry, entry.answers \in Seq(Answers)
  PROVE  /\ Spans(entry) \in Seq(ClausesOf(ContractId(entry.title)))
         /\ DOMAIN Spans(entry) = DOMAIN entry.answers
         /\ \A i \in DOMAIN entry.answers :
              /\ Spans(entry)[i].category = Category[entry.answers[i].question]
              /\ Spans(entry)[i].text = Strip[entry.answers[i].text]
<1> DEFINE cid == ContractId(entry.title)
           as == entry.answers
           C == ClausesOf(cid)
           clause(a) == [clause_id |-> ClauseId(cid, Category[a.question], Strip[a.text]),
                         contract_id |-> cid,
                         category |-> Category[a.question],
                         text |-> Strip[a.text]]
<1>1. DOMAIN as = 1 .. Len(as) /\ Len(as) \in Nat /\ \A i \in DOMAIN as : as[i] \in Answers
  BY LenProperties, ElementOfSeq
<1>2. Spans(entry) = [i \in DOMAIN as |-> clause(as[i])]
  BY DEF Spans
<1>3. ASSUME NEW i \in DOMAIN as
      PROVE  clause(as[i]) \in C
  <2>1. as[i].question \in DOMAIN Category /\ as[i].text \in DOMAIN Strip
    BY <1>1 DEF Answers
  <2>2. Category[as[i].question] \in Range(Category) /\ Strip[as[i].text] \in Range(Strip)
    BY <2>1 DEF Range
  <2>3. QED
    BY <2>2 DEF ClausesOf
<1>4. ASSUME NEW i \in DOMAIN as
      PROVE  /\ Spans(entry)[i].category = Category[as[i].question]
             /\ Spans(entry)[i].text = Strip[as[i].text]
  BY <1>2
<1> HIDE DEF as, C, clause
<1>5. Spans(entry) \in Seq(C) /\ DOMAIN Spans(entry) = DOMAIN as
  <2>1. Spans(entry) \in [1 .. Len(as) -> C]
    BY <1>1, <1>2, <1>3
  <2>2. QED
    BY <1>1, <2>1, SeqDef
<1>6. QED
  BY <1>4, <1>5 DEF as, C

(* The clauses of a parsed contract are its spans without the blank ones   *)
(* and the repetitions: each is the first span with its id.                *)
LEMMA UniqueProperties ==
  ASSUME NEW cid, NEW spans \in Seq(ClausesOf(cid))
  PROVE  /\ Unique(spans) \in Seq(ClausesOf(cid))
         /\ \E place \in [DOMAIN Unique(spans) -> DOMAIN spans] :
              /\ \A i \in DOMAIN Unique(spans) :
                   Unique(spans)[i] = spans[place[i]] /\ Unique(spans)[i].text # ""
              /\ \A i, j \in DOMAIN Unique(spans) : i < j =>
                   /\ place[i] < place[j]
                   /\ Unique(spans)[i].clause_id # Unique(spans)[j].clause_id
              /\ \A m \in DOMAIN spans : spans[m].text # "" =>
                   \E i \in DOMAIN Unique(spans) :
                     place[i] =< m /\ Unique(spans)[i].clause_id = spans[m].clause_id
<1> DEFINE C == ClausesOf(cid)
           cs == Unique(spans)
           seen(i) == {spans[j].clause_id : j \in 1 .. i - 1}
           places == {i \in DOMAIN spans :
                        spans[i].text # "" /\ spans[i].clause_id \notin seen(i)}
<1>1. DOMAIN spans = 1 .. Len(spans) /\ Len(spans) \in Nat
  BY LenProperties
<1>2. cs = Kept(spans, places)
  BY DEF Unique
<1>3. places \in SUBSET DOMAIN spans
  OBVIOUS
<1>4. PICK place \in [DOMAIN cs -> places] :
        /\ \A i \in DOMAIN cs : cs[i] = spans[place[i]]
        /\ \A i, j \in DOMAIN cs : i < j => place[i] < place[j]
        /\ \A m \in places : \E i \in DOMAIN cs : place[i] = m
  <2> HIDE DEF places, cs
  <2>1. QED
    BY <1>2, <1>3, KeptProperties
<1>5. cs \in Seq(C)
  <2> HIDE DEF places, cs, C
  <2>1. spans \in Seq(C)
    BY DEF C
  <2>2. QED
    BY <1>2, <1>3, <2>1, KeptProperties
<1> HIDE DEF cs
<1>6. ASSUME NEW i \in DOMAIN cs
      PROVE  /\ place[i] \in 1 .. Len(spans)
             /\ spans[place[i]].text # ""
             /\ \A j \in 1 .. place[i] - 1 : spans[j].clause_id # spans[place[i]].clause_id
  <2>1. place[i] \in places
    BY <1>4
  <2>2. /\ place[i] \in DOMAIN spans
        /\ spans[place[i]].text # ""
        /\ spans[place[i]].clause_id \notin seen(place[i])
    BY <2>1
  <2>3. QED
    BY <1>1, <2>2
<1> HIDE DEF places
<1>7. ASSUME NEW i \in DOMAIN cs, NEW j \in DOMAIN cs, i < j
      PROVE  cs[i].clause_id # cs[j].clause_id
  <2> DEFINE x == place[i]
             y == place[j]
  <2>1. x \in 1 .. Len(spans) /\ y \in 1 .. Len(spans) /\ x < y
    BY <1>4, <1>6, <1>7
  <2>2. \A m \in 1 .. y - 1 : spans[m].clause_id # spans[y].clause_id
    BY <1>6
  <2>3. cs[i] = spans[x] /\ cs[j] = spans[y]
    BY <1>4
  <2> HIDE DEF x, y
  <2>4. x \in 1 .. y - 1
    BY <1>1, <2>1
  <2>5. QED
    BY <2>2, <2>3, <2>4
<1>8. ASSUME NEW m \in DOMAIN spans, spans[m].text # ""
      PROVE  \E i \in DOMAIN cs : place[i] =< m /\ cs[i].clause_id = spans[m].clause_id
  <2> DEFINE same == {j \in 1 .. m : spans[j].clause_id = spans[m].clause_id}
  <2>1. m \in 1 .. Len(spans) /\ m \in same /\ same \in SUBSET Nat
    BY <1>1
  <2>2. PICK first \in same : \A j \in same : first =< j
    BY <2>1, LeastNumber
  <2>3. /\ first \in 1 .. m /\ first \in DOMAIN spans
        /\ spans[first].clause_id = spans[m].clause_id
    BY <1>1, <2>1, <2>2
  <2>4. ASSUME NEW j \in 1 .. first - 1
        PROVE  spans[j].clause_id # spans[first].clause_id
    <3>1. j \in 1 .. m /\ ~(first =< j)
      BY <1>1, <2>3
    <3>2. QED
      BY <2>2, <2>3, <3>1
  <2>5. spans[first].text = spans[m].text
    <3>1. spans[first] \in ClausesOf(cid) /\ spans[m] \in ClausesOf(cid)
      BY <2>3, ElementOfSeq
    <3>2. QED
      BY <2>3, <3>1, ClauseFields, ClauseIdInjective
  <2>6. first \in places
    BY <1>8, <2>3, <2>4, <2>5 DEF places
  <2>7. QED
    BY <1>4, <2>3, <2>6
<1>9. place \in [DOMAIN cs -> DOMAIN spans]
  BY <1>3, <1>4
<1>10. \A i \in DOMAIN cs : cs[i] = spans[place[i]] /\ cs[i].text # ""
  BY <1>4, <1>6
<1>11. \A i, j \in DOMAIN cs : i < j =>
         place[i] < place[j] /\ cs[i].clause_id # cs[j].clause_id
  BY <1>4, <1>7
<1>12. QED
  BY <1>5, <1>8, <1>9, <1>10, <1>11 DEF cs

(* Clauses are the first occurrences of the answers that are not blank, in *)
(* their order and none twice.                                             *)
FirstOccurrences(cs, as) ==
  \E place \in [DOMAIN cs -> DOMAIN as] :
    /\ \A i \in DOMAIN cs : /\ cs[i].category = Category[as[place[i]].question]
                            /\ cs[i].text = Strip[as[place[i]].text]
                            /\ cs[i].text # ""
    /\ \A i, j \in DOMAIN cs : i < j =>
         place[i] < place[j] /\ cs[i].clause_id # cs[j].clause_id
    /\ \A n \in DOMAIN as : Strip[as[n].text] # "" =>
         \E i \in DOMAIN cs : /\ place[i] =< n
                             /\ cs[i].category = Category[as[n].question]
                             /\ cs[i].text = Strip[as[n].text]

LEMMA ClausesProperties ==
  ASSUME NEW entry, NEW as \in Seq(Answers), entry.answers = as
  PROVE  /\ Unique(Spans(entry)) \in Seq(ClausesOf(ContractId(entry.title)))
         /\ FirstOccurrences(Unique(Spans(entry)), as)
<1> DEFINE cid == ContractId(entry.title)
           spans == Spans(entry)
           cs == Unique(spans)
           C == ClausesOf(cid)
<1>1. /\ spans \in Seq(C)
      /\ DOMAIN spans = DOMAIN as
      /\ \A i \in DOMAIN as : /\ spans[i].category = Category[as[i].question]
                              /\ spans[i].text = Strip[as[i].text]
  BY SpansProperties
<1> HIDE DEF spans
<1>2. cs \in Seq(C)
  BY <1>1, UniqueProperties
<1>3. PICK place \in [DOMAIN cs -> DOMAIN spans] :
        /\ \A i \in DOMAIN cs : cs[i] = spans[place[i]] /\ cs[i].text # ""
        /\ \A i, j \in DOMAIN cs : i < j =>
             place[i] < place[j] /\ cs[i].clause_id # cs[j].clause_id
        /\ \A m \in DOMAIN spans : spans[m].text # "" =>
             \E i \in DOMAIN cs : place[i] =< m /\ cs[i].clause_id = spans[m].clause_id
  BY <1>1, UniqueProperties
<1> HIDE DEF cs, C
<1>4. ASSUME NEW i \in DOMAIN cs
      PROVE  /\ cs[i].category = Category[as[place[i]].question]
             /\ cs[i].text = Strip[as[place[i]].text]
  BY ZenonT(30), <1>1, <1>3
<1>5. ASSUME NEW n \in DOMAIN as, Strip[as[n].text] # ""
      PROVE  \E i \in DOMAIN cs : /\ place[i] =< n
                                 /\ cs[i].category = Category[as[n].question]
                                 /\ cs[i].text = Strip[as[n].text]
  <2>1. n \in DOMAIN spans /\ spans[n].text # ""
    BY <1>1, <1>5
  <2>2. PICK i \in DOMAIN cs : place[i] =< n /\ cs[i].clause_id = spans[n].clause_id
    BY <1>3, <2>1
  <2>3. cs[i] \in C /\ spans[n] \in C
    BY <1>1, <1>2, <2>1, ElementOfSeq, LenProperties
  <2>4. cs[i].category = spans[n].category /\ cs[i].text = spans[n].text
    BY <2>2, <2>3, ClauseFields, ClauseIdInjective DEF C
  <2>5. QED
    BY <1>1, <2>2, <2>4
<1>6. place \in [DOMAIN cs -> DOMAIN as]
  BY <1>1, <1>3
<1>7. \A i \in DOMAIN cs : /\ cs[i].category = Category[as[place[i]].question]
                         /\ cs[i].text = Strip[as[place[i]].text]
                         /\ cs[i].text # ""
  BY <1>3, <1>4
<1>8. \A i, j \in DOMAIN cs : i < j =>
        place[i] < place[j] /\ cs[i].clause_id # cs[j].clause_id
  BY <1>3
<1> HIDE DEF cid
<1>9. FirstOccurrences(cs, as)
  BY <1>5, <1>6, <1>7, <1>8 DEF FirstOccurrences
<1>10. QED
  BY <1>2, <1>9 DEF cs, C, spans, cid

(* parse_cuad makes one clause of each category and text that an entry has *)
(* and that is not blank, in the order in which the entry first has them   *)
(* (parser.py:65-103), for answers of any number and content.              *)
THEOREM ParsingIsFaithful ==
  \A answers \in Seq(Answers) : Faithful(answers)
<1> SUFFICES ASSUME NEW answers \in Seq(Answers)
             PROVE  Faithful(answers)
  OBVIOUS
<1> DEFINE entry == [title |-> "A", answers |-> answers]
           cs == Unique(Spans(entry))
<1>1. entry.answers = answers
  OBVIOUS
<1>2. parse_cuad(<<entry>>)[1].clauses = cs
  BY DEF parse_cuad
<1> HIDE DEF entry
<1>3. FirstOccurrences(cs, answers)
  BY <1>1, ClausesProperties
<1>4. cs \in Seq(ClausesOf(ContractId(entry.title)))
  BY <1>1, ClausesProperties
<1> HIDE DEF cs
<1>5. PICK place \in [DOMAIN cs -> DOMAIN answers] :
        /\ \A i \in DOMAIN cs : /\ cs[i].category = Category[answers[place[i]].question]
                                /\ cs[i].text = Strip[answers[place[i]].text]
                                /\ cs[i].text # ""
        /\ \A i, j \in DOMAIN cs : i < j =>
             place[i] < place[j] /\ cs[i].clause_id # cs[j].clause_id
        /\ \A n \in DOMAIN answers : Strip[answers[n].text] # "" =>
             \E i \in DOMAIN cs : /\ place[i] =< n
                                 /\ cs[i].category = Category[answers[n].question]
                                 /\ cs[i].text = Strip[answers[n].text]
  BY <1>3 DEF FirstOccurrences
<1>6. DOMAIN answers = 1 .. Len(answers) /\ Len(answers) \in Nat
  BY LenProperties
<1>7. ASSUME NEW i \in DOMAIN cs, NEW j \in DOMAIN cs, i < j,
             NEW m \in DOMAIN answers,
             cs[j].category = Category[answers[m].question],
             cs[j].text = Strip[answers[m].text]
      PROVE  \E n \in 1 .. m : /\ Category[answers[n].question] = cs[i].category
                               /\ Strip[answers[n].text] = cs[i].text
  <2>1. PICK l \in DOMAIN cs : /\ place[l] =< m
                              /\ cs[l].category = cs[j].category
                              /\ cs[l].text = cs[j].text
    BY ZenonT(30), <1>5, <1>7
  <2>2. cs[l].clause_id = cs[j].clause_id
    <3>1. cs[l] \in ClausesOf(ContractId(entry.title))
          /\ cs[j] \in ClausesOf(ContractId(entry.title))
      BY <1>4, ElementOfSeq, LenProperties
    <3>2. QED
      BY <2>1, <3>1, ClauseFields
  <2>3. DOMAIN cs = 1 .. Len(cs) /\ Len(cs) \in Nat
    BY <1>4, LenProperties
  <2>4. l = j
    <3>1. ~(l < j) /\ ~(j < l)
      BY <1>5, <2>2
    <3>2. l \in Int /\ j \in Int
      BY <2>3
    <3>3. QED
      BY <3>1, <3>2
  <2> DEFINE x == place[i]
             y == place[j]
  <2>5. x < y /\ y =< m /\ x \in DOMAIN answers /\ y \in DOMAIN answers
    BY <1>5, <1>7, <2>1, <2>4
  <2>6. cs[i].category = Category[answers[x].question] /\ cs[i].text = Strip[answers[x].text]
    BY <1>5
  <2> HIDE DEF x, y
  <2>7. x \in 1 .. m
    BY <1>6, <2>5
  <2>8. QED
    BY <2>6, <2>7
<1> DEFINE Result == parse_cuad(<<[title |-> "A", answers |-> answers]>>)[1].clauses
<1>8. Result = cs
  BY <1>2 DEF entry
<1> DEFINE span(a) == <<Category[a.question], Strip[a.text]>>
           is(i, n) == span(answers[n]) = <<Result[i].category, Result[i].text>>
<1> HIDE DEF Result
<1>9. \A n \in DOMAIN answers : Strip[answers[n].text] # "" => \E i \in DOMAIN Result : is(i, n)
  BY <1>5, <1>8
<1>10. \A i \in DOMAIN Result : Result[i].text # "" /\ \E n \in DOMAIN answers : is(i, n)
  BY <1>5, <1>8
<1>11. ASSUME NEW i \in DOMAIN Result, NEW j \in DOMAIN Result, i < j
       PROVE  /\ Result[i].clause_id # Result[j].clause_id
              /\ \A m \in DOMAIN answers : is(j, m) => \E n \in 1 .. m : is(i, n)
  <2>1. Result[i].clause_id # Result[j].clause_id
    BY <1>5, <1>8, <1>11
  <2>2. ASSUME NEW m \in DOMAIN answers, is(j, m)
        PROVE  \E n \in 1 .. m : is(i, n)
    <3>1. cs[j].category = Category[answers[m].question] /\ cs[j].text = Strip[answers[m].text]
      BY <1>8, <2>2
    <3>2. PICK n \in 1 .. m : /\ Category[answers[n].question] = cs[i].category
                             /\ Strip[answers[n].text] = cs[i].text
      BY <1>7, <1>8, <1>11, <3>1
    <3>3. is(i, n)
      BY <1>8, <3>2
    <3>4. QED
      BY <3>3
  <2>3. QED
    BY <2>1, <2>2
<1> HIDE DEF is
<1>12. QED
  BY <1>9, <1>10, <1>11 DEF Faithful, Result, is

(* What is dispatched of a file: its entries, each with its own clauses.   *)
LEMMA ParsedProperties ==
  ASSUME NEW f \in DOMAIN Files
  PROVE  /\ DOMAIN Parsed[f] = 1 .. Len(Files[f]) /\ Len(Files[f]) \in Nat
         /\ \A n \in DOMAIN Parsed[f] :
              /\ Parsed[f][n].clauses \in Seq(ClausesOf(Parsed[f][n].contract_id))
              /\ \A i, j \in DOMAIN Parsed[f][n].clauses : i < j =>
                   Parsed[f][n].clauses[i].clause_id # Parsed[f][n].clauses[j].clause_id
<1> DEFINE file == Files[f]
<1>1. DOMAIN file = 1 .. Len(file) /\ Len(file) \in Nat
  BY ParsingConstants, LenProperties
<1>2. Parsed[f] = [n \in DOMAIN file |->
                     [contract_id |-> ContractId(file[n].title),
                      filename |-> file[n].title,
                      clauses |-> Unique(Spans(file[n]))]]
  BY DEF Parsed, parse_cuad
<1>3. ASSUME NEW n \in DOMAIN file
      PROVE  file[n].answers \in Seq(Answers)
  BY ParsingConstants DEF ToSet
<1> HIDE DEF file
<1>4. ASSUME NEW n \in DOMAIN file
      PROVE  /\ Unique(Spans(file[n])) \in Seq(ClausesOf(ContractId(file[n].title)))
             /\ FirstOccurrences(Unique(Spans(file[n])), file[n].answers)
  BY <1>3, ClausesProperties
<1>5. \A n \in DOMAIN file :
        /\ Parsed[f][n].contract_id = ContractId(file[n].title)
        /\ Parsed[f][n].clauses = Unique(Spans(file[n]))
  BY <1>2
<1>6. ASSUME NEW n \in DOMAIN file
      PROVE  LET cs == Unique(Spans(file[n]))
             IN  \A i, j \in DOMAIN cs : i < j => cs[i].clause_id # cs[j].clause_id
  BY <1>4 DEF FirstOccurrences
<1>7. DOMAIN Parsed[f] = DOMAIN file
  BY <1>2
<1>8. \A n \in DOMAIN Parsed[f] :
        /\ Parsed[f][n].clauses \in Seq(ClausesOf(Parsed[f][n].contract_id))
        /\ \A i, j \in DOMAIN Parsed[f][n].clauses : i < j =>
             Parsed[f][n].clauses[i].clause_id # Parsed[f][n].clauses[j].clause_id
  BY <1>4, <1>5, <1>6, <1>7
<1>9. QED
  BY <1>1, <1>7, <1>8 DEF file

-----------------------------------------------------------------------------
(* What is stored, and what the tools read of it.                          *)

(* The clauses of all versions of all contracts. *)
AllClauses == UNION {ToSet(p.clauses) : p \in Payloads}

LEMMA PayloadProperties ==
  ASSUME NEW p \in Payloads
  PROVE  /\ p.clauses \in Seq(ClausesOf(p.contract_id))
         /\ DOMAIN p.clauses = 1 .. Len(p.clauses) /\ Len(p.clauses) \in Nat
         /\ \A i \in DOMAIN p.clauses :
              p.clauses[i] \in ClausesOf(p.contract_id) /\ p.clauses[i] \in AllClauses
         /\ \A i, j \in DOMAIN p.clauses :
              i < j => p.clauses[i].clause_id # p.clauses[j].clause_id
<1>1. PICK f \in DOMAIN Files : \E n \in DOMAIN Parsed[f] : p = Parsed[f][n]
  BY DEF Payloads, ToSet
<1>2. /\ p.clauses \in Seq(ClausesOf(p.contract_id))
      /\ \A i, j \in DOMAIN p.clauses :
           i < j => p.clauses[i].clause_id # p.clauses[j].clause_id
  BY <1>1, ParsedProperties
<1>3. DOMAIN p.clauses = 1 .. Len(p.clauses) /\ Len(p.clauses) \in Nat
  BY <1>2, LenProperties
<1>4. \A i \in DOMAIN p.clauses : p.clauses[i] \in ClausesOf(p.contract_id)
  BY <1>2, <1>3, ElementOfSeq
<1>5. \A i \in DOMAIN p.clauses : p.clauses[i] \in AllClauses
  BY DEF AllClauses, ToSet
<1>6. QED
  BY <1>2, <1>3, <1>4, <1>5

(* An id stands for one clause, whichever versions it is part of. *)
LEMMA IdIsClause ==
  ASSUME NEW c \in AllClauses, NEW d \in AllClauses, c.clause_id = d.clause_id
  PROVE  /\ c.contract_id = d.contract_id
         /\ c.category = d.category
         /\ c.text = d.text
<1>1. PICK p \in Payloads : c \in ClausesOf(p.contract_id)
  BY PayloadProperties DEF AllClauses, ToSet
<1>2. PICK q \in Payloads : d \in ClausesOf(q.contract_id)
  BY PayloadProperties DEF AllClauses, ToSet
<1>3. QED
  BY <1>1, <1>2, ClauseFields, ClauseIdInjective

LEMMA IdsProperties ==
  ASSUME NEW p \in Payloads
  PROVE  /\ Ids(p) = {c.clause_id : c \in ToSet(p.clauses)}
         /\ IsFiniteSet(Ids(p))
         /\ \A c \in ToSet(p.clauses) : c \in AllClauses /\ c.contract_id = p.contract_id
<1>1. Ids(p) = {c.clause_id : c \in ToSet(p.clauses)}
  BY DEF Ids, ToSet
<1>2. IsFiniteSet(Ids(p))
  <2> DEFINE f == [i \in 1 .. Len(p.clauses) |-> p.clauses[i].clause_id]
  <2>1. DOMAIN p.clauses = 1 .. Len(p.clauses) /\ Len(p.clauses) \in Nat
    BY PayloadProperties
  <2>2. f \in Surjection(1 .. Len(p.clauses), Ids(p))
    BY <2>1 DEF Surjection, Ids
  <2>3. IsFiniteSet(1 .. Len(p.clauses))
    <3>1. \A n \in Nat : 1 \in Int /\ n \in Int
      OBVIOUS
    <3>2. QED
      BY <2>1, <3>1, FS_Interval
  <2> HIDE DEF f
  <2>4. QED
    BY <2>2, <2>3, FS_Surjection
<1>3. \A c \in ToSet(p.clauses) : c \in AllClauses /\ c.contract_id = p.contract_id
  BY PayloadProperties, ClauseFields DEF ToSet
<1>4. QED
  BY <1>1, <1>2, <1>3

(* The rows that are inserted for a contract: one per clause. *)
LEMMA RowsProperties ==
  ASSUME NEW p \in Payloads
  PROVE  /\ DOMAIN Rows(p) = Ids(p)
         /\ \A c \in ToSet(p.clauses) :
              Rows(p)[c.clause_id] =
                [contract_id |-> c.contract_id, category |-> c.category,
                 text |-> c.text, risk_level |-> NULL]
<1>1. ASSUME NEW c \in ToSet(p.clauses)
      PROVE  Rows(p)[c.clause_id] =
               [contract_id |-> c.contract_id, category |-> c.category,
                text |-> c.text, risk_level |-> NULL]
  <2> DEFINE d == CHOOSE d \in ToSet(p.clauses) : d.clause_id = c.clause_id
  <2>1. d \in ToSet(p.clauses) /\ d.clause_id = c.clause_id
    OBVIOUS
  <2>2. d.contract_id = c.contract_id /\ d.category = c.category /\ d.text = c.text
    <3> HIDE DEF d
    <3>1. QED
      BY <2>1, IdsProperties, IdIsClause
  <2>3. c.clause_id \in Ids(p)
    BY DEF Ids, ToSet
  <2>4. Rows(p)[c.clause_id] =
          [contract_id |-> d.contract_id, category |-> d.category,
           text |-> d.text, risk_level |-> NULL]
    BY <2>3 DEF Rows
  <2>5. QED
    BY <2>2, <2>4
<1>2. QED
  BY <1>1 DEF Rows

(* The records that are upserted for a contract: one per clause, with the  *)
(* vector of its own text.                                                 *)
LEMMA RecordsProperties ==
  ASSUME NEW p \in Payloads
  PROVE  /\ DOMAIN Records(p) = Ids(p)
         /\ \A c \in ToSet(p.clauses) : Records(p)[c.clause_id] = Embedding(c.text)
<1> DEFINE cs == p.clauses
           vectors == embed(Texts(p), MaxChunk)
           zip == DOMAIN cs \cap DOMAIN vectors
           pick(id) == CHOOSE i \in zip : cs[i].clause_id = id
<1>1. DOMAIN cs = 1 .. Len(cs) /\ Len(cs) \in Nat
      /\ \A i \in DOMAIN cs : cs[i] \in AllClauses
  BY PayloadProperties
<1>2. vectors = [i \in DOMAIN cs |-> Embedding(cs[i].text)]
  <2>1. Texts(p) = [i \in 1 .. Len(cs) |-> cs[i].text]
    BY <1>1 DEF Texts
  <2> DEFINE T == {cs[i].text : i \in DOMAIN cs}
  <2>2. Texts(p) \in Seq(T)
    BY <1>1, <2>1
  <2>3. MaxChunk \in Nat \ {0}
    BY ParsingConstants
  <2> HIDE DEF T
  <2>4. vectors = [i \in DOMAIN Texts(p) |-> Embedding(Texts(p)[i])]
    BY <2>2, <2>3, EmbedReturnsEachVector
  <2>5. QED
    BY <1>1, <2>1, <2>4
<1>3. zip = DOMAIN cs
  BY <1>2
<1>4. Records(p) = [id \in {cs[i].clause_id : i \in zip} |-> vectors[pick(id)]]
  BY DEF Records
<1>5. DOMAIN Records(p) = Ids(p)
  BY <1>3, <1>4 DEF Ids
<1>6. ASSUME NEW c \in ToSet(cs)
      PROVE  Records(p)[c.clause_id] = Embedding(c.text)
  <2>1. PICK i \in DOMAIN cs : c = cs[i]
    BY DEF ToSet
  <2> DEFINE j == pick(c.clause_id)
  <2>2. j \in DOMAIN cs /\ cs[j].clause_id = c.clause_id
    BY <1>3, <2>1
  <2>3. Records(p)[c.clause_id] = vectors[j]
    BY ZenonT(30), <1>3, <1>4, <2>1
  <2> HIDE DEF j, vectors
  <2>4. cs[j].text = c.text
    BY <1>1, <2>1, <2>2, IdIsClause
  <2>5. QED
    BY <1>2, <2>2, <2>3, <2>4
<1>7. QED
  BY <1>5, <1>6

-----------------------------------------------------------------------------
(* The inductive invariant.                                                *)

(* Every row and every vector is that of the clause its id stands for, and *)
(* the score of a row that of its text.                                    *)
RowOf(id, c) ==
  /\ id = c.clause_id
  /\ \E risk \in {NULL, level(c.text)} :
       clauses[id] = [contract_id |-> c.contract_id, category |-> c.category,
                      text |-> c.text, risk_level |-> risk]

RowsAreClauses == \A id \in DOMAIN clauses : \E c \in AllClauses : RowOf(id, c)

VectorsAreEmbeddings ==
  /\ IsFiniteSet(DOMAIN index)
  /\ \A id \in DOMAIN index :
       \E c \in AllClauses : id = c.clause_id /\ index[id] = Embedding(c.text)

(* Stored, once rows and vectors are those of their clauses. *)
Whole(p) ==
  /\ p.contract_id \in DOMAIN contracts
  /\ Ids(p) \subseteq DOMAIN clauses
  /\ Ids(p) \subseteq DOMAIN index

ContractsAreParsed == DOMAIN contracts \subseteq {p.contract_id : p \in Payloads}

(* Rows come with all others of some version, and stay so. *)
RowsAreWhole ==
  \A id \in DOMAIN clauses : \E q \in Payloads : id \in Ids(q) /\ Whole(q)

FinishedIsWhole == \A p \in finished : p \in Payloads /\ Whole(p)

(* A handler that is past a call has its effect. *)
HandlersProgress ==
  \A w \in Workers :
    /\ at[w] \in {"embed", "vectors", "rows"} => payload(w).contract_id \in DOMAIN contracts
    /\ at[w] = "rows" => Ids(payload(w)) \subseteq DOMAIN index

(* A score that waits to be written is of the text that its row has. *)
ScoresAreRight ==
  /\ DOMAIN score = Reviews
  /\ \A a \in Reviews : tool[a] \in {"update", "commit"} =>
       \E c \in AllClauses :
         /\ c.clause_id \in DOMAIN clauses
         /\ score[a] = [clause_id |-> c.clause_id, level |-> level(c.text)]

(* The matches that wait for their rows are the best of all that was       *)
(* finished when the index was asked.                                      *)
BestMatches(ms, before) ==
  /\ before \subseteq finished
  /\ ms \in Seq(ToSet(ms))
  /\ \A i, j \in DOMAIN ms : i < j => ms[i].score >= ms[j].score
  /\ \A i \in DOMAIN ms : \E c \in AllClauses :
       ms[i].id = c.clause_id /\ ms[i].score = Similarity[Embedding(c.text)]
  /\ \A p \in before : \A c \in ToSet(p.clauses) :
       c.clause_id \notin {ms[i].id : i \in DOMAIN ms} =>
         /\ Len(ms) = TopK
         /\ \A i \in DOMAIN ms : ms[i].score >= Similarity[Embedding(c.text)]

MatchesAreBest ==
  /\ DOMAIN found = Reviews
  /\ \A a \in Reviews :
       tool[a] = "hydrate" => BestMatches(found[a].matches, found[a].before)

RetrievalInv ==
  /\ TypeOK
  /\ RowsAreClauses
  /\ VectorsAreEmbeddings
  /\ ContractsAreParsed
  /\ RowsAreWhole
  /\ FinishedIsWhole
  /\ HandlersProgress
  /\ ScoresAreRight
  /\ MatchesAreBest

-----------------------------------------------------------------------------
(* What each statement does to the tables and the index.                   *)

LEMMA PayloadOf ==
  ASSUME TypeOK, NEW w \in Workers, at[w] # "idle"
  PROVE  payload(w) \in Payloads /\ task[w] = {payload(w)}
<1>1. PICK p \in Payloads : task[w] = {p}
  BY DEF TypeOK
<1>2. QED
  BY <1>1 DEF payload

LEMMA UpsertRowsEffect ==
  ASSUME RowsAreClauses, NEW p \in Payloads, clauses' = UpsertRows(Rows(p))
  PROVE  /\ DOMAIN clauses' = Ids(p) \cup DOMAIN clauses
         /\ RowsAreClauses'
         /\ \A id \in DOMAIN clauses : clauses'[id].risk_level = clauses[id].risk_level
<1>1. DOMAIN clauses' = Ids(p) \cup DOMAIN clauses
  BY RowsProperties DEF UpsertRows, Upserted
<1>2. ASSUME NEW id \in DOMAIN clauses, id \notin Ids(p)
      PROVE  clauses'[id] = clauses[id]
  BY <1>2, RowsProperties DEF UpsertRows, Upserted
<1>3. ASSUME NEW c \in ToSet(p.clauses), c.clause_id \notin DOMAIN clauses
      PROVE  clauses'[c.clause_id] =
               [contract_id |-> c.contract_id, category |-> c.category,
                text |-> c.text, risk_level |-> NULL]
  <2>1. c.clause_id \in Ids(p)
    BY IdsProperties
  <2>2. clauses'[c.clause_id] = Rows(p)[c.clause_id]
    BY <1>3, <2>1, RowsProperties DEF UpsertRows, Upserted
  <2>3. QED
    BY <2>2, RowsProperties
<1>4. ASSUME NEW c \in ToSet(p.clauses), c.clause_id \in DOMAIN clauses
      PROVE  clauses'[c.clause_id] = clauses[c.clause_id]
  <2>1. c.clause_id \in Ids(p)
    BY IdsProperties
  <2>2. clauses'[c.clause_id] =
          [clauses[c.clause_id] EXCEPT !.text = Rows(p)[c.clause_id].text]
    BY <1>4, <2>1, RowsProperties DEF UpsertRows, Upserted
  <2>3. Rows(p)[c.clause_id].text = c.text
    <3>1. Rows(p)[c.clause_id] =
            [contract_id |-> c.contract_id, category |-> c.category,
             text |-> c.text, risk_level |-> NULL]
      BY RowsProperties
    <3>2. QED
      BY <3>1
  <2>4. PICK d \in AllClauses : RowOf(c.clause_id, d)
    BY <1>4 DEF RowsAreClauses
  <2>5. d.text = c.text
    BY <2>4, IdsProperties, IdIsClause DEF RowOf
  <2>6. PICK risk \in {NULL, level(d.text)} :
          clauses[c.clause_id] = [contract_id |-> d.contract_id, category |-> d.category,
                                  text |-> d.text, risk_level |-> risk]
    BY <2>4 DEF RowOf
  <2>7. QED
    BY <2>2, <2>3, <2>5, <2>6
<1>5. ASSUME NEW id \in DOMAIN clauses
      PROVE  clauses'[id] = clauses[id]
  BY <1>2, <1>4, IdsProperties
<1>6. RowsAreClauses'
  <2> SUFFICES ASSUME NEW id \in DOMAIN clauses'
               PROVE  \E c \in AllClauses : RowOf(id, c)'
    BY DEF RowsAreClauses
  <2>1. CASE id \in DOMAIN clauses
    BY <1>5, <2>1 DEF RowsAreClauses, RowOf
  <2>2. CASE id \notin DOMAIN clauses
    <3>1. PICK c \in ToSet(p.clauses) : id = c.clause_id
      BY <1>1, <2>2, IdsProperties
    <3>2. c \in AllClauses
      BY IdsProperties
    <3>3. QED
      BY <1>3, <2>2, <3>1, <3>2 DEF RowOf
  <2>3. QED
    BY <2>1, <2>2
<1>7. QED
  BY <1>1, <1>5, <1>6

LEMMA UpsertVectorsEffect ==
  ASSUME VectorsAreEmbeddings, NEW p \in Payloads, NEW ids \in SUBSET Ids(p),
         index' = Upserted([id \in ids |-> Records(p)[id]], index)
  PROVE  /\ DOMAIN index' = ids \cup DOMAIN index
         /\ VectorsAreEmbeddings'
<1>1. DOMAIN index' = ids \cup DOMAIN index
  BY DEF Upserted
<1>2. IsFiniteSet(DOMAIN index')
  <2>1. IsFiniteSet(ids)
    BY IdsProperties, FS_Subset
  <2>2. IsFiniteSet(DOMAIN index)
    BY DEF VectorsAreEmbeddings
  <2>3. IsFiniteSet(ids \cup DOMAIN index)
    BY <2>1, <2>2, FS_Union
  <2>4. QED
    BY <1>1, <2>3
<1>3. ASSUME NEW id \in DOMAIN index'
      PROVE  \E c \in AllClauses : id = c.clause_id /\ index'[id] = Embedding(c.text)
  <2>1. CASE id \in ids
    <3>1. PICK c \in ToSet(p.clauses) : id = c.clause_id
      BY <2>1, IdsProperties
    <3>2. index'[id] = Records(p)[id]
      BY <2>1 DEF Upserted
    <3>3. QED
      BY <3>1, <3>2, RecordsProperties, IdsProperties
  <2>2. CASE id \notin ids
    <3>1. id \in DOMAIN index /\ index'[id] = index[id]
      BY <1>1, <2>2 DEF Upserted
    <3>2. QED
      BY <3>1 DEF VectorsAreEmbeddings
  <2>3. QED
    BY <2>1, <2>2
<1>4. QED
  BY <1>1, <1>2, <1>3 DEF VectorsAreEmbeddings

LEMMA SetRiskEffect ==
  ASSUME RowsAreClauses, ScoresAreRight, NEW a \in Reviews, tool[a] = "commit",
         clauses' = SetRisk(a)
  PROVE  /\ DOMAIN clauses' = DOMAIN clauses
         /\ RowsAreClauses'
         /\ \A id \in DOMAIN clauses :
              clauses[id].risk_level # NULL => clauses'[id].risk_level # NULL
<1>1. PICK c \in AllClauses :
        /\ c.clause_id \in DOMAIN clauses
        /\ score[a] = [clause_id |-> c.clause_id, level |-> level(c.text)]
  BY DEF ScoresAreRight
<1>2. PICK d \in AllClauses : RowOf(c.clause_id, d)
  BY <1>1 DEF RowsAreClauses
<1>3. PICK risk \in {NULL, level(d.text)} :
        clauses[c.clause_id] = [contract_id |-> d.contract_id, category |-> d.category,
                                text |-> d.text, risk_level |-> risk]
  BY <1>2 DEF RowOf
<1>4. c.clause_id = d.clause_id /\ c.text = d.text
  BY <1>2, IdIsClause DEF RowOf
<1>5. DOMAIN clauses' = DOMAIN clauses
  BY DEF SetRisk
<1>6. clauses'[c.clause_id] = [contract_id |-> d.contract_id, category |-> d.category,
                               text |-> d.text, risk_level |-> level(d.text)]
  BY <1>1, <1>3, <1>4 DEF SetRisk
<1>7. \A id \in DOMAIN clauses : id # c.clause_id => clauses'[id] = clauses[id]
  BY <1>1 DEF SetRisk
<1>8. level(d.text) # NULL
  BY DEF level, NULL
<1>9. RowsAreClauses'
  <2> SUFFICES ASSUME NEW id \in DOMAIN clauses'
               PROVE  \E e \in AllClauses : RowOf(id, e)'
    BY DEF RowsAreClauses
  <2>1. CASE id = c.clause_id
    BY <1>4, <1>6, <2>1 DEF RowOf
  <2>2. CASE id # c.clause_id
    BY <1>5, <1>7, <2>2 DEF RowsAreClauses, RowOf
  <2>3. QED
    BY <2>1, <2>2
<1>10. QED
  BY <1>5, <1>6, <1>7, <1>8, <1>9

-----------------------------------------------------------------------------
(* What a step does to the stores.                                         *)

Grow ==
  /\ DOMAIN contracts \subseteq DOMAIN contracts'
  /\ DOMAIN clauses \subseteq DOMAIN clauses'
  /\ DOMAIN index \subseteq DOMAIN index'

RisksKept ==
  \A id \in DOMAIN clauses :
    clauses[id].risk_level # NULL => clauses'[id].risk_level # NULL

(* The effect of one statement: on the contracts, on the index, or on the  *)
(* rows, of which only a commit adds some, and all of its contract's.      *)
StoreEffect ==
  /\ Grow
  /\ ContractsAreParsed'
  /\ VectorsAreEmbeddings'
  /\ RowsAreClauses'
  /\ RisksKept
  /\ \A id \in DOMAIN clauses' \ DOMAIN clauses :
       \E w \in Workers :
         /\ at[w] = "rows" /\ id \in Ids(payload(w))
         /\ Ids(payload(w)) \subseteq DOMAIN clauses'

LEMMA NoEffect ==
  ASSUME RetrievalInv, UNCHANGED stores
  PROVE  StoreEffect
BY DEF RetrievalInv, stores, StoreEffect, Grow, RisksKept, ContractsAreParsed,
       VectorsAreEmbeddings, RowsAreClauses, RowOf

LEMMA ContractEffect ==
  ASSUME RetrievalInv, NEW w \in Workers, at[w] = "contract",
         contracts' = Upserted(ContractRow(payload(w)), contracts),
         UNCHANGED <<clauses, index>>
  PROVE  StoreEffect /\ payload(w).contract_id \in DOMAIN contracts'
<1>1. DOMAIN contracts' = {payload(w).contract_id} \cup DOMAIN contracts
  BY DEF Upserted, ContractRow
<1>2. payload(w) \in Payloads
  BY PayloadOf DEF RetrievalInv
<1>3. ContractsAreParsed'
  BY <1>1, <1>2 DEF ContractsAreParsed, RetrievalInv
<1>4. QED
  BY <1>1, <1>3 DEF RetrievalInv, StoreEffect, Grow, RisksKept, VectorsAreEmbeddings,
                    RowsAreClauses, RowOf

LEMMA VectorEffect ==
  ASSUME RetrievalInv, NEW w \in Workers, at[w] = "vectors",
         NEW ids \in SUBSET DOMAIN Records(payload(w)),
         index' = Upserted([id \in ids |-> Records(payload(w))[id]], index),
         UNCHANGED <<contracts, clauses>>
  PROVE  StoreEffect /\ ids \subseteq DOMAIN index'
<1>1. payload(w) \in Payloads
  BY PayloadOf DEF RetrievalInv
<1>2. ids \in SUBSET Ids(payload(w))
  BY <1>1, RecordsProperties
<1>3. DOMAIN index' = ids \cup DOMAIN index /\ VectorsAreEmbeddings'
  BY <1>1, <1>2, UpsertVectorsEffect DEF RetrievalInv
<1>4. QED
  BY <1>3 DEF RetrievalInv, StoreEffect, Grow, RisksKept, ContractsAreParsed,
              RowsAreClauses, RowOf

LEMMA RowEffect ==
  ASSUME RetrievalInv, NEW w \in Workers, at[w] = "rows",
         clauses' = UpsertRows(Rows(payload(w))),
         UNCHANGED <<contracts, index>>
  PROVE  StoreEffect /\ Ids(payload(w)) \subseteq DOMAIN clauses'
<1>1. payload(w) \in Payloads
  BY PayloadOf DEF RetrievalInv
<1>2. /\ DOMAIN clauses' = Ids(payload(w)) \cup DOMAIN clauses
      /\ RowsAreClauses'
      /\ \A id \in DOMAIN clauses : clauses'[id].risk_level = clauses[id].risk_level
  BY <1>1, UpsertRowsEffect DEF RetrievalInv
<1>3. QED
  BY <1>2 DEF RetrievalInv, StoreEffect, Grow, RisksKept, ContractsAreParsed,
              VectorsAreEmbeddings

LEMMA RiskEffect ==
  ASSUME RetrievalInv, NEW a \in Reviews, tool[a] = "commit", clauses' = SetRisk(a),
         UNCHANGED <<contracts, index>>
  PROVE  StoreEffect
<1>1. /\ DOMAIN clauses' = DOMAIN clauses
      /\ RowsAreClauses'
      /\ RisksKept
  BY SetRiskEffect DEF RetrievalInv, RisksKept
<1>2. QED
  BY <1>1 DEF RetrievalInv, StoreEffect, Grow, ContractsAreParsed, VectorsAreEmbeddings

LEMMA StoresGrow ==
  ASSUME RetrievalInv, [Next]_vars
  PROVE  StoreEffect
<1>1. CASE Pipeline /\ UNCHANGED toolVars
  <2>1. CASE DriverNext /\ UNCHANGED <<handling, stores, finished>>
    BY <2>1, NoEffect
  <2>2. ASSUME NEW w \in Workers, Fails(w)
        PROVE  StoreEffect
    <3>1. CASE UNCHANGED <<contracts, index, clauses>>
      BY <3>1, NoEffect DEF stores
    <3>2. CASE /\ at[w] = "contract"
               /\ contracts' = Upserted(ContractRow(payload(w)), contracts)
               /\ UNCHANGED <<index, clauses>>
      BY <3>2, ContractEffect
    <3>3. CASE /\ at[w] = "vectors"
               /\ \E ids \in SUBSET DOMAIN Records(payload(w)) :
                    index' = Upserted([id \in ids |-> Records(payload(w))[id]], index)
               /\ UNCHANGED <<contracts, clauses>>
      BY <3>3, VectorEffect
    <3>4. CASE /\ at[w] = "rows"
               /\ clauses' = UpsertRows(Rows(payload(w)))
               /\ UNCHANGED <<contracts, index>>
      BY <3>4, RowEffect
    <3>5. QED
      BY <2>2, <3>1, <3>2, <3>3, <3>4 DEF Fails
  <2>3. ASSUME NEW w \in Workers, NEW t \in inflight, Start(w, t)
        PROVE  StoreEffect
    BY <2>3, NoEffect DEF Start
  <2>4. QED
    BY <1>1, <2>1, <2>2, <2>3 DEF Pipeline
<1>2. ASSUME NEW w \in Workers, WorkerStep(w)
      PROVE  StoreEffect
  <2>1. CASE UpsertContract(w)
    BY <2>1, ContractEffect DEF UpsertContract
  <2>2. CASE Embed(w)
    BY <2>2, NoEffect DEF Embed
  <2>3. CASE UpsertVectors(w)
    <3>1. Records(payload(w)) = [id \in DOMAIN Records(payload(w)) |-> Records(payload(w))[id]]
      BY DEF Records
    <3>2. QED
      BY <2>3, <3>1, VectorEffect DEF UpsertVectors
  <2>4. CASE InsertClause(w)
    BY <2>4, NoEffect DEF InsertClause
  <2>5. CASE Commit(w)
    BY <2>5, RowEffect DEF Commit
  <2>6. QED
    BY <1>2, <2>1, <2>2, <2>3, <2>4, <2>5 DEF WorkerStep, Step
<1>3. ASSUME NEW a \in Reviews,
             Query(a) \/ ToolStep(a) \/ ToolFails(a) \/ \E id \in DOMAIN clauses : ReadClause(a, id)
      PROVE  StoreEffect
  <2>1. CASE UNCHANGED stores
    BY <2>1, NoEffect
  <2>2. CASE CommitScore(a)
    BY <2>2, RiskEffect DEF CommitScore
  <2>3. CASE ToolFails(a)
    BY <2>1, <2>3, RiskEffect DEF ToolFails, stores
  <2>4. QED
    BY <1>3, <2>1, <2>2, <2>3 DEF Query, ToolStep, Hydrate, Update, ReadClause, ivars
<1>4. CASE UNCHANGED vars
  BY <1>4, NoEffect DEF vars, ivars
<1>5. QED
  BY <1>1, <1>2, <1>3, <1>4 DEF Next

-----------------------------------------------------------------------------
(* Each part of the invariant is preserved.                                *)

LEMMA ParsedInPayloads ==
  ASSUME NEW f \in DOMAIN Files, NEW n \in 1 .. Len(Files[f])
  PROVE  Parsed[f][n] \in Payloads
<1>1. DOMAIN Files[f] = 1 .. Len(Files[f])
  BY ParsingConstants, LenProperties
<1>2. n \in DOMAIN Parsed[f] /\ f \in DOMAIN Parsed
  BY <1>1 DEF Parsed, parse_cuad
<1>3. QED
  BY <1>2 DEF Payloads, ToSet

(* The script and the tasks in flight. *)
DriverTypeOK ==
  /\ script \in {NotRunning} \cup [file : DOMAIN Files, limit : Limits, enqueued : Nat]
  /\ \A t \in inflight : t.payload \in Payloads

LEMMA DriverTypes ==
  ASSUME DriverTypeOK, DriverNext
  PROVE  DriverTypeOK'
<1> USE DEF DriverTypeOK
<1>1. ASSUME NEW f \in DOMAIN Files, NEW l \in Limits, StartScript(f, l)
      PROVE  DriverTypeOK'
  BY <1>1 DEF StartScript
<1>2. ASSUME script # NotRunning, More
      PROVE  Pushed.payload \in Payloads
  <2>1. script \in [file : DOMAIN Files, limit : Limits, enqueued : Nat]
    BY <1>2
  <2>2. PICK f \in DOMAIN Files : script.file = f
    BY <2>1
  <2>3. Len(Files[f]) \in Nat
    BY ParsingConstants, LenProperties
  <2>4. script.enqueued + 1 \in 1 .. Len(Files[f])
    BY <1>2, <2>1, <2>2, <2>3 DEF More
  <2>5. QED
    BY <2>2, <2>4, ParsedInPayloads DEF Pushed
<1>3. CASE Enqueue
  BY <1>2, <1>3 DEF Enqueue
<1>4. CASE EnqueueFails
  BY <1>2, <1>4 DEF EnqueueFails
<1>5. CASE Finish
  BY <1>5 DEF Finish
<1>6. ASSUME NEW t \in inflight, LoseTask(t)
      PROVE  DriverTypeOK'
  BY <1>6 DEF LoseTask
<1>7. QED
  BY <1>1, <1>3, <1>4, <1>5, <1>6 DEF DriverNext, Script

(* The handlers. *)
HandlerTypeOK ==
  /\ at \in [Workers -> Points]
  /\ task \in [Workers -> {{}} \cup {{p} : p \in Payloads}]
  /\ \A w \in Workers : (task[w] = {}) <=> (at[w] = "idle")

LEMMA GotoTypes ==
  ASSUME HandlerTypeOK, NEW w \in Workers, at[w] # "idle",
         NEW point \in Points \ {"idle"}, Goto(w, point)
  PROVE  HandlerTypeOK' /\ at' = [at EXCEPT ![w] = point] /\ task' = task
BY DEF HandlerTypeOK, Goto

LEMMA LeaveTypes ==
  ASSUME HandlerTypeOK, NEW w \in Workers, Leave(w)
  PROVE  HandlerTypeOK' /\ at' = [at EXCEPT ![w] = "idle"]
BY DEF HandlerTypeOK, Leave, Points

LEMMA StartTypes ==
  ASSUME HandlerTypeOK, DriverTypeOK, NEW w \in Workers, NEW t \in inflight, Start(w, t)
  PROVE  HandlerTypeOK' /\ DriverTypeOK'
BY DEF HandlerTypeOK, DriverTypeOK, Start, Points

LEMMA StepTypes ==
  ASSUME HandlerTypeOK, NEW w \in Workers, Step(w)
  PROVE  HandlerTypeOK'
<1>1. CASE UpsertContract(w)
  BY <1>1, GotoTypes, LeaveTypes DEF UpsertContract, Returns, Points
<1>2. CASE Embed(w)
  <2>1. CASE Goto(w, "vectors")
    BY <1>2, <2>1, GotoTypes DEF Embed, Points
  <2>2. CASE UNCHANGED <<at, task>>
    BY <2>2 DEF HandlerTypeOK
  <2>3. QED
    BY <1>2, <2>1, <2>2 DEF Embed
<1>3. CASE UpsertVectors(w)
  BY <1>3, GotoTypes DEF UpsertVectors, Points
<1>4. CASE InsertClause(w)
  BY <1>4 DEF InsertClause, HandlerTypeOK
<1>5. CASE Commit(w)
  BY <1>5, LeaveTypes DEF Commit, Returns
<1>6. QED
  BY <1>1, <1>2, <1>3, <1>4, <1>5 DEF Step

(* The reviews. *)
ReviewTypeOK ==
  /\ tool \in [Reviews -> ToolPoints]
  /\ calls \in 0 .. MaxCalls

LEMMA ReviewTypes ==
  ASSUME ReviewTypeOK, NEW a \in Reviews,
         Query(a) \/ ToolStep(a) \/ ToolFails(a) \/ \E id \in DOMAIN clauses : ReadClause(a, id)
  PROVE  ReviewTypeOK' /\ UNCHANGED <<dvars, handling, finished>>
<1>1. ASSUME NEW point \in ToolPoints, Call(a, point)
      PROVE  ReviewTypeOK'
  BY <1>1, RetrievalConstants DEF ReviewTypeOK, Call, Await
<1>2. ASSUME NEW point \in ToolPoints, Await(a, point), UNCHANGED calls
      PROVE  ReviewTypeOK'
  BY <1>2 DEF ReviewTypeOK, Await
<1>3. QED
  BY <1>1, <1>2 DEF Query, ToolStep, Hydrate, Update, CommitScore, ToolFails, ReadClause,
                    ToolPoints, ivars

(* What the stores hold, from what their rows are. *)
StoreTypeOK ==
  /\ DOMAIN clauses \cup DOMAIN index \subseteq UNION {Ids(p) : p \in Payloads}
  /\ \A id \in DOMAIN clauses : clauses[id].risk_level \in {NULL, "low", "medium", "high"}

LEMMA StoreTypes == RowsAreClauses /\ VectorsAreEmbeddings => StoreTypeOK
<1> SUFFICES ASSUME RowsAreClauses, VectorsAreEmbeddings PROVE StoreTypeOK
  OBVIOUS
<1>1. \A c \in AllClauses : c.clause_id \in UNION {Ids(p) : p \in Payloads}
  BY IdsProperties DEF AllClauses
<1>2. \A id \in DOMAIN clauses : \E c \in AllClauses : id = c.clause_id
  BY DEF RowsAreClauses, RowOf
<1>3. \A id \in DOMAIN index : \E c \in AllClauses : id = c.clause_id
  BY DEF VectorsAreEmbeddings
<1>4. ASSUME NEW id \in DOMAIN clauses
      PROVE  clauses[id].risk_level \in {NULL, "low", "medium", "high"}
  <2>1. PICK c \in AllClauses : \E risk \in {NULL, level(c.text)} :
          clauses[id] = [contract_id |-> c.contract_id, category |-> c.category,
                         text |-> c.text, risk_level |-> risk]
    BY DEF RowsAreClauses, RowOf
  <2>2. level(c.text) \in {"low", "medium", "high"}
    BY DEF level
  <2>3. QED
    BY <2>1, <2>2
<1>5. QED
  BY <1>1, <1>2, <1>3, <1>4 DEF StoreTypeOK

LEMMA TypesInductive ==
  ASSUME RetrievalInv, [Next]_vars
  PROVE  TypeOK'
<1>1. DriverTypeOK /\ HandlerTypeOK /\ ReviewTypeOK
  BY DEF RetrievalInv, TypeOK, DriverTypeOK, HandlerTypeOK, ReviewTypeOK
<1>2. DriverTypeOK' /\ HandlerTypeOK' /\ ReviewTypeOK'
  <2>1. CASE Pipeline /\ UNCHANGED toolVars
    <3>1. CASE DriverNext /\ UNCHANGED <<handling, stores, finished>>
      BY <1>1, <2>1, <3>1, DriverTypes DEF HandlerTypeOK, ReviewTypeOK, handling, toolVars
    <3>2. ASSUME NEW w \in Workers, Fails(w)
          PROVE  DriverTypeOK' /\ HandlerTypeOK' /\ ReviewTypeOK'
      <4>1. HandlerTypeOK'
        BY <1>1, <3>2, LeaveTypes DEF Fails
      <4>2. QED
        BY <1>1, <2>1, <3>2, <4>1 DEF Fails, DriverTypeOK, ReviewTypeOK, toolVars
    <3>3. ASSUME NEW w \in Workers, NEW t \in inflight, Start(w, t)
          PROVE  DriverTypeOK' /\ HandlerTypeOK' /\ ReviewTypeOK'
      BY <1>1, <2>1, <3>3, StartTypes DEF ReviewTypeOK, toolVars
    <3>4. QED
      BY <2>1, <3>1, <3>2, <3>3 DEF Pipeline
  <2>2. ASSUME NEW w \in Workers, WorkerStep(w)
        PROVE  DriverTypeOK' /\ HandlerTypeOK' /\ ReviewTypeOK'
    <3>1. Step(w) /\ UNCHANGED toolVars
      BY <2>2 DEF WorkerStep
    <3>2. HandlerTypeOK'
      BY <1>1, <3>1, StepTypes
    <3>3. UNCHANGED dvars
      BY <3>1 DEF Step, UpsertContract, Embed, UpsertVectors, InsertClause, Commit
    <3>4. QED
      BY <1>1, <3>1, <3>2, <3>3 DEF DriverTypeOK, ReviewTypeOK, dvars, toolVars
  <2>3. ASSUME NEW a \in Reviews,
               Query(a) \/ ToolStep(a) \/ ToolFails(a) \/ \E id \in DOMAIN clauses : ReadClause(a, id)
        PROVE  DriverTypeOK' /\ HandlerTypeOK' /\ ReviewTypeOK'
    BY <1>1, <2>3, ReviewTypes DEF DriverTypeOK, HandlerTypeOK, dvars, handling
  <2>4. CASE UNCHANGED vars
    BY <1>1, <2>4 DEF DriverTypeOK, HandlerTypeOK, ReviewTypeOK, vars, ivars, dvars, handling, toolVars
  <2>5. QED
    BY <2>1, <2>2, <2>3, <2>4 DEF Next
<1>3. StoreEffect
  BY StoresGrow
<1>4. (RowsAreClauses /\ VectorsAreEmbeddings)'
  BY <1>3 DEF StoreEffect
<1>5. StoreTypeOK'
  BY <1>4, StoreTypes, PTL
<1>6. ContractsAreParsed'
  BY <1>3 DEF StoreEffect
<1>7. QED
  BY <1>2, <1>5, <1>6 DEF TypeOK, DriverTypeOK, HandlerTypeOK, ReviewTypeOK, StoreTypeOK,
                         ContractsAreParsed

LEMMA WholeIsStable ==
  ASSUME Grow, NEW p, Whole(p)
  PROVE  Whole(p)'
BY DEF Grow, Whole

LEMMA RowsStayWhole ==
  ASSUME RetrievalInv, [Next]_vars
  PROVE  RowsAreWhole'
<1>1. StoreEffect
  BY StoresGrow
<1>2. Grow
  BY <1>1 DEF StoreEffect
<1> SUFFICES ASSUME NEW id \in DOMAIN clauses'
             PROVE  \E q \in Payloads : id \in Ids(q) /\ Whole(q)'
  BY DEF RowsAreWhole
<1>3. CASE id \in DOMAIN clauses
  <2>1. PICK q \in Payloads : id \in Ids(q) /\ Whole(q)
    BY <1>3 DEF RetrievalInv, RowsAreWhole
  <2>2. QED
    BY <1>2, <2>1, WholeIsStable
<1>4. CASE id \notin DOMAIN clauses
  <2>1. PICK w \in Workers :
          /\ at[w] = "rows" /\ id \in Ids(payload(w))
          /\ Ids(payload(w)) \subseteq DOMAIN clauses'
    BY <1>1, <1>4 DEF StoreEffect
  <2>2. payload(w) \in Payloads
    BY <2>1, PayloadOf DEF RetrievalInv
  <2>3. payload(w).contract_id \in DOMAIN contracts /\ Ids(payload(w)) \subseteq DOMAIN index
    BY <2>1 DEF RetrievalInv, HandlersProgress
  <2>4. PICK q \in Payloads : q = payload(w)
    BY <2>2
  <2>5. q.contract_id \in DOMAIN contracts' /\ Ids(q) \subseteq DOMAIN index'
    BY <1>2, <2>3, <2>4 DEF Grow
  <2>6. QED
    BY <2>1, <2>4, <2>5 DEF Whole
<1>5. QED
  BY <1>3, <1>4

(* A handler returns when everything of its contract is stored.            *)
LEMMA ReturnsIsWhole ==
  ASSUME RetrievalInv, NEW w \in Workers, UpsertContract(w) \/ Commit(w)
  PROVE  finished' = finished \/
           /\ finished' = finished \cup {payload(w)}
           /\ payload(w) \in Payloads
           /\ payload(w).contract_id \in DOMAIN contracts'
           /\ Ids(payload(w)) \subseteq DOMAIN clauses'
           /\ Ids(payload(w)) \subseteq DOMAIN index'
<1>1. CASE UpsertContract(w)
  <2>1. payload(w) \in Payloads /\ task[w] = {payload(w)}
    BY <1>1, PayloadOf DEF RetrievalInv, UpsertContract
  <2>2. payload(w).contract_id \in DOMAIN contracts'
    BY <1>1, ContractEffect DEF UpsertContract
  <2>3. CASE payload(w).clauses = <<>>
    <3>1. Ids(payload(w)) = {}
      BY <2>3 DEF Ids
    <3>2. finished' = finished \cup task[w]
      BY <1>1, <2>3 DEF UpsertContract, Returns
    <3>3. QED
      BY <2>1, <2>2, <3>1, <3>2
  <2>4. CASE payload(w).clauses # <<>>
    BY <1>1, <2>4 DEF UpsertContract
  <2>5. QED
    BY <2>3, <2>4
<1>2. CASE Commit(w)
  <2>1. payload(w) \in Payloads /\ task[w] = {payload(w)}
    BY <1>2, PayloadOf DEF RetrievalInv, Commit
  <2>2. Ids(payload(w)) \subseteq DOMAIN clauses'
    BY <1>2, RowEffect DEF Commit
  <2>3. payload(w).contract_id \in DOMAIN contracts /\ Ids(payload(w)) \subseteq DOMAIN index
    BY <1>2 DEF RetrievalInv, HandlersProgress, Commit
  <2>4. finished' = finished \cup task[w] /\ UNCHANGED <<contracts, index>>
    BY <1>2 DEF Commit, Returns
  <2>5. QED
    BY <2>1, <2>2, <2>3, <2>4
<1>3. QED
  BY <1>1, <1>2

LEMMA FinishedStaysWhole ==
  ASSUME RetrievalInv, [Next]_vars
  PROVE  FinishedIsWhole' /\ finished \subseteq finished'
<1>1. Grow
  BY StoresGrow DEF StoreEffect
<1>2. \A p \in finished : p \in Payloads /\ Whole(p)'
  <2>1. \A p \in finished : p \in Payloads /\ Whole(p)
    BY DEF RetrievalInv, FinishedIsWhole
  <2>2. QED
    BY <1>1, <2>1, WholeIsStable
<1>3. CASE UNCHANGED finished
  BY <1>2, <1>3 DEF FinishedIsWhole, Whole
<1>4. ASSUME NEW w \in Workers, UpsertContract(w) \/ Commit(w)
      PROVE  FinishedIsWhole' /\ finished \subseteq finished'
  <2> DEFINE q == payload(w)
  <2>1. CASE UNCHANGED finished
    BY <1>3, <2>1
  <2>2. CASE /\ finished' = finished \cup {q}
             /\ q \in Payloads
             /\ q.contract_id \in DOMAIN contracts'
             /\ Ids(q) \subseteq DOMAIN clauses'
             /\ Ids(q) \subseteq DOMAIN index'
    <3> HIDE DEF q
    <3>1. finished \subseteq finished'
      BY <2>2
    <3>2. ASSUME NEW p \in finished'
          PROVE  p \in Payloads /\ Whole(p)'
      BY <1>2, <2>2, <3>2 DEF Whole
    <3>3. QED
      BY <3>1, <3>2 DEF FinishedIsWhole
  <2>3. QED
    BY <1>4, <2>1, <2>2, ReturnsIsWhole
<1>5. ASSUME NEW w \in Workers, WorkerStep(w)
      PROVE  UNCHANGED finished \/ UpsertContract(w) \/ Commit(w)
  BY <1>5 DEF WorkerStep, Step, Embed, UpsertVectors, InsertClause, stores
<1>6. CASE Pipeline
  BY <1>3, <1>6 DEF Pipeline, Fails, Start
<1>7. ASSUME NEW a \in Reviews,
             Query(a) \/ ToolStep(a) \/ ToolFails(a) \/ \E id \in DOMAIN clauses : ReadClause(a, id)
      PROVE  UNCHANGED finished
  <2>1. ReviewTypeOK
    BY DEF RetrievalInv, TypeOK, ReviewTypeOK
  <2>2. QED
    BY <1>7, <2>1, ReviewTypes
<1>8. CASE UNCHANGED vars
  BY <1>3, <1>8 DEF vars, ivars
<1>9. QED
  BY <1>3, <1>4, <1>5, <1>6, <1>7, <1>8 DEF Next

(* What a handler's progress means of its payload. *)
Progressed(point, p) ==
  /\ point \in {"embed", "vectors", "rows"} => p.contract_id \in DOMAIN contracts
  /\ point = "rows" => Ids(p) \subseteq DOMAIN index

LEMMA HandlersStayRight ==
  ASSUME RetrievalInv, [Next]_vars
  PROVE  HandlersProgress'
<1>1. Grow
  BY StoresGrow DEF StoreEffect
<1> SUFFICES ASSUME NEW v \in Workers
             PROVE  Progressed(at[v], payload(v))'
  BY DEF HandlersProgress, Progressed
<1>2. Progressed(at[v], payload(v))
  BY DEF RetrievalInv, HandlersProgress, Progressed
<1>3. at \in [Workers -> Points] /\ DOMAIN task = Workers
  BY DEF RetrievalInv, TypeOK
<1>4. CASE at'[v] = at[v] /\ task'[v] = task[v]
  BY <1>1, <1>2, <1>4 DEF Progressed, payload, Grow
<1>5. CASE at'[v] \in {"idle", "contract"}
  BY <1>5 DEF Progressed
<1>6. ASSUME NEW w \in Workers, w # v, Goto(w, "embed") \/ Goto(w, "vectors")
                \/ Goto(w, "rows") \/ Leave(w)
      PROVE  at'[v] = at[v] /\ task'[v] = task[v]
  BY <1>3, <1>6 DEF Goto, Leave
<1>7. ASSUME NEW w \in Workers, Leave(w)
      PROVE  at'[w] = "idle"
  BY <1>3, <1>7 DEF Leave
<1>8. ASSUME NEW w \in Workers, Step(w)
      PROVE  Progressed(at[v], payload(v))'
  <2>1. CASE UpsertContract(w)
    <3>1. CASE Leave(w)
      BY <1>4, <1>5, <1>6, <1>7, <3>1
    <3>2. CASE Goto(w, "embed")
      <4>1. CASE w = v
        <5>1. at'[v] = "embed" /\ payload(v)' = payload(v)
          BY <1>3, <3>2, <4>1 DEF Goto, payload
        <5>2. payload(v).contract_id \in DOMAIN contracts'
          BY <2>1, <4>1, ContractEffect DEF UpsertContract
        <5>3. QED
          BY <5>1, <5>2 DEF Progressed
      <4>2. QED
        BY <1>4, <1>6, <3>2, <4>1
    <3>3. QED
      BY <2>1, <3>1, <3>2 DEF UpsertContract, Returns
  <2>2. CASE Embed(w)
    <3>1. CASE UNCHANGED <<at, task>>
      BY <1>4, <3>1
    <3>2. CASE Goto(w, "vectors")
      <4>1. CASE w = v
        <5>1. at'[v] = "vectors" /\ payload(v)' = payload(v)
          BY <1>3, <3>2, <4>1 DEF Goto, payload
        <5>2. payload(v).contract_id \in DOMAIN contracts
          BY <1>2, <2>2, <4>1 DEF Progressed, Embed
        <5>3. QED
          BY <1>1, <5>1, <5>2 DEF Progressed, Grow
      <4>2. QED
        BY <1>4, <1>6, <3>2, <4>1
    <3>3. QED
      BY <2>2, <3>1, <3>2 DEF Embed
  <2>3. CASE UpsertVectors(w)
    <3>1. CASE w = v
      <4>1. at'[v] = "rows" /\ payload(v)' = payload(v)
        BY <1>3, <2>3, <3>1 DEF UpsertVectors, Goto, payload
      <4>2. payload(v).contract_id \in DOMAIN contracts
        BY <1>2, <2>3, <3>1 DEF Progressed, UpsertVectors
      <4>3. Ids(payload(v)) \subseteq DOMAIN index'
        <5>1. payload(v) \in Payloads
          BY <2>3, <3>1, PayloadOf DEF RetrievalInv, UpsertVectors
        <5>2. DOMAIN index' = DOMAIN Records(payload(v)) \cup DOMAIN index
          BY <2>3, <3>1 DEF UpsertVectors, Upserted
        <5>3. QED
          BY <5>1, <5>2, RecordsProperties
      <4>4. QED
        BY <1>1, <4>1, <4>2, <4>3 DEF Progressed, Grow
    <3>2. QED
      BY <1>4, <1>6, <2>3, <3>1 DEF UpsertVectors
  <2>4. CASE InsertClause(w)
    BY <1>4, <2>4 DEF InsertClause
  <2>5. CASE Commit(w)
    BY <1>4, <1>5, <1>6, <1>7, <2>5 DEF Commit, Returns
  <2>6. QED
    BY <1>8, <2>1, <2>2, <2>3, <2>4, <2>5 DEF Step
<1>9. CASE Pipeline
  <2>1. CASE UNCHANGED handling
    BY <1>4, <2>1 DEF handling
  <2>2. ASSUME NEW w \in Workers, Fails(w)
        PROVE  Progressed(at[v], payload(v))'
    BY <1>4, <1>5, <1>6, <1>7, <2>2 DEF Fails
  <2>3. ASSUME NEW w \in Workers, NEW t \in inflight, Start(w, t)
        PROVE  Progressed(at[v], payload(v))'
    <3>1. CASE w = v
      BY <1>3, <1>5, <2>3, <3>1 DEF Start
    <3>2. CASE w # v
      BY <1>3, <1>4, <2>3, <3>2 DEF Start
    <3>3. QED
      BY <3>1, <3>2
  <2>4. QED
    BY <1>9, <2>1, <2>2, <2>3 DEF Pipeline
<1>10. ASSUME NEW a \in Reviews,
              Query(a) \/ ToolStep(a) \/ ToolFails(a) \/ \E id \in DOMAIN clauses : ReadClause(a, id)
       PROVE  UNCHANGED <<at, task>>
  <2>1. ReviewTypeOK
    BY DEF RetrievalInv, TypeOK, ReviewTypeOK
  <2>2. QED
    BY <1>10, <2>1, ReviewTypes DEF handling
<1>11. CASE UNCHANGED vars
  BY <1>4, <1>11 DEF vars, ivars, handling
<1>12. QED
  BY <1>4, <1>8, <1>9, <1>10, <1>11 DEF Next, WorkerStep

LEMMA ScoresStayRight ==
  ASSUME RetrievalInv, [Next]_vars
  PROVE  ScoresAreRight'
<1>1. DOMAIN clauses \subseteq DOMAIN clauses'
  BY StoresGrow DEF StoreEffect, Grow
<1>2. DOMAIN tool = Reviews /\ DOMAIN score = Reviews
  BY DEF RetrievalInv, TypeOK, ScoresAreRight
<1>3. DOMAIN score' = Reviews
  <2>1. CASE UNCHANGED toolVars
    BY <1>2, <2>1 DEF toolVars
  <2>2. ASSUME NEW a \in Reviews,
               Query(a) \/ ToolStep(a) \/ ToolFails(a) \/ \E id \in DOMAIN clauses : ReadClause(a, id)
        PROVE  DOMAIN score' = Reviews
    BY <1>2, <2>2 DEF Query, ToolStep, Hydrate, Update, CommitScore, ToolFails, ReadClause
  <2>3. QED
    BY <1>2, <2>1, <2>2 DEF Next, WorkerStep, vars, toolVars
<1> SUFFICES ASSUME NEW b \in Reviews, tool'[b] \in {"update", "commit"}
             PROVE  \E c \in AllClauses :
                      /\ c.clause_id \in DOMAIN clauses'
                      /\ score'[b] = [clause_id |-> c.clause_id, level |-> level(c.text)]
  BY <1>3 DEF ScoresAreRight
<1>4. CASE tool[b] \in {"update", "commit"} /\ score'[b] = score[b]
  BY <1>1, <1>4 DEF RetrievalInv, ScoresAreRight
<1>5. CASE tool'[b] = tool[b] /\ score'[b] = score[b]
  BY <1>4, <1>5
<1>6. CASE UNCHANGED toolVars
  BY <1>5, <1>6 DEF toolVars
<1>7. ASSUME NEW a \in Reviews, a # b,
             Query(a) \/ ToolStep(a) \/ ToolFails(a) \/ \E id \in DOMAIN clauses : ReadClause(a, id)
      PROVE  tool'[b] = tool[b] /\ score'[b] = score[b]
  BY <1>2, <1>7 DEF Query, ToolStep, Hydrate, Update, CommitScore, ToolFails, ReadClause,
                    Call, Await
<1>8. CASE Query(b) \/ Hydrate(b) \/ CommitScore(b) \/ ToolFails(b)
  BY <1>2, <1>8 DEF Query, Hydrate, CommitScore, ToolFails, Call, Await
<1>9. CASE Update(b)
  BY <1>4, <1>9 DEF Update
<1>10. ASSUME NEW id \in DOMAIN clauses, ReadClause(b, id)
       PROVE  \E c \in AllClauses :
                /\ c.clause_id \in DOMAIN clauses'
                /\ score'[b] = [clause_id |-> c.clause_id, level |-> level(c.text)]
  <2>1. PICK c \in AllClauses : RowOf(id, c)
    BY DEF RetrievalInv, RowsAreClauses
  <2>2. id = c.clause_id /\ clauses[id].text = c.text
    BY <2>1 DEF RowOf
  <2>3. score'[b] = [clause_id |-> id, level |-> level(clauses[id].text)]
    BY <1>2, <1>10 DEF ReadClause
  <2>4. QED
    BY <1>1, <2>2, <2>3
<1>11. QED
  BY <1>5, <1>6, <1>7, <1>8, <1>9, <1>10 DEF Next, WorkerStep, ToolStep, vars

(* What the index answers: top_k of its ids or all of them, the closest.   *)
LEMMA QueryProperties ==
  ASSUME IsFiniteSet(DOMAIN index), NEW m \in query
  PROVE  /\ \E k \in Nat : m \in [1 .. k -> DOMAIN index]
         /\ \A i, j \in DOMAIN m : i < j => closeness(m[i]) >= closeness(m[j])
         /\ \A id \in DOMAIN index \ Range(m) :
              /\ DOMAIN m = 1 .. TopK
              /\ \A i \in DOMAIN m : closeness(m[i]) >= closeness(id)
<1> DEFINE n == Cardinality(DOMAIN index)
           k == IF TopK < n THEN TopK ELSE n
<1>1. /\ m \in [1 .. k -> DOMAIN index]
      /\ \A i, j \in 1 .. k :
           i < j => m[i] # m[j] /\ closeness(m[i]) >= closeness(m[j])
      /\ \A id \in DOMAIN index \ Range(m), i \in 1 .. k :
           closeness(m[i]) >= closeness(id)
  BY DEF query
<1>2. n \in Nat
  BY FS_CardinalityType
<1>3. k \in Nat
  BY <1>2, RetrievalConstants
<1>4. ASSUME NEW id \in DOMAIN index \ Range(m)
      PROVE  k = TopK
  <2> SUFFICES ASSUME k = n
               PROVE  FALSE
    OBVIOUS
  <2> DEFINE T == DOMAIN index \ {id}
  <2>1. IsFiniteSet(T) /\ Cardinality(T) = n - 1
    BY FS_RemoveElement
  <2>2. IsFiniteSet(1 .. n) /\ Cardinality(1 .. n) = n
    <3>1. 1 \in Int /\ n \in Int
      BY <1>2
    <3> HIDE DEF n
    <3>2. QED
      BY <1>2, <3>1, FS_Interval
  <2>3. m \in [1 .. n -> T]
    <3>1. \A i \in 1 .. n : m[i] \in T
      BY <1>1 DEF Range
    <3>2. QED
      BY <1>1, <3>1
  <2>4. Cardinality(T) < Cardinality(1 .. n)
    BY <1>2, <2>1, <2>2
  <2>5. PICK x \in 1 .. n, y \in 1 .. n : x # y /\ m[x] = m[y]
    <3> HIDE DEF T, n
    <3>1. QED
      BY <2>1, <2>2, <2>3, <2>4, FS_PigeonHole
  <2>6. QED
    BY <1>1, <1>2, <2>5
<1> HIDE DEF k
<1>5. DOMAIN m = 1 .. k
  BY <1>1
<1>6. QED
  BY <1>1, <1>3, <1>4, <1>5

LEMMA QueryIsBest ==
  ASSUME RetrievalInv, NEW a \in Reviews, Query(a)
  PROVE  BestMatches(found[a].matches, found[a].before)'
<1> DEFINE hit(m) == [i \in DOMAIN m |-> [id |-> m[i], score |-> closeness(m[i])]]
<1>1. PICK m \in query : found' = [found EXCEPT ![a] = [matches |-> hit(m), before |-> finished]]
  BY DEF Query
<1>2. IsFiniteSet(DOMAIN index)
  BY DEF RetrievalInv, VectorsAreEmbeddings
<1>3. PICK k \in Nat : m \in [1 .. k -> DOMAIN index]
  BY <1>2, QueryProperties
<1>4. /\ \A i, j \in DOMAIN m : i < j => closeness(m[i]) >= closeness(m[j])
      /\ \A id \in DOMAIN index \ Range(m) :
           /\ DOMAIN m = 1 .. TopK
           /\ \A i \in DOMAIN m : closeness(m[i]) >= closeness(id)
  BY <1>2, QueryProperties
<1> DEFINE ms == hit(m)
<1>5. DOMAIN ms = 1 .. k /\ DOMAIN m = 1 .. k
  BY <1>3
<1>6. \A i \in DOMAIN m : ms[i].id = m[i] /\ ms[i].score = closeness(m[i])
  OBVIOUS
<1>7. ms \in Seq(ToSet(ms)) /\ Len(ms) = k
  <2>1. \A i \in 1 .. k : ms[i] \in ToSet(ms)
    BY <1>5 DEF ToSet
  <2>2. ms = [i \in 1 .. k |-> ms[i]]
    BY <1>5
  <2> HIDE DEF ms
  <2>3. QED
    BY <1>3, <2>1, <2>2, <1>5, SeqDef, LenProperties
<1>8. ASSUME NEW c \in AllClauses, c.clause_id \in DOMAIN index
      PROVE  closeness(c.clause_id) = Similarity[Embedding(c.text)]
  <2>1. PICK d \in AllClauses : c.clause_id = d.clause_id /\ index[c.clause_id] = Embedding(d.text)
    BY <1>8 DEF RetrievalInv, VectorsAreEmbeddings
  <2>2. c.text = d.text
    BY <2>1, IdIsClause
  <2>3. QED
    BY <2>1, <2>2 DEF closeness
<1>9. ASSUME NEW i \in DOMAIN ms
      PROVE  \E c \in AllClauses :
               ms[i].id = c.clause_id /\ ms[i].score = Similarity[Embedding(c.text)]
  <2>1. i \in DOMAIN m /\ m[i] \in DOMAIN index
    BY <1>3, <1>5
  <2>2. PICK c \in AllClauses : m[i] = c.clause_id
    BY <2>1 DEF RetrievalInv, VectorsAreEmbeddings
  <2> HIDE DEF ms
  <2>3. QED
    BY <1>6, <1>8, <2>1, <2>2
<1>10. ASSUME NEW p \in finished, NEW c \in ToSet(p.clauses),
              c.clause_id \notin {ms[i].id : i \in DOMAIN ms}
       PROVE  /\ Len(ms) = TopK
              /\ \A i \in DOMAIN ms : ms[i].score >= Similarity[Embedding(c.text)]
  <2>1. p \in Payloads /\ Ids(p) \subseteq DOMAIN index
    BY DEF RetrievalInv, FinishedIsWhole, Whole
  <2>2. c \in AllClauses /\ c.clause_id \in DOMAIN index
    BY <2>1, IdsProperties
  <2>3. c.clause_id \notin Range(m)
    BY <1>6, <1>10 DEF Range
  <2>4. DOMAIN m = 1 .. TopK /\ \A i \in DOMAIN m : closeness(m[i]) >= closeness(c.clause_id)
    BY <1>4, <2>2, <2>3
  <2>5. k = TopK
    BY <1>5, <2>4, RetrievalConstants
  <2> HIDE DEF ms
  <2>6. QED
    BY <1>5, <1>6, <1>7, <1>8, <2>2, <2>4, <2>5
<1>11. \A i, j \in DOMAIN ms : i < j => ms[i].score >= ms[j].score
  BY <1>4, <1>5, <1>6
<1>12. found'[a].matches = ms /\ found'[a].before = finished /\ finished' = finished
  BY <1>1 DEF Query, ivars, RetrievalInv, MatchesAreBest
<1> HIDE DEF ms
<1>13. QED
  BY <1>7, <1>9, <1>10, <1>11, <1>12 DEF BestMatches

LEMMA MatchesStayBest ==
  ASSUME RetrievalInv, [Next]_vars
  PROVE  MatchesAreBest'
<1>1. finished \subseteq finished'
  BY FinishedStaysWhole
<1>2. DOMAIN tool = Reviews /\ DOMAIN found = Reviews
  BY DEF RetrievalInv, TypeOK, MatchesAreBest
<1>3. DOMAIN found' = Reviews
  <2>1. CASE UNCHANGED toolVars
    BY <1>2, <2>1 DEF toolVars
  <2>2. ASSUME NEW a \in Reviews,
               Query(a) \/ ToolStep(a) \/ ToolFails(a) \/ \E id \in DOMAIN clauses : ReadClause(a, id)
        PROVE  DOMAIN found' = Reviews
    BY <1>2, <2>2 DEF Query, ToolStep, Hydrate, Update, CommitScore, ToolFails, ReadClause
  <2>3. QED
    BY <1>2, <2>1, <2>2 DEF Next, WorkerStep, vars, toolVars
<1> SUFFICES ASSUME NEW b \in Reviews, tool'[b] = "hydrate"
             PROVE  BestMatches(found[b].matches, found[b].before)'
  BY <1>3 DEF MatchesAreBest
<1>4. CASE tool'[b] = tool[b] /\ found'[b] = found[b]
  <2>1. BestMatches(found[b].matches, found[b].before)
    BY <1>4 DEF RetrievalInv, MatchesAreBest
  <2>2. QED
    BY <1>1, <1>4, <2>1 DEF BestMatches
<1>5. CASE UNCHANGED toolVars
  BY <1>4, <1>5 DEF toolVars
<1>6. ASSUME NEW a \in Reviews, a # b,
             Query(a) \/ ToolStep(a) \/ ToolFails(a) \/ \E id \in DOMAIN clauses : ReadClause(a, id)
      PROVE  tool'[b] = tool[b] /\ found'[b] = found[b]
  BY <1>2, <1>6 DEF Query, ToolStep, Hydrate, Update, CommitScore, ToolFails, ReadClause,
                    Call, Await
<1>7. CASE Query(b)
  BY <1>7, QueryIsBest
<1>8. CASE ToolStep(b) \/ ToolFails(b) \/ \E id \in DOMAIN clauses : ReadClause(b, id)
  BY <1>2, <1>8 DEF ToolStep, Hydrate, Update, CommitScore, ToolFails, ReadClause, Call, Await
<1>9. QED
  BY <1>4, <1>5, <1>6, <1>7, <1>8 DEF Next, WorkerStep, vars

-----------------------------------------------------------------------------
(* The invariant holds.                                                    *)

LEMMA InvInit == RetrievalInit => RetrievalInv
<1> SUFFICES ASSUME RetrievalInit
             PROVE  RetrievalInv
  OBVIOUS
<1>1. DOMAIN contracts = {} /\ DOMAIN clauses = {} /\ DOMAIN index = {}
  BY DEF RetrievalInit, Init
<1>2. TypeOK
  BY <1>1, RetrievalConstants DEF TypeOK, RetrievalInit, Init, DriverInit, Points, ToolPoints
<1>3. VectorsAreEmbeddings
  BY <1>1, FS_EmptySet DEF VectorsAreEmbeddings
<1>4. HandlersProgress /\ FinishedIsWhole
  BY DEF HandlersProgress, FinishedIsWhole, RetrievalInit, Init
<1>5. ScoresAreRight /\ MatchesAreBest
  BY DEF ScoresAreRight, MatchesAreBest, RetrievalInit
<1>6. QED
  BY <1>1, <1>2, <1>3, <1>4, <1>5 DEF RetrievalInv, RowsAreClauses, RowsAreWhole, ContractsAreParsed

LEMMA InvInductive == RetrievalInv /\ [Next]_vars => RetrievalInv'
<1> SUFFICES ASSUME RetrievalInv, [Next]_vars
             PROVE  RetrievalInv'
  OBVIOUS
<1>1. (RowsAreClauses /\ VectorsAreEmbeddings /\ ContractsAreParsed)'
  BY StoresGrow DEF StoreEffect
<1>2. QED
  BY <1>1, TypesInductive, RowsStayWhole, FinishedStaysWhole, HandlersStayRight,
     ScoresStayRight, MatchesStayBest
  DEF RetrievalInv

LEMMA RetrievalInvariant == Spec => []RetrievalInv
BY InvInit, InvInductive, PTL DEF Spec

-----------------------------------------------------------------------------
(* Its consequences.                                                       *)

(* The values of the variables are those TypeOK names, throughout.         *)
THEOREM RetrievalTypes == Spec => []TypeOK
<1>1. RetrievalInv => TypeOK
  BY DEF RetrievalInv
<1>2. QED
  BY <1>1, RetrievalInvariant, PTL

LEMMA WholeIsStored ==
  ASSUME RowsAreClauses, VectorsAreEmbeddings, NEW p \in Payloads, Whole(p)
  PROVE  Stored(p)
<1> SUFFICES ASSUME NEW c \in ToSet(p.clauses)
             PROVE  /\ c.clause_id \in DOMAIN clauses \cap DOMAIN index
                    /\ clauses[c.clause_id].text = c.text
                    /\ index[c.clause_id] = Embedding(c.text)
  BY DEF Whole, Stored
<1>1. c \in AllClauses /\ c.clause_id \in DOMAIN clauses /\ c.clause_id \in DOMAIN index
  BY IdsProperties DEF Whole
<1>2. PICK d \in AllClauses : RowOf(c.clause_id, d)
  BY <1>1 DEF RowsAreClauses
<1>3. clauses[c.clause_id].text = d.text /\ c.clause_id = d.clause_id
  BY <1>2 DEF RowOf
<1>4. PICK e \in AllClauses : c.clause_id = e.clause_id /\ index[c.clause_id] = Embedding(e.text)
  BY <1>1 DEF VectorsAreEmbeddings
<1>5. c.text = d.text /\ c.text = e.text
  BY <1>1, <1>3, <1>4, IdIsClause
<1>6. QED
  BY <1>1, <1>3, <1>4, <1>5

(* What a handler has returned for stays stored in full, each clause with  *)
(* its own text and vector: no retry, no concurrent run of the contract or *)
(* of another version, and no failure in one of them takes any of it away  *)
(* (scripts/ingest_worker.py:12-13).                                       *)
THEOREM IngestionLasts == Spec => []FinishedStaysComplete
<1>1. RetrievalInv => FinishedStaysComplete
  BY WholeIsStored DEF RetrievalInv, FinishedIsWhole, FinishedStaysComplete
<1>2. QED
  BY <1>1, RetrievalInvariant, PTL

(* An extraction never shows half of a contract (retrieval/tools.py,       *)
(* extract_clauses beside handle_ingest_contract's one transaction).       *)
THEOREM ExtractionsAreWhole == Spec => []ClausesAreWhole
<1>1. RetrievalInv => ClausesAreWhole
  <2> SUFFICES ASSUME RetrievalInv, NEW p \in Payloads, NEW c \in ToSet(p.clauses),
                      NEW id \in extract_clauses(p.contract_id, c.category)
               PROVE  \E q \in Payloads :
                        /\ id \in {d.clause_id : d \in {d \in ToSet(q.clauses) : d.category = c.category}}
                        /\ {d.clause_id : d \in {d \in ToSet(q.clauses) : d.category = c.category}}
                             \subseteq extract_clauses(p.contract_id, c.category)
                        /\ Stored(q)
    BY DEF ClausesAreWhole
  <2>1. id \in DOMAIN clauses /\ clauses[id].contract_id = p.contract_id
        /\ clauses[id].category = c.category
    BY DEF extract_clauses
  <2>2. PICK q \in Payloads : id \in Ids(q) /\ Whole(q)
    BY <2>1 DEF RetrievalInv, RowsAreWhole
  <2>3. Stored(q)
    BY <2>2, WholeIsStored DEF RetrievalInv
  <2>4. ASSUME NEW d \in ToSet(q.clauses)
        PROVE  /\ d.clause_id \in DOMAIN clauses
               /\ clauses[d.clause_id].contract_id = q.contract_id
               /\ clauses[d.clause_id].category = d.category
    <3>1. d \in AllClauses /\ d.contract_id = q.contract_id /\ d.clause_id \in DOMAIN clauses
      BY <2>2, IdsProperties DEF Whole
    <3>2. PICK e \in AllClauses : RowOf(d.clause_id, e)
      BY <3>1 DEF RetrievalInv, RowsAreClauses
    <3>3. /\ d.clause_id = e.clause_id
          /\ clauses[d.clause_id].contract_id = e.contract_id
          /\ clauses[d.clause_id].category = e.category
      BY <3>2 DEF RowOf
    <3>4. QED
      BY <3>1, <3>3, IdIsClause
  <2>5. PICK d \in ToSet(q.clauses) : id = d.clause_id
    BY <2>2, IdsProperties
  <2>6. q.contract_id = p.contract_id /\ d.category = c.category
    BY <2>1, <2>4, <2>5
  <2>7. {e.clause_id : e \in {e \in ToSet(q.clauses) : e.category = c.category}}
          \subseteq extract_clauses(p.contract_id, c.category)
    BY <2>4, <2>6 DEF extract_clauses
  <2>8. QED
    BY <2>3, <2>5, <2>6, <2>7
<1>2. QED
  BY <1>1, RetrievalInvariant, PTL

(* The matches that have a row, each once and in their order.              *)
LEMMA HydratedProperties ==
  ASSUME NEW T, NEW ms \in Seq(T)
  PROVE  LET places == {i \in DOMAIN ms : ms[i].id \in DOMAIN clauses}
             r == Hydrated(ms)
         IN  \E place \in [DOMAIN r -> places] :
               /\ \A i \in DOMAIN r : r[i] = ms[place[i]]
               /\ \A i, j \in DOMAIN r : i < j => place[i] < place[j]
               /\ \A m \in places : \E i \in DOMAIN r : place[i] = m
<1> DEFINE places == {i \in DOMAIN ms : ms[i].id \in DOMAIN clauses}
           r == Hydrated(ms)
<1>1. places \in SUBSET DOMAIN ms /\ r = Kept(ms, places)
  BY DEF Hydrated
<1> HIDE DEF places, r
<1>2. \E place \in [DOMAIN r -> places] :
        /\ \A i \in DOMAIN r : r[i] = ms[place[i]]
        /\ \A i, j \in DOMAIN r : i < j => place[i] < place[j]
        /\ \A m \in places : \E i \in DOMAIN r : place[i] = m
  BY SMTT(30), <1>1, KeptProperties
<1>3. QED
  BY <1>2 DEF places, r

(* A search returns what was there to be found, unless top_k matches are   *)
(* at least as close, best first and each with the score of its own text   *)
(* (retrieval/tools.py, search_similar_clauses).                           *)
THEOREM SearchesMissNothing == Spec => []SearchMissesNothing
<1>1. RetrievalInv => SearchMissesNothing
  <2> SUFFICES ASSUME RetrievalInv, NEW a \in Reviews, tool[a] = "hydrate"
               PROVE  LET r == results(a)
                          ms == found[a].matches
                          ids == {r[i].id : i \in DOMAIN r}
                      IN  /\ \A i, j \in DOMAIN r : i < j => r[i].score >= r[j].score
                          /\ \A i \in DOMAIN r :
                               r[i].score = Similarity[Embedding(clauses[r[i].id].text)]
                          /\ \A c \in found[a].before : \A id \in Ids(c) \ ids :
                               /\ Len(ms) = TopK
                               /\ \A i \in DOMAIN ms :
                                    ms[i].score >= Similarity[Embedding(Rows(c)[id].text)]
    BY DEF SearchMissesNothing
  <2> DEFINE ms == found[a].matches
             places == {i \in DOMAIN ms : ms[i].id \in DOMAIN clauses}
             r == Kept(ms, places)
             ids == {r[i].id : i \in DOMAIN r}
  <2>1. results(a) = r
    BY DEF results, Hydrated
  <2>2. BestMatches(ms, found[a].before)
    BY DEF RetrievalInv, MatchesAreBest
  <2> HIDE DEF ms
  <2>3. PICK place \in [DOMAIN r -> places] :
          /\ \A i \in DOMAIN r : r[i] = ms[place[i]]
          /\ \A i, j \in DOMAIN r : i < j => place[i] < place[j]
          /\ \A m \in places : \E i \in DOMAIN r : place[i] = m
    <3>1. ms \in Seq(ToSet(ms))
      BY <2>2 DEF BestMatches
    <3>2. r = Hydrated(ms)
      BY DEF Hydrated
    <3> HIDE DEF r
    <3>3. QED
      BY <3>1, <3>2, HydratedProperties
  <2> HIDE DEF r
  <2>4. \A i, j \in DOMAIN r : i < j => r[i].score >= r[j].score
    BY <2>2, <2>3 DEF BestMatches
  <2>5. ASSUME NEW i \in DOMAIN r
        PROVE  r[i].score = Similarity[Embedding(clauses[r[i].id].text)]
    <3>1. r[i].id \in DOMAIN clauses
      BY <2>3
    <3>2. PICK c \in AllClauses : r[i].id = c.clause_id /\ r[i].score = Similarity[Embedding(c.text)]
      BY <2>2, <2>3 DEF BestMatches
    <3>3. PICK d \in AllClauses : RowOf(r[i].id, d)
      BY <3>1 DEF RetrievalInv, RowsAreClauses
    <3>4. r[i].id = d.clause_id /\ clauses[r[i].id].text = d.text
      BY <3>3 DEF RowOf
    <3>5. c.text = d.text
      BY <3>2, <3>4, IdIsClause
    <3>6. QED
      BY <3>2, <3>4, <3>5
  <2>6. ASSUME NEW p \in found[a].before, NEW id \in Ids(p) \ ids
        PROVE  /\ Len(ms) = TopK
               /\ \A i \in DOMAIN ms : ms[i].score >= Similarity[Embedding(Rows(p)[id].text)]
    <3>1. p \in Payloads /\ Ids(p) \subseteq DOMAIN clauses
      BY <2>2 DEF BestMatches, RetrievalInv, FinishedIsWhole, Whole
    <3>2. PICK c \in ToSet(p.clauses) : id = c.clause_id
      BY <3>1, IdsProperties
    <3>3. Rows(p)[id].text = c.text
      <4>1. Rows(p)[c.clause_id] =
              [contract_id |-> c.contract_id, category |-> c.category,
               text |-> c.text, risk_level |-> NULL]
        BY <3>1, RowsProperties
      <4>2. QED
        BY <3>2, <4>1
    <3>4. \A i \in DOMAIN ms : ms[i].id # id
      <4> SUFFICES ASSUME NEW i \in DOMAIN ms, ms[i].id = id
                   PROVE  FALSE
        OBVIOUS
      <4>1. i \in places
        BY <3>1
      <4>2. PICK j \in DOMAIN r : r[j] = ms[i]
        BY <2>3, <4>1
      <4>3. QED
        BY <4>2
    <3>5. QED
      BY <2>2, <3>2, <3>3, <3>4 DEF BestMatches
  <2>7. QED
    BY <2>1, <2>4, <2>5, <2>6 DEF ms
<1>2. QED
  BY <1>1, RetrievalInvariant, PTL

(* No clause ever has the score of another text than the one in its row    *)
(* (retrieval/tools.py:149): the text and the score that is computed from  *)
(* it are read and written in different sessions, but both belong to the   *)
(* clause that the id stands for.                                          *)
THEOREM RisksAreOfTexts == Spec => []RiskIsOfText
<1>1. RetrievalInv => RiskIsOfText
  <2> SUFFICES ASSUME RetrievalInv, NEW id \in DOMAIN clauses
               PROVE  clauses[id].risk_level \in {NULL, level(clauses[id].text)}
    BY DEF RiskIsOfText
  <2>1. PICK c \in AllClauses : RowOf(id, c)
    BY DEF RetrievalInv, RowsAreClauses
  <2>2. PICK risk \in {NULL, level(c.text)} :
          clauses[id] = [contract_id |-> c.contract_id, category |-> c.category,
                         text |-> c.text, risk_level |-> risk]
    BY <2>1 DEF RowOf
  <2>3. QED
    BY <2>2
<1>2. QED
  BY <1>1, RetrievalInvariant, PTL

(* ON CONFLICT DO UPDATE SET text leaves a score alone: no ingestion takes *)
(* one away again.                                                         *)
THEOREM RisksStay == Spec => RiskIsKept
<1>1. RetrievalInv /\ [Next]_vars =>
        [\A id \in DOMAIN clauses : clauses[id].risk_level # NULL =>
           id \in DOMAIN clauses' /\ clauses'[id].risk_level # NULL]_vars
  <2> SUFFICES ASSUME RetrievalInv, [Next]_vars, NEW id \in DOMAIN clauses,
                      clauses[id].risk_level # NULL
               PROVE  id \in DOMAIN clauses' /\ clauses'[id].risk_level # NULL
    OBVIOUS
  <2>1. StoreEffect
    BY StoresGrow
  <2>2. QED
    BY <2>1 DEF StoreEffect, Grow, RisksKept
<1>2. QED
  BY <1>1, RetrievalInvariant, PTL DEF Spec, RiskIsKept

LEMMA UptoIsSeq ==
  ASSUME NEW S, NEW s \in Upto(S)
  PROVE  s \in Seq(S)
BY ParsingConstants, SeqDef DEF Upto

(* What the runs check of parse_cuad over bounded entries                  *)
(* (parser.py:65-103), for every bound.                                    *)
THEOREM ParserIsFaithful == Spec => []ParsesFaithfully
<1>1. AllFaithful
  BY UptoIsSeq, ParsingIsFaithful DEF AllFaithful
<1>2. ParsesFaithfully
  BY <1>1 DEF ParsesFaithfully
<1>3. QED
  BY <1>2, PTL

(* What the runs check of embed over bounded inputs (embedder.py:45-56),   *)
(* for every bound.                                                        *)
THEOREM EmbedderKeepsOrder == Spec => []EmbedsInOrder
<1>1. AllInOrder
  <2> SUFFICES ASSUME NEW texts \in Upto(DOMAIN Strip), NEW size \in 1 .. MaxInput
               PROVE  embed(texts, size) = [i \in DOMAIN texts |-> Embedding(texts[i])]
    BY DEF AllInOrder
  <2>1. texts \in Seq(DOMAIN Strip) /\ size \in Nat \ {0}
    BY UptoIsSeq, ParsingConstants
  <2>2. QED
    BY <2>1, EmbedReturnsEachVector
<1>2. EmbedsInOrder
  BY <1>1 DEF EmbedsInOrder
<1>3. QED
  BY <1>2, PTL

=============================================================================

------------------------------ MODULE Parsing ------------------------------
(***************************************************************************)
(* The pure functions of ingestion: parse_cuad of src/legallens/ingestion/ *)
(* parser.py, which turns an entry of the CUAD file into a contract's      *)
(* clauses, and the embedding of their texts in chunks (embedder.py).      *)
(*                                                                         *)
(* An entry is its title and its answers [question, text], in the order in *)
(* which parse_cuad walks paragraphs, questions and answers.               *)
(***************************************************************************)
EXTENDS Sorting, Sequences, SequencesExt

CONSTANTS
  Files,         \* the CUAD files: an entry sequence for each version
  Category,      \* question -> the tag that the regular expression finds in it
  Strip,         \* text -> the text without the blanks around it
  MaxChunk,      \* how many texts Cohere takes per call (96)
  MaxInput       \* bound on the inputs over which the functions are checked

Answers == [question : DOMAIN Category, text : DOMAIN Strip]

ASSUME ParsingConstants ==
  /\ MaxChunk \in Nat \ {0}
  /\ MaxInput \in Nat
  /\ \A f \in DOMAIN Files :
       /\ Files[f] \in Seq(ToSet(Files[f]))
       /\ \A entry \in ToSet(Files[f]) : entry.answers \in Seq(Answers)

(* SHA-1, cut to 64 bits for contracts and to 40 for the clauses of one    *)
(* contract, is taken not to collide.                                      *)
Digest(key) == <<"sha1", key>>
ContractId(title) == Digest(<<title>>)

(* Mutant: two spans of a category share an id. *)
ClauseIdByCategory(contract_id, category, text) ==
  <<contract_id, Digest(<<contract_id, category>>)>>

ClauseId(contract_id, category, text) ==
  <<contract_id, Digest(<<contract_id, category, text>>)>>

(* The spans of an entry. *)
Spans(entry) ==
  LET cid == ContractId(entry.title)
      clause(a) ==
        [clause_id |-> ClauseId(cid, Category[a.question], Strip[a.text]),
         contract_id |-> cid,
         category |-> Category[a.question],
         text |-> Strip[a.text]]
  IN  [i \in DOMAIN entry.answers |-> clause(entry.answers[i])]

(* Mutant: identical texts once, whatever their categories. *)
UniqueByText(spans) ==
  LET seen(i) == {spans[j].text : j \in 1 .. i - 1}
  IN  Kept(spans, {i \in DOMAIN spans : spans[i].text \notin seen(i) \cup {""}})

(* Blank spans left out, and identical ones once: the first of them, in    *)
(* the order of the entry.                                                 *)
Unique(spans) ==
  LET seen(i) == {spans[j].clause_id : j \in 1 .. i - 1}
  IN  Kept(spans, {i \in DOMAIN spans :
                     spans[i].text # "" /\ spans[i].clause_id \notin seen(i)})

parse_cuad(file) ==
  [n \in DOMAIN file |->
     [contract_id |-> ContractId(file[n].title),
      filename |-> file[n].title,
      clauses |-> Unique(Spans(file[n]))]]

Parsed == [f \in DOMAIN Files |-> parse_cuad(Files[f])]

-----------------------------------------------------------------------------

(* The model's vector of a text, alike in every call. *)
Embedding(text) == <<"vector", text>>

(* Mutant: the slice ends one text early. *)
ChunksShort(texts, size) ==
  LET calls == (Len(texts) + size - 1) \div size
      end(n) == IF n * size < Len(texts) THEN n * size - 1 ELSE Len(texts)
  IN  [n \in 1 .. calls |-> SubSeq(texts, (n - 1) * size + 1, end(n))]

(* The calls that embed makes: texts[i : i + size] for every size-th i. *)
Chunks(texts, size) ==
  LET calls == (Len(texts) + size - 1) \div size
      end(n) == IF n * size < Len(texts) THEN n * size ELSE Len(texts)
  IN  [n \in 1 .. calls |-> SubSeq(texts, (n - 1) * size + 1, end(n))]

(* out: the responses, one after the other. *)
embed(texts, size) ==
  LET calls == Chunks(texts, size)
      resp(n) == [i \in DOMAIN calls[n] |-> Embedding(calls[n][i])]
      out[n \in 0 .. Len(calls)] == IF n = 0 THEN <<>> ELSE out[n - 1] \o resp(n)
  IN  out[Len(calls)]

-----------------------------------------------------------------------------
(* The functions against their definitions, over inputs up to MaxInput.    *)

Upto(S) == UNION {[1 .. n -> S] : n \in 0 .. MaxInput}

(* "collect its answer spans grouped by category" (parser.py:12): whatever *)
(* an entry repeats and however its spans are padded, every category and   *)
(* text of it that is not blank makes one clause, the clauses come in the  *)
(* order in which the entry first has them, and no two share an id.        *)
Faithful(answers) ==
  LET cs == parse_cuad(<<[title |-> "A", answers |-> answers]>>)[1].clauses
      span(a) == <<Category[a.question], Strip[a.text]>>
      is(i, n) == span(answers[n]) = <<cs[i].category, cs[i].text>>
  IN  /\ \A n \in DOMAIN answers :
           Strip[answers[n].text] # "" => \E i \in DOMAIN cs : is(i, n)
      /\ \A i \in DOMAIN cs : cs[i].text # "" /\ \E n \in DOMAIN answers : is(i, n)
      /\ \A i, j \in DOMAIN cs : i < j =>
           /\ cs[i].clause_id # cs[j].clause_id
           /\ \A m \in DOMAIN answers : is(j, m) => \E n \in 1 .. m : is(i, n)

AllFaithful ==
  \A answers \in Upto(Answers) : Faithful(answers)

(* The vectors are those of the texts, one each and in their order,        *)
(* wherever the chunks of 96 end: zip(clauses, vectors) neither shifts nor *)
(* drops one.                                                              *)
AllInOrder ==
  \A texts \in Upto(DOMAIN Strip), size \in 1 .. MaxInput :
    embed(texts, size) = [i \in DOMAIN texts |-> Embedding(texts[i])]

=============================================================================

---------------------------- MODULE MCRetrieval ----------------------------
(* Two versions of a file.  In the first, contract A has two clauses, one  *)
(* of them twice and once with blanks around it, and contract B none; in   *)
(* the second, A's first clause was replaced.                              *)
EXTENDS Retrieval

Answer(q, t) == [question |-> q, text |-> t]

MCFiles ==
  << <<[title |-> "A", answers |->
          <<Answer("q1", "perpetual"), Answer("q1", " perpetual "), Answer("q2", " "),
            Answer("q2", "breach")>>],
       [title |-> "B", answers |-> <<>>]>>,
     <<[title |-> "A", answers |->
          <<Answer("q1", "routine"), Answer("q2", "breach")>>]>> >>

MCTexts == {"perpetual", " perpetual ", " ", "breach", "routine"}
MCCategory == [q \in {"q1", "q2", "q3"} |-> IF q = "q3" THEN "term" ELSE "license"]
MCStrip ==
  [t \in MCTexts |-> CASE t = " perpetual " -> "perpetual" [] t = " " -> "" [] OTHER -> t]
MCHighTerms == {"perpetual"}
MCMediumTerms == {"breach"}
MCSimilarity ==
  [v \in {Embedding(t) : t \in MCTexts} |->
     CASE v = Embedding("breach") -> 3 [] v = Embedding("perpetual") -> 2 [] OTHER -> 1]

=============================================================================

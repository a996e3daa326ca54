--------------------------- MODULE MCVectorStore ---------------------------
(* A contract, and a later version of it that shares one clause with the   *)
(* first: its upsert overwrites one row and appends another.               *)
EXTENDS VectorStore

MCBatches == {<<"a1", "a2">>, <<"a2", "a3">>}
MCScore == [a1 |-> 1, a2 |-> 2, a3 |-> 2]

=============================================================================

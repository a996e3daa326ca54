----------------------------- MODULE MCHashRing -----------------------------
(* A ring of seven workers with two virtual nodes each, scattered over     *)
(* 1..28 so that every worker's arcs interleave with the others', and a    *)
(* key at every position from 0 to 29: before the first virtual node, on   *)
(* each of them, between any two and after the last.                       *)
EXTENDS HashRing

MCWorkers == 1 .. 7
MCKeys == 0 .. 29
MCVirtualNodes == 2
MCVNodeHash ==
  [p \in MCWorkers \X {0, 1} |-> 1 + ((p[1] * 11 + p[2] * 14) % 28)]
MCKeyHash == [k \in MCKeys |-> k]
MCNone == 0

=============================================================================

------------------------------ MODULE MCCluster ------------------------------
(* Two workers with two virtual nodes each whose arcs alternate around the *)
(* ring, so that a key between them changes owner when either joins.       *)
EXTENDS Cluster

CONSTANTS w1, w2, t1, t2, t3

MCKeys == {"c1", "c2"}
MCVirtualNodes == 2
MCVNodeHash ==
  [p \in Workers \X {0, 1} |-> 2 * p[2] + IF p[1] = w1 THEN 1 ELSE 2]
MCKeyHash == [k \in MCKeys |-> IF k = "c1" THEN 1 ELSE 4]
MCRoutingKey == [t \in Tasks |-> IF t = t3 THEN "c2" ELSE "c1"]

=============================================================================

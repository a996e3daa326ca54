--------------------------- MODULE Cluster_proofs ---------------------------
(***************************************************************************)
(* For every set of workers, dispatchers and tasks, every hash and batch   *)
(* size, with or without failovers: a task is only ever had by the worker  *)
(* that the dispatcher's ring named, two workers share a contract only     *)
(* when the rings that routed its tasks differed, and a worker that is     *)
(* gone from the rings is routed nothing again.                            *)
(***************************************************************************)
EXTENDS Cluster, Membership_proofs, Ring_proofs, SequenceTheorems

(* Every step of the pipeline is one of Membership or leaves it alone. *)
LEMMA ClusterStep ==
  ASSUME [ClusterNext]_cvars
  PROVE  [Next]_mvars
<1>1. ASSUME NEW w \in Workers,
             \/ Pop(w) \/ PopLosesTask(w) \/ HandleReturns(w) \/ Killed(w)
             \/ WorkerStep(w) \/ Replicate(w)
      PROVE  [Next]_mvars
  BY <1>1 DEF Pop, PopLosesTask, HandleReturns, Killed, WorkerStep, Replicate,
              Next, WorkerNext
<1>2. ASSUME NEW r \in Registries,
             \/ \E T \in Batches : Dispatch(r, T)
             \/ Push(r) \/ PushLost(r)
             \/ \E t \in Refreshers : RegistryStep(r, t)
      PROVE  [Next]_mvars
  BY <1>2 DEF Dispatch, Send, Push, PushLost, RegistryStep, Next
<1>3. CASE Promote
  BY <1>3 DEF Promote, Next
<1>4. CASE UNCHANGED cvars
  BY <1>4 DEF cvars
<1>5. QED
  BY <1>1, <1>2, <1>3, <1>4 DEF ClusterNext

-----------------------------------------------------------------------------
(* The elements of the lists that RPUSH and BLPOP leave.                   *)

LEMMA ElementsEmpty == Elements(<<>>) = {}
BY DEF Elements

LEMMA ElementsConcat ==
  ASSUME NEW S, NEW s \in Seq(S), NEW u \in Seq(S)
  PROVE  s \o u \in Seq(S) /\ Elements(s \o u) = Elements(s) \cup Elements(u)
<1>1. s \o u \in Seq(S) /\ Len(s \o u) = Len(s) + Len(u)
  BY ConcatProperties
<1>2. ASSUME NEW i \in DOMAIN (s \o u)
      PROVE  (s \o u)[i] \in Elements(s) \cup Elements(u)
  <2>1. i \in 1 .. Len(s) + Len(u) /\ Len(s) \in Nat /\ Len(u) \in Nat
    BY <1>1, <1>2, LenProperties
  <2>2. (s \o u)[i] = IF i =< Len(s) THEN s[i] ELSE u[i - Len(s)]
    BY <2>1, ConcatProperties
  <2>3. CASE i =< Len(s)
    BY <2>1, <2>2, <2>3 DEF Elements
  <2>4. CASE ~(i =< Len(s))
    <3>1. i - Len(s) \in 1 .. Len(u)
      BY <2>1, <2>4
    <3>2. QED
      BY <2>2, <2>4, <3>1 DEF Elements
  <2>5. QED
    BY <2>3, <2>4
<1>3. \A i \in DOMAIN s : i \in DOMAIN (s \o u) /\ (s \o u)[i] = s[i]
  BY <1>1, LenProperties, ConcatProperties
<1>4. ASSUME NEW i \in DOMAIN u
      PROVE  i + Len(s) \in DOMAIN (s \o u) /\ (s \o u)[i + Len(s)] = u[i]
  <2>1. /\ i \in 1 .. Len(u) /\ Len(s) \in Nat /\ Len(u) \in Nat
        /\ DOMAIN (s \o u) = 1 .. Len(s) + Len(u)
    BY <1>1, <1>4, LenProperties
  <2>2. /\ i + Len(s) \in 1 .. Len(s) + Len(u) /\ ~(i + Len(s) =< Len(s))
        /\ (i + Len(s)) - Len(s) = i
    BY <2>1
  <2>3. (s \o u)[i + Len(s)] = u[(i + Len(s)) - Len(s)]
    BY <2>2, ConcatProperties
  <2>4. QED
    BY <2>1, <2>2, <2>3
<1>5. Elements(s) \subseteq Elements(s \o u) /\ Elements(u) \subseteq Elements(s \o u)
  BY <1>3, <1>4 DEF Elements
<1>6. Elements(s \o u) \subseteq Elements(s) \cup Elements(u)
  BY <1>2 DEF Elements
<1>7. QED
  BY <1>1, <1>5, <1>6

LEMMA ElementsHeadTail ==
  ASSUME NEW S, NEW s \in Seq(S), s # <<>>
  PROVE  /\ Head(s) \in S /\ Head(s) \in Elements(s)
         /\ Tail(s) \in Seq(S) /\ Elements(Tail(s)) \subseteq Elements(s)
         /\ Elements(s) \subseteq {Head(s)} \cup Elements(Tail(s))
<1>1. /\ Head(s) \in S /\ Head(s) = s[1]
      /\ Tail(s) \in Seq(S) /\ Len(Tail(s)) = Len(s) - 1
      /\ \A i \in 1 .. Len(Tail(s)) : Tail(s)[i] = s[i + 1]
      /\ Len(s) \in Nat \ {0}
  BY HeadTailProperties, EmptySeq
<1>2. DOMAIN s = 1 .. Len(s) /\ DOMAIN Tail(s) = 1 .. Len(Tail(s))
  BY <1>1, LenProperties
<1>3. \A i \in 1 .. Len(Tail(s)) : i + 1 \in 1 .. Len(s)
  BY <1>1
<1>4. ASSUME NEW i \in 1 .. Len(s), i # 1
      PROVE  s[i] \in Elements(Tail(s))
  <2>1. i - 1 \in 1 .. Len(Tail(s)) /\ (i - 1) + 1 = i
    BY <1>1, <1>4
  <2>2. Tail(s)[i - 1] = s[i]
    BY <1>1, <2>1
  <2>3. QED
    BY <1>2, <2>1, <2>2 DEF Elements
<1>5. QED
  BY <1>1, <1>2, <1>3, <1>4 DEF Elements

(* Lists on which no task is twice. *)
LEMMA InjectiveEmpty == IsInjective(<<>>)
BY DEF IsInjective

LEMMA InjectiveConcat ==
  ASSUME NEW S, NEW s \in Seq(S), NEW u \in Seq(S), IsInjective(s), IsInjective(u),
         Elements(s) \cap Elements(u) = {}
  PROVE  IsInjective(s \o u)
<1> DEFINE m == Len(s)
           n == Len(u)
           c == s \o u
<1>1. /\ m \in Nat /\ n \in Nat
      /\ DOMAIN s = 1 .. m /\ DOMAIN u = 1 .. n /\ DOMAIN c = 1 .. m + n
      /\ \A i \in 1 .. m + n : c[i] = IF i =< m THEN s[i] ELSE u[i - m]
  BY ConcatProperties, LenProperties
<1> HIDE DEF m, n, c
<1>2. \A i \in 1 .. m + n : /\ i =< m => i \in 1 .. m
                           /\ ~(i =< m) => i - m \in 1 .. n
  BY <1>1
<1>3. ASSUME NEW i \in 1 .. m + n, NEW j \in 1 .. m + n, c[i] = c[j]
      PROVE  i = j
  <2>1. CASE i =< m /\ j =< m
    BY <1>1, <1>2, <1>3, <2>1 DEF IsInjective
  <2>2. CASE ~(i =< m) /\ ~(j =< m)
    <3>1. u[i - m] = u[j - m] /\ i - m \in 1 .. n /\ j - m \in 1 .. n
      BY <1>1, <1>2, <1>3, <2>2
    <3>2. i - m = j - m
      BY <1>1, <3>1 DEF IsInjective
    <3>3. QED
      BY <1>1, <3>2
  <2>3. CASE i =< m /\ ~(j =< m)
    <3>1. s[i] = u[j - m] /\ s[i] \in Elements(s) /\ u[j - m] \in Elements(u)
      BY SMTT(30), <1>1, <1>2, <1>3, <2>3 DEF Elements
    <3>2. QED
      BY <3>1
  <2>4. CASE ~(i =< m) /\ j =< m
    <3>1. u[i - m] = s[j] /\ s[j] \in Elements(s) /\ u[i - m] \in Elements(u)
      BY <1>1, <1>2, <1>3, <2>4 DEF Elements
    <3>2. QED
      BY <3>1
  <2>5. QED
    BY <2>1, <2>2, <2>3, <2>4
<1>4. IsInjective(c)
  BY <1>1, <1>3 DEF IsInjective
<1>5. QED
  BY <1>4 DEF c

LEMMA InjectiveHeadTail ==
  ASSUME NEW S, NEW s \in Seq(S), s # <<>>, IsInjective(s)
  PROVE  IsInjective(Tail(s)) /\ Head(s) \notin Elements(Tail(s))
<1> DEFINE n == Len(s)
           r == Tail(s)
<1>1. /\ n \in Nat \ {0} /\ DOMAIN s = 1 .. n /\ DOMAIN r = 1 .. n - 1
      /\ Head(s) = s[1] /\ \A i \in 1 .. n - 1 : r[i] = s[i + 1]
  BY HeadTailProperties, EmptySeq, LenProperties
<1> HIDE DEF n, r
<1>2. \A i \in 1 .. n - 1 : i + 1 \in 1 .. n /\ i + 1 # 1
  BY <1>1
<1>3. 1 \in 1 .. n
  BY <1>1
<1>4. \A i \in 1 .. n - 1 : r[i] # Head(s)
  BY <1>1, <1>2, <1>3 DEF IsInjective
<1>5. ASSUME NEW i \in 1 .. n - 1, NEW j \in 1 .. n - 1, r[i] = r[j]
      PROVE  i = j
  <2>1. i + 1 = j + 1
    BY <1>1, <1>2, <1>5 DEF IsInjective
  <2>2. QED
    BY <1>1, <2>1
<1>6. IsInjective(r) /\ Head(s) \notin Elements(r)
  BY <1>1, <1>4, <1>5 DEF IsInjective, Elements
<1>7. QED
  BY <1>6 DEF r

(* An ordering of a finite set lists each of its members once. *)
LEMMA OrderingProperties ==
  ASSUME NEW S \in SUBSET Tasks, IsFiniteSet(S), NEW s \in Orderings(S)
  PROVE  s \in Seq(Tasks) /\ Elements(s) = S /\ IsInjective(s)
<1> DEFINE n == Cardinality(S)
<1>1. /\ n \in Nat /\ s \in [1 .. n -> S]
      /\ \A i, j \in DOMAIN s : s[i] = s[j] => i = j
  BY FS_CardinalityType DEF Orderings
<1>2. IsFiniteSet(1 .. n) /\ Cardinality(1 .. n) = n
  <2>1. 1 \in Int /\ n \in Int
    BY <1>1
  <2>2. IsFiniteSet(1 .. n) /\ Cardinality(1 .. n) = IF 1 > n THEN 0 ELSE n - 1 + 1
    BY <2>1, FS_Interval
  <2> HIDE DEF n
  <2>3. QED
    BY <1>1, <2>2
<1>3. s \in Injection(1 .. n, S)
  BY <1>1 DEF Injection, IsInjective
<1>4. s \in Surjection(1 .. n, S)
  BY <1>2, <1>3, FS_Injection
<1> HIDE DEF n
<1>5. DOMAIN s = 1 .. n /\ \A t \in S : \E i \in 1 .. n : s[i] = t
  BY <1>1, <1>4 DEF Surjection
<1>6. Elements(s) = S
  BY <1>1, <1>5 DEF Elements
<1>7. s \in Seq(Tasks)
  BY <1>1, SeqDef
<1>8. QED
  BY <1>1, <1>6, <1>7 DEF IsInjective

(* What Dispatch leaves behind, as one fact about its result. *)
LEMMA DispatchResult ==
  ASSUME TypeOK, PipelineTypes,
         NEW r \in Registries, NEW T \in Batches, Dispatch(r, T)
  PROVE  /\ ring[r] \in SUBSET Workers /\ ring[r] # {}
         /\ \A t \in T : route[t] = {}
         /\ \A t \in T : Owner(ring[r], RoutingKey[t]) \in ring[r]
         /\ route' = [t \in Tasks |->
              IF t \in T
              THEN {[worker |-> Owner(ring[r], RoutingKey[t]), view |-> ring[r]]}
              ELSE route[t]]
         /\ sending' = [sending EXCEPT ![r] = sending'[r]]
         /\ sending[r] = Nothing
         /\ sending'[r] \in [Workers -> Seq(Tasks)]
         /\ \A w \in Workers :
              /\ Elements(sending'[r][w]) =
                   {t \in T : Owner(ring[r], RoutingKey[t]) = w}
              /\ IsInjective(sending'[r][w])
<1> DEFINE owner == [t \in T |-> Owner(ring[r], RoutingKey[t])]
<1>0. T \in SUBSET Tasks /\ IsFiniteSet(T)
  BY DEF Batches
<1>1. ring[r] \in SUBSET Workers /\ ring[r] # {}
  BY DEF TypeOK, Dispatch, Send
<1>2. \A t \in T : Owner(ring[r], RoutingKey[t]) \in ring[r]
  BY <1>0, <1>1, OwnerIsMember, ClusterConstants
<1>3. PICK by_worker \in [Workers -> UNION {Orderings(S) : S \in SUBSET T}] :
        /\ \A w \in Workers : by_worker[w] \in Orderings({t \in T : owner[t] = w})
        /\ sending' = [sending EXCEPT ![r] = by_worker]
  BY DEF Dispatch, Send
<1>4. sending'[r] = by_worker
  BY <1>3 DEF PipelineTypes
<1>5. ASSUME NEW w \in Workers
      PROVE  /\ by_worker[w] \in Seq(Tasks)
             /\ Elements(by_worker[w]) =
                  {t \in T : Owner(ring[r], RoutingKey[t]) = w}
             /\ IsInjective(by_worker[w])
  <2> DEFINE S == {t \in T : owner[t] = w}
  <2>1. by_worker[w] \in Orderings(S)
    BY <1>3
  <2>2. S \in SUBSET Tasks /\ IsFiniteSet(S)
    BY <1>0, FS_Subset
  <2>3. S = {t \in T : Owner(ring[r], RoutingKey[t]) = w}
    BY <1>0
  <2>4. QED
    <3> HIDE DEF S
    <3>1. by_worker[w] \in Seq(Tasks) /\ Elements(by_worker[w]) = S
          /\ IsInjective(by_worker[w])
      BY <2>1, <2>2, OrderingProperties
    <3>2. QED
      BY <2>3, <3>1
<1>6. QED
  BY <1>1, <1>2, <1>3, <1>4, <1>5 DEF Dispatch, Send

-----------------------------------------------------------------------------

(* Every step of the pipeline keeps its types. *)
LEMMA PipelineTypesInductive ==
  ASSUME TypeOK, PipelineTypes, [ClusterNext]_cvars
  PROVE  PipelineTypes'
<1> USE DEF historyVars, pipeVars
<1>1. ASSUME NEW r \in Registries, NEW T \in Batches, Dispatch(r, T)
      PROVE  PipelineTypes'
  <2>1. \A t \in T : [worker |-> Owner(ring[r], RoutingKey[t]), view |-> ring[r]] \in Routes
    BY <1>1, DispatchResult DEF Routes
  <2>2. route' \in [Tasks -> SUBSET Routes]
    <3>1. route' = [t \in Tasks |->
            IF t \in T
            THEN {[worker |-> Owner(ring[r], RoutingKey[t]), view |-> ring[r]]}
            ELSE route[t]]
      BY <1>1, DispatchResult
    <3>2. ASSUME NEW t \in Tasks
          PROVE  route'[t] \in SUBSET Routes
      BY <2>1, <3>1 DEF PipelineTypes
    <3>3. QED
      BY <3>1, <3>2
  <2>3. sending' \in [Registries -> [Workers -> Seq(Tasks)]]
    BY <1>1, DispatchResult DEF PipelineTypes
  <2>4. QED
    BY <1>1, <2>2, <2>3 DEF Dispatch, Send, PipelineTypes
<1>2. Nothing \in [Workers -> Seq(Tasks)]
  BY DEF Nothing
<1>3. ASSUME NEW r \in Registries, Push(r)
      PROVE  PipelineTypes'
  <2>1. \A w \in Workers : queue[w] \o sending[r][w] \in Seq(Tasks)
    BY ElementsConcat DEF PipelineTypes
  <2>2. QED
    BY <1>2, <1>3, <2>1 DEF Push, PipelineTypes
<1>4. ASSUME NEW r \in Registries, PushLost(r)
      PROVE  PipelineTypes'
  BY <1>2, <1>4 DEF PushLost, PipelineTypes
<1>5. ASSUME NEW w \in Workers, Pop(w) \/ PopLosesTask(w)
      PROVE  PipelineTypes'
  <2>1. Head(queue[w]) \in Tasks /\ Tail(queue[w]) \in Seq(Tasks)
    BY <1>5, ElementsHeadTail DEF PipelineTypes, Pop, PopLosesTask
  <2>2. CASE Pop(w)
    BY <2>1, <2>2 DEF Pop, PipelineTypes
  <2>3. CASE PopLosesTask(w)
    BY <2>1, <2>3 DEF PopLosesTask, PipelineTypes
  <2>4. QED
    BY <1>5, <2>2, <2>3
<1>6. ASSUME NEW w \in Workers, HandleReturns(w)
      PROVE  PipelineTypes'
  BY <1>6 DEF HandleReturns, PipelineTypes
<1>7. ASSUME NEW w \in Workers, Killed(w)
      PROVE  PipelineTypes'
  BY <1>7 DEF Killed, PipelineTypes
<1>8. ASSUME NEW w \in Workers, Replicate(w)
      PROVE  PipelineTypes'
  BY <1>8 DEF Replicate, PipelineTypes
<1>9. CASE Promote
  BY <1>9 DEF Promote, PipelineTypes
<1>10. CASE UNCHANGED pipeVars
  BY <1>10 DEF PipelineTypes
<1>11. ASSUME \/ \E w \in Workers : WorkerStep(w)
              \/ \E r \in Registries, t \in Refreshers : RegistryStep(r, t)
              \/ UNCHANGED cvars
       PROVE  UNCHANGED pipeVars
  BY <1>11 DEF WorkerStep, RegistryStep, cvars
<1>12. QED
  BY <1>1, <1>3, <1>4, <1>5, <1>6, <1>7, <1>8, <1>9, <1>10, <1>11
     DEF ClusterNext

-----------------------------------------------------------------------------

(* Every routing decision is the placement rule's on the ring it was made  *)
(* with.                                                                   *)
RoutesByRing ==
  \A t \in Tasks : \A d \in route[t] :
    d.view # {} /\ d.worker = Owner(d.view, RoutingKey[t])

(* The tasks w has or is being sent, and the invariant about them: NoSteal-*)
(* ing holds of a task as soon as it is routed, since a push may land, and *)
(* a pop be undone, at any later time.                                     *)
Sendings(w) == UNION {Elements(sending[r][w]) : r \in Registries}
Custody(w) == Assigned(w) \cup Sendings(w)
CustodyRouted == \A w \in Workers : \A t \in Custody(w) : RoutedTo(t, w)

LEMMA CustodyTypes ==
  ASSUME PipelineTypes, NEW w \in Workers
  PROVE  Custody(w) \subseteq Tasks
<1>1. \A s \in Seq(Tasks) : Elements(s) \subseteq Tasks
  BY LenProperties DEF Elements
<1>2. QED
  BY <1>1 DEF PipelineTypes, Custody, Assigned, Sendings

(* Only a dispatch gives a worker anything new. *)
LEMMA CustodyShrinks ==
  ASSUME PipelineTypes, NEW w \in Workers, [ClusterNext]_cvars,
         \A r \in Registries, T \in Batches : ~Dispatch(r, T)
  PROVE  Custody(w)' \subseteq Custody(w) /\ UNCHANGED route
<1> USE DEF historyVars, pipeVars, Custody, Assigned, Sendings
<1>1. ASSUME NEW r \in Registries, Push(r)
      PROVE  Custody(w)' \subseteq Custody(w) /\ UNCHANGED route
  <2>1. queue'[w] = queue[w] \o sending[r][w]
    BY <1>1 DEF Push
  <2>2. Elements(queue'[w]) \subseteq Elements(queue[w]) \cup Elements(sending[r][w])
    BY <2>1, ElementsConcat DEF PipelineTypes
  <2>3. \A q \in Registries : Elements(sending'[q][w]) \subseteq Elements(sending[q][w])
    BY <1>1, ElementsEmpty DEF Push, PipelineTypes, Nothing
  <2>4. QED
    BY <1>1, <2>2, <2>3 DEF Push
<1>2. ASSUME NEW r \in Registries, PushLost(r)
      PROVE  Custody(w)' \subseteq Custody(w) /\ UNCHANGED route
  <2>1. \A q \in Registries : Elements(sending'[q][w]) \subseteq Elements(sending[q][w])
    BY <1>2, ElementsEmpty DEF PushLost, PipelineTypes, Nothing
  <2>2. QED
    BY <1>2, <2>1 DEF PushLost
<1>3. ASSUME NEW v \in Workers, Pop(v) \/ PopLosesTask(v)
      PROVE  Custody(w)' \subseteq Custody(w) /\ UNCHANGED route
  <2>1. /\ Head(queue[v]) \in Elements(queue[v])
        /\ Elements(Tail(queue[v])) \subseteq Elements(queue[v])
    BY <1>3, ElementsHeadTail DEF PipelineTypes, Pop, PopLosesTask
  <2>2. CASE Pop(v)
    BY <2>1, <2>2 DEF Pop, PipelineTypes
  <2>3. CASE PopLosesTask(v)
    BY <2>1, <2>3 DEF PopLosesTask, PipelineTypes
  <2>4. QED
    BY <1>3, <2>2, <2>3
<1>4. ASSUME NEW v \in Workers, HandleReturns(v) \/ Killed(v) \/ Replicate(v)
      PROVE  Custody(w)' \subseteq Custody(w) /\ UNCHANGED route
  BY ZenonT(30), <1>4 DEF HandleReturns, Killed, Replicate, PipelineTypes
<1>5. ASSUME Promote
      PROVE  Custody(w)' \subseteq Custody(w) /\ UNCHANGED route
  BY <1>5 DEF Promote, PipelineTypes
<1>6. ASSUME \/ \E v \in Workers : WorkerStep(v)
             \/ \E r \in Registries, t \in Refreshers : RegistryStep(r, t)
             \/ UNCHANGED cvars
      PROVE  Custody(w)' \subseteq Custody(w) /\ UNCHANGED route
  BY <1>6 DEF WorkerStep, RegistryStep, cvars
<1>7. QED
  BY <1>1, <1>2, <1>3, <1>4, <1>5, <1>6 DEF ClusterNext

LEMMA CustodyInductive ==
  ASSUME TypeOK, PipelineTypes, RoutesByRing, CustodyRouted, [ClusterNext]_cvars
  PROVE  RoutesByRing' /\ CustodyRouted'
<1>1. ASSUME NEW r \in Registries, NEW T \in Batches, Dispatch(r, T)
      PROVE  RoutesByRing' /\ CustodyRouted'
  <2> DEFINE d(t) == [worker |-> Owner(ring[r], RoutingKey[t]), view |-> ring[r]]
  <2>1. /\ ring[r] # {}
        /\ \A t \in T : route[t] = {} /\ Owner(ring[r], RoutingKey[t]) \in ring[r]
        /\ route' = [t \in Tasks |-> IF t \in T THEN {d(t)} ELSE route[t]]
    BY <1>1, DispatchResult
  <2>2. RoutesByRing'
    BY <2>1 DEF RoutesByRing
  <2>3. ASSUME NEW w \in Workers, NEW t \in Custody(w)'
        PROVE  RoutedTo(t, w)'
    <3>1. t \in Custody(w) \/ (t \in T /\ Owner(ring[r], RoutingKey[t]) = w)
      <4>1. UNCHANGED <<queue, rqueue, hand>>
        BY <1>1 DEF Dispatch, Send
      <4>2. \A q \in Registries : q # r => sending'[q] = sending[q]
        BY <1>1, DispatchResult DEF PipelineTypes
      <4>3. Elements(sending'[r][w]) \subseteq
              {u \in T : Owner(ring[r], RoutingKey[u]) = w}
        BY <1>1, DispatchResult
      <4>4. QED
        BY <2>3, <4>1, <4>2, <4>3 DEF Custody, Assigned, Sendings
    <3>2. CASE t \in Custody(w)
      <4>1. RoutedTo(t, w) /\ t \in Tasks
        BY <3>2, CustodyTypes DEF CustodyRouted
      <4>2. t \notin T
        BY <2>1, <4>1 DEF RoutedTo
      <4>3. QED
        BY <2>1, <4>1, <4>2 DEF RoutedTo
    <3>3. CASE t \in T /\ Owner(ring[r], RoutingKey[t]) = w
      BY <2>1, <3>3 DEF RoutedTo, Batches
    <3>4. QED
      BY <3>1, <3>2, <3>3
  <2>4. QED
    BY <2>2, <2>3 DEF CustodyRouted
<1>2. CASE \A r \in Registries, T \in Batches : ~Dispatch(r, T)
  <2>1. UNCHANGED route
    BY <1>2 DEF ClusterNext, Push, PushLost, RegistryStep, Pop, PopLosesTask,
                HandleReturns, Killed, WorkerStep, Replicate, Promote, cvars,
                pipeVars, historyVars
  <2>2. RoutesByRing'
    BY <2>1 DEF RoutesByRing
  <2>3. ASSUME NEW w \in Workers, NEW t \in Custody(w)'
        PROVE  RoutedTo(t, w)'
    <3>1. RoutedTo(t, w)
      BY <1>2, <2>3, CustodyShrinks DEF CustodyRouted
    <3>2. QED
      BY <2>1, <3>1 DEF RoutedTo
  <2>4. QED
    BY <2>2, <2>3 DEF CustodyRouted
<1>3. QED
  BY <1>1, <1>2

-----------------------------------------------------------------------------

ClusterInv == MembershipInv /\ PipelineTypes /\ RoutesByRing /\ CustodyRouted

LEMMA ClusterInvariant == ClusterSpec => []ClusterInv
<1>1. InitCluster => ClusterInv
  <2> SUFFICES ASSUME InitCluster PROVE ClusterInv
    OBVIOUS
  <2>1. MembershipInv
    BY InitTypes DEF InitCluster, MembershipInv, HeartbeatServes, Init
  <2>2. PipelineTypes
    BY DEF InitCluster, PipelineTypes, Nothing
  <2>3. \A w \in Workers : Custody(w) = {}
    BY ElementsEmpty DEF InitCluster, Custody, Assigned, Sendings, Nothing
  <2>4. RoutesByRing /\ CustodyRouted
    BY <2>3 DEF InitCluster, RoutesByRing, CustodyRouted
  <2>5. QED
    BY <2>1, <2>2, <2>4 DEF ClusterInv
<1>2. ClusterInv /\ [ClusterNext]_cvars => ClusterInv'
  BY ClusterStep, TypeInductive, HeartbeatServesInductive,
     PipelineTypesInductive, CustodyInductive DEF ClusterInv, MembershipInv
<1>3. QED
  BY <1>1, <1>2, PTL DEF ClusterSpec

(* The variables of the pipeline keep their types. *)
THEOREM ClusterTypes == ClusterSpec => []ClusterTypeOK
<1>1. ClusterInv => ClusterTypeOK
  BY DEF ClusterInv, MembershipInv, ClusterTypeOK
<1>2. QED
  BY <1>1, ClusterInvariant, PTL

(* A task is only ever queued at, replicated for or handled by the worker  *)
(* that the dispatcher's ring named for it (task_queue.py:7), however      *)
(* often the membership changes and the master fails over.                 *)
THEOREM NoWorkerSteals == ClusterSpec => []NoStealing
<1>1. ClusterInv => NoStealing
  BY DEF ClusterInv, CustodyRouted, Custody, NoStealing
<1>2. QED
  BY <1>1, ClusterInvariant, PTL

(* Two workers have tasks of one contract only if one of them was missing  *)
(* from the ring that routed the other's task: whenever the dispatchers'   *)
(* rings agree on the workers concerned, init_db.sql's promise holds.      *)
THEOREM ContentionOnlyThroughChurn == ClusterSpec => []ContentionNeedsChurn
<1>1. ASSUME ClusterInv,
             NEW v \in Workers, NEW w \in Workers,
             NEW s \in Assigned(v), NEW t \in Assigned(w),
             v # w, RoutingKey[s] = RoutingKey[t]
      PROVE  \E d \in route[s], e \in route[t] : w \notin d.view \/ v \notin e.view
  <2>1. s \in Tasks /\ t \in Tasks
    BY <1>1, CustodyTypes DEF ClusterInv, Custody
  <2>2. RoutedTo(s, v) /\ RoutedTo(t, w)
    BY <1>1 DEF ClusterInv, CustodyRouted, Custody
  <2>3. PICK d \in route[s] : d.worker = v
    BY <2>2 DEF RoutedTo
  <2>4. PICK e \in route[t] : e.worker = w
    BY <2>2 DEF RoutedTo
  <2>5. d.view \in SUBSET Workers /\ e.view \in SUBSET Workers
    BY <1>1, <2>1, <2>3, <2>4 DEF ClusterInv, PipelineTypes, Routes
  <2>6. /\ d.view # {} /\ Owner(d.view, RoutingKey[s]) = v
        /\ e.view # {} /\ Owner(e.view, RoutingKey[s]) = w
    BY <1>1, <2>1, <2>3, <2>4 DEF ClusterInv, RoutesByRing
  <2>7. RoutingKey[s] \in Keys
    BY <2>1, ClusterConstants
  <2>8. w \notin d.view \/ v \notin e.view
    BY <1>1, <2>5, <2>6, <2>7, OwnersDisagreeOnlyAcrossChurn
  <2>9. QED
    BY <2>3, <2>4, <2>8
<1>2. ClusterInv => ContentionNeedsChurn
  BY <1>1 DEF ContentionNeedsChurn
<1>3. QED
  BY <1>2, ClusterInvariant, PTL

(* A worker that is gone from the rings, with no push to it under way, is  *)
(* routed nothing again: only get_worker picks a recipient, from the ring. *)
THEOREM UnroutableForever == ClusterSpec => StaysUnroutable
<1>1. ASSUME ClusterInv, [ClusterNext]_cvars, NEW w \in Workers, Unroutable(w)
      PROVE  Unroutable(w)'
  <2>1. Forgotten(w)'
    BY <1>1, ClusterStep, ForgottenStable DEF ClusterInv, Unroutable
  <2>2. CASE \A r \in Registries, T \in Batches : ~Dispatch(r, T)
    <3>1. CASE \E r \in Registries : Push(r) \/ PushLost(r)
      <4>1. PICK r \in Registries : sending' = [sending EXCEPT ![r] = Nothing]
        BY <3>1 DEF Push, PushLost
      <4>2. Nothing[w] = <<>>
        BY DEF Nothing
      <4>3. QED
        BY <1>1, <2>1, <4>1, <4>2 DEF Unroutable, ClusterInv, PipelineTypes
    <3>2. CASE UNCHANGED sending
      BY <1>1, <2>1, <3>2 DEF Unroutable
    <3>3. (\E r \in Registries : Push(r) \/ PushLost(r)) \/ UNCHANGED sending
      BY <1>1, <2>2 DEF ClusterNext, RegistryStep, Pop, PopLosesTask,
         HandleReturns, Killed, WorkerStep, Replicate, Promote, cvars, pipeVars
    <3>4. QED
      BY <3>1, <3>2, <3>3
  <2>3. ASSUME NEW q \in Registries, NEW T \in Batches, Dispatch(q, T)
        PROVE  Unroutable(w)'
    <3>1. w \notin ring[q]
      BY <1>1 DEF Unroutable, Forgotten
    <3>2. /\ sending' = [sending EXCEPT ![q] = sending'[q]]
          /\ sending'[q] \in [Workers -> Seq(Tasks)]
          /\ Elements(sending'[q][w]) \subseteq
               {t \in T : Owner(ring[q], RoutingKey[t]) = w}
          /\ \A t \in T : Owner(ring[q], RoutingKey[t]) \in ring[q]
      BY <1>1, <2>3, DispatchResult DEF ClusterInv, MembershipInv
    <3>3. Elements(sending'[q][w]) = {}
      BY <3>1, <3>2
    <3>4. sending'[q][w] = <<>>
      BY <3>2, <3>3, ElementsHeadTail
    <3>5. QED
      BY <1>1, <2>1, <3>2, <3>4 DEF Unroutable, ClusterInv, PipelineTypes
  <2>4. QED
    BY <2>2, <2>3
<1>2. ClusterInv /\ [ClusterNext]_cvars
        => [\A w \in Workers : Unroutable(w) => Unroutable(w)']_cvars
  BY <1>1
<1>3. QED
  BY <1>2, ClusterInvariant, PTL DEF ClusterSpec, StaysUnroutable

-----------------------------------------------------------------------------
(* How often a task can be handed out.                                     *)

(* A task is routed once, and waits for its worker at one place only: it   *)
(* is under way in one push, or at one position of the worker's list; the  *)
(* replica may still have what was popped, never what is not yet pushed.   *)
OneRoute == \A t \in Tasks : \A d, e \in route[t] : d = e

OneList(w) ==
  /\ IsInjective(queue[w]) /\ IsInjective(rqueue[w])
  /\ \A r \in Registries :
       /\ IsInjective(sending[r][w])
       /\ \A t \in Elements(sending[r][w]) :
            /\ t \notin Elements(queue[w]) \cup Elements(rqueue[w])
            /\ \A q \in Registries : t \in Elements(sending[q][w]) => q = r

OnePlace == OneRoute /\ \A w \in Workers : OneList(w)

(* Until it is pushed a task was never handed out; while it is on a list,  *)
(* at most once per failover, and on the replica's, which the next         *)
(* failover may bring back, once more.  A task in hand is its worker's     *)
(* only one, and not handled before unless a failover brought it back.     *)
Handouts ==
  \A t \in Tasks :
    /\ begun[t] =< 1 + failovers
    /\ route[t] = {} => begun[t] = 0
    /\ t \in ended => begun[t] > 0

HandedOut(w) ==
  /\ \A t \in Sendings(w) : begun[t] = 0
  /\ \A t \in Elements(queue[w]) : begun[t] =< failovers
  /\ \A t \in hand[w] :
       /\ hand[w] = {t} /\ pc[w] = "busy" /\ begun[t] > 0
       /\ failovers = 0 => t \notin ended

DeliveryInv ==
  /\ ClusterInv
  /\ OnePlace
  /\ Handouts /\ \A w \in Workers : HandedOut(w)

(* Two workers never have one task. *)
LEMMA OneCustodian ==
  ASSUME ClusterInv, OneRoute,
         NEW v \in Workers, NEW w \in Workers, NEW t \in Custody(v) \cap Custody(w)
  PROVE  v = w /\ t \in Tasks /\ route[t] # {}
<1>1. t \in Tasks
  BY CustodyTypes DEF ClusterInv
<1>2. RoutedTo(t, v) /\ RoutedTo(t, w)
  BY DEF ClusterInv, CustodyRouted
<1>3. QED
  BY <1>1, <1>2 DEF RoutedTo, OneRoute

(* What a pop takes, and what it leaves. *)
LEMMA PopTakes ==
  ASSUME ClusterInv, OnePlace, NEW w \in Workers, queue[w] # <<>>
  PROVE  /\ Head(queue[w]) \in Tasks /\ Head(queue[w]) \in Elements(queue[w])
         /\ Tail(queue[w]) \in Seq(Tasks) /\ IsInjective(Tail(queue[w]))
         /\ Elements(Tail(queue[w])) = Elements(queue[w]) \ {Head(queue[w])}
         /\ \A v \in Workers : Head(queue[w]) \in Custody(v) => v = w
         /\ Head(queue[w]) \notin Sendings(w)
<1>1. queue[w] \in Seq(Tasks) /\ IsInjective(queue[w])
  BY DEF ClusterInv, PipelineTypes, OnePlace, OneList
<1>2. /\ Head(queue[w]) \in Tasks /\ Head(queue[w]) \in Elements(queue[w])
      /\ Tail(queue[w]) \in Seq(Tasks)
      /\ Elements(Tail(queue[w])) \subseteq Elements(queue[w])
      /\ Elements(queue[w]) \subseteq {Head(queue[w])} \cup Elements(Tail(queue[w]))
  BY <1>1, ElementsHeadTail
<1>3. IsInjective(Tail(queue[w])) /\ Head(queue[w]) \notin Elements(Tail(queue[w]))
  BY <1>1, InjectiveHeadTail
<1>4. Head(queue[w]) \in Custody(w)
  BY <1>2 DEF Custody, Assigned
<1>5. \A v \in Workers : Head(queue[w]) \in Custody(v) => v = w
  BY <1>4, OneCustodian DEF OnePlace
<1>6. Head(queue[w]) \notin Sendings(w)
  <2>1. ASSUME NEW r \in Registries, Head(queue[w]) \in Elements(sending[r][w])
        PROVE  FALSE
    BY <1>2, <2>1 DEF OnePlace, OneList
  <2>2. QED
    BY <2>1 DEF Sendings
<1>7. QED
  BY <1>2, <1>3, <1>5, <1>6

(* What a push takes from the process, and what the lists are then. *)
LEMMA PushMoves ==
  ASSUME ClusterInv, OnePlace, NEW r \in Registries, NEW w \in Workers, Push(r)
  PROVE  /\ queue'[w] = queue[w] \o sending[r][w]
         /\ Elements(queue'[w]) = Elements(queue[w]) \cup Elements(sending[r][w])
         /\ IsInjective(queue'[w])
         /\ Elements(sending'[r][w]) = {} /\ IsInjective(sending'[r][w])
         /\ \A q \in Registries \ {r} : sending'[q] = sending[q]
<1>1. queue[w] \in Seq(Tasks) /\ sending[r][w] \in Seq(Tasks)
  BY DEF ClusterInv, PipelineTypes
<1>2. /\ queue'[w] = queue[w] \o sending[r][w]
      /\ sending' = [sending EXCEPT ![r] = Nothing]
  BY DEF Push
<1>3. sending'[r][w] = <<>> /\ \A q \in Registries \ {r} : sending'[q] = sending[q]
  BY <1>2 DEF ClusterInv, PipelineTypes, Nothing
<1>4. /\ IsInjective(queue[w]) /\ IsInjective(sending[r][w])
      /\ Elements(queue[w]) \cap Elements(sending[r][w]) = {}
  BY DEF OnePlace, OneList
<1>5. QED
  BY <1>1, <1>2, <1>3, <1>4, ElementsConcat, InjectiveConcat, ElementsEmpty,
     InjectiveEmpty

LEMMA OnePlaceInductive ==
  ASSUME ClusterInv, OnePlace, [ClusterNext]_cvars
  PROVE  OnePlace'
<1> USE DEF historyVars, pipeVars
<1>1. ASSUME NEW r \in Registries, NEW T \in Batches, Dispatch(r, T)
      PROVE  OnePlace'
  <2>1. /\ \A t \in T : route[t] = {}
        /\ route' = [t \in Tasks |->
             IF t \in T
             THEN {[worker |-> Owner(ring[r], RoutingKey[t]), view |-> ring[r]]}
             ELSE route[t]]
        /\ sending' = [sending EXCEPT ![r] = sending'[r]]
        /\ \A w \in Workers :
             /\ Elements(sending'[r][w]) =
                  {t \in T : Owner(ring[r], RoutingKey[t]) = w}
             /\ IsInjective(sending'[r][w])
    BY <1>1, DispatchResult DEF ClusterInv, MembershipInv
  <2>2. OneRoute'
    BY <2>1 DEF OnePlace, OneRoute
  <2>3. \A q \in Registries \ {r} : sending'[q] = sending[q]
    BY <2>1 DEF ClusterInv, PipelineTypes
  <2>4. UNCHANGED <<queue, rqueue>>
    BY <1>1 DEF Dispatch, Send
  <2>5. ASSUME NEW w \in Workers
        PROVE  OneList(w)'
    <3>1. \A t \in Elements(sending'[r][w]) : t \notin Custody(w)
      BY <2>1, OneCustodian DEF OnePlace
    <3>2. \A t \in Elements(sending'[r][w]) :
            /\ t \notin Elements(queue[w]) \cup Elements(rqueue[w])
            /\ \A q \in Registries : t \notin Elements(sending[q][w])
      BY <3>1 DEF Custody, Assigned, Sendings
    <3>3. OneList(w)
      BY DEF OnePlace
    <3>4. QED
      BY <2>1, <2>3, <2>4, <3>2, <3>3 DEF OneList
  <2>6. QED
    BY <2>2, <2>5 DEF OnePlace
<1>2. ASSUME \A r \in Registries, T \in Batches : ~Dispatch(r, T)
      PROVE  OneRoute'
  <2>1. UNCHANGED route
    BY <1>2 DEF ClusterNext, Push, PushLost, RegistryStep, Pop, PopLosesTask,
                HandleReturns, Killed, WorkerStep, Replicate, Promote, cvars
  <2>2. QED
    BY <2>1 DEF OnePlace, OneRoute
<1>3. ASSUME NEW r \in Registries, Push(r), NEW w \in Workers
      PROVE  OneList(w)'
  <2>1. UNCHANGED rqueue
    BY <1>3 DEF Push
  <2>2. OneList(w)
    BY DEF OnePlace
  <2>3. /\ Elements(queue'[w]) = Elements(queue[w]) \cup Elements(sending[r][w])
        /\ IsInjective(queue'[w])
        /\ Elements(sending'[r][w]) = {} /\ IsInjective(sending'[r][w])
        /\ \A q \in Registries \ {r} : sending'[q] = sending[q]
    BY <1>3, PushMoves
  <2>4. ASSUME NEW p \in Registries
        PROVE  /\ IsInjective(sending'[p][w])
               /\ \A t \in Elements(sending'[p][w]) :
                    /\ t \notin Elements(queue'[w]) \cup Elements(rqueue'[w])
                    /\ \A q \in Registries : t \in Elements(sending'[q][w]) => q = p
    <3>1. CASE p = r
      BY <2>3, <3>1
    <3>2. CASE p # r
      <4>1. sending'[p] = sending[p]
        BY <2>3, <3>2
      <4>2. IsInjective(sending[p][w])
        BY <2>2 DEF OneList
      <4>3. ASSUME NEW t \in Elements(sending[p][w])
            PROVE  /\ t \notin Elements(queue'[w]) \cup Elements(rqueue'[w])
                   /\ \A q \in Registries : t \in Elements(sending'[q][w]) => q = p
        <5>1. /\ t \notin Elements(queue[w]) \cup Elements(rqueue[w])
              /\ \A q \in Registries : t \in Elements(sending[q][w]) => q = p
          BY <2>2 DEF OneList
        <5>2. t \notin Elements(sending[r][w])
          BY <3>2, <5>1
        <5>3. QED
          BY <2>1, <2>3, <5>1, <5>2
      <4>4. QED
        BY <4>1, <4>2, <4>3
    <3>3. QED
      BY <3>1, <3>2
  <2>5. QED
    BY <2>1, <2>2, <2>3, <2>4 DEF OneList
<1>4. ASSUME NEW r \in Registries, PushLost(r), NEW w \in Workers
      PROVE  OneList(w)'
  <2>1. UNCHANGED <<queue, rqueue>>
    BY <1>4 DEF PushLost
  <2>2. sending'[r][w] = <<>> /\ \A q \in Registries \ {r} : sending'[q] = sending[q]
    BY <1>4 DEF PushLost, ClusterInv, PipelineTypes, Nothing
  <2>3. OneList(w)
    BY DEF OnePlace
  <2>4. QED
    BY <2>1, <2>2, <2>3, ElementsEmpty, InjectiveEmpty DEF OneList
<1>5. ASSUME NEW v \in Workers, Pop(v) \/ PopLosesTask(v), NEW w \in Workers
      PROVE  OneList(w)'
  <2>1. queue[v] # <<>> /\ queue' = [queue EXCEPT ![v] = Tail(@)]
        /\ UNCHANGED <<sending, rqueue>>
    BY <1>5 DEF Pop, PopLosesTask
  <2>2. queue'[w] = IF w = v THEN Tail(queue[v]) ELSE queue[w]
    BY <2>1 DEF ClusterInv, PipelineTypes
  <2>3. /\ IsInjective(Tail(queue[v]))
        /\ Elements(Tail(queue[v])) \subseteq Elements(queue[v])
    BY <2>1, PopTakes
  <2>4. OneList(w)
    BY DEF OnePlace
  <2>5. IsInjective(queue'[w]) /\ Elements(queue'[w]) \subseteq Elements(queue[w])
    BY <2>2, <2>3, <2>4 DEF OneList
  <2>6. QED
    BY <2>1, <2>4, <2>5 DEF OneList
<1>6. ASSUME NEW v \in Workers, Replicate(v), NEW w \in Workers
      PROVE  OneList(w)'
  <2>1. /\ UNCHANGED <<sending, queue>>
        /\ rqueue'[w] = IF w = v THEN queue[w] ELSE rqueue[w]
    BY <1>6 DEF Replicate, ClusterInv, PipelineTypes
  <2>2. OneList(w)
    BY DEF OnePlace
  <2>3. QED
    BY <2>1, <2>2 DEF OneList
<1>7. ASSUME Promote, NEW w \in Workers
      PROVE  OneList(w)'
  <2>1. UNCHANGED <<sending, rqueue>> /\ queue'[w] = rqueue[w]
    BY <1>7 DEF Promote
  <2>2. OneList(w)
    BY DEF OnePlace
  <2>3. QED
    BY <2>1, <2>2 DEF OneList
<1>8. ASSUME UNCHANGED <<sending, queue, rqueue>>, NEW w \in Workers
      PROVE  OneList(w)'
  <2>1. OneList(w)
    BY DEF OnePlace
  <2>2. QED
    BY <1>8, <2>1 DEF OneList
<1>9. ASSUME \/ \E w \in Workers : WorkerStep(w) \/ HandleReturns(w) \/ Killed(w)
             \/ \E r \in Registries, t \in Refreshers : RegistryStep(r, t)
             \/ UNCHANGED cvars
      PROVE  UNCHANGED <<sending, queue, rqueue>>
  BY <1>9 DEF WorkerStep, RegistryStep, HandleReturns, Killed, cvars
<1>10. ASSUME \A r \in Registries, T \in Batches : ~Dispatch(r, T),
              NEW w \in Workers
       PROVE  OneList(w)'
  BY <1>3, <1>4, <1>5, <1>6, <1>7, <1>8, <1>9, <1>10 DEF ClusterNext
<1>11. QED
  BY <1>1, <1>2, <1>10 DEF OnePlace

(* Only the return of its handler and a crash take a worker from its task. *)
LEMMA BusyStays ==
  ASSUME TypeOK, NEW w \in Workers, pc[w] = "busy",
         \/ \E v \in Workers : WorkerStep(v)
         \/ \E r \in Registries, t \in Refreshers : RegistryStep(r, t)
         \/ UNCHANGED cvars
  PROVE  pc'[w] = "busy"
<1>1. pc \in [Workers -> Points]
  BY DEF TypeOK
<1>2. ASSUME NEW v \in Workers, WorkerStep(v)
      PROVE  pc'[w] = "busy"
  <2> USE DEF Live, Serving, workerVars
  <2>1. CASE Register(v) \/ RegisterFails(v) \/ Announce(v)
    BY <1>1, <2>1 DEF Register, RegisterFails, Announce
  <2>2. CASE Heartbeat(v) \/ HeartbeatFails(v) \/ Signal(v)
    BY <1>1, <2>2 DEF Heartbeat, HeartbeatFails, Signal
  <2>3. CASE PopTimeout(v) \/ PopFails(v)
    BY <1>1, <2>3 DEF PopTimeout, PopFails, LoopTop, Finally
  <2>4. CASE DeleteKey(v) \/ PublishLeave(v) \/ DeregisterFails(v)
    BY <1>1, <2>4 DEF DeleteKey, PublishLeave, DeregisterFails
  <2>5. CASE LateSet(v) \/ Expire(v) \/ CatchUp(v)
    BY <1>1, <2>5 DEF LateSet, Expire, CatchUp
  <2>6. QED
    BY <1>2, <2>1, <2>2, <2>3, <2>4, <2>5 DEF WorkerStep
<1>3. ASSUME NEW r \in Registries, NEW t \in Refreshers, RegistryStep(r, t)
      PROVE  UNCHANGED pc
  BY <1>3 DEF RegistryStep, RegistryNext, StartRefresh, FinishRefresh,
              RefreshFails, workerVars
<1>4. CASE UNCHANGED cvars
  BY <1>4 DEF cvars, mvars, workerVars
<1>5. QED
  BY <1>2, <1>3, <1>4

(* A pop hands its task out once more; nothing else hands one out. *)
LEMMA HandoutsInductive ==
  ASSUME DeliveryInv, [ClusterNext]_cvars
  PROVE  Handouts'
<1> USE DEF historyVars, pipeVars
<1>0. /\ begun \in [Tasks -> Nat] /\ failovers \in Nat
      /\ Handouts
  BY DEF DeliveryInv, ClusterInv, PipelineTypes
<1>1. ASSUME NEW r \in Registries, NEW T \in Batches, Dispatch(r, T)
      PROVE  Handouts'
  <2>1. /\ \A t \in T : route[t] = {}
        /\ \A t \in Tasks : route'[t] = {} => t \notin T /\ route[t] = {}
    <3>1. TypeOK /\ PipelineTypes
      BY DEF DeliveryInv, ClusterInv, MembershipInv
    <3>2. /\ \A t \in T : route[t] = {}
          /\ route' = [t \in Tasks |->
               IF t \in T
               THEN {[worker |-> Owner(ring[r], RoutingKey[t]), view |-> ring[r]]}
               ELSE route[t]]
      BY <1>1, <3>1, DispatchResult
    <3>3. QED
      BY <3>2
  <2>2. UNCHANGED <<begun, ended, failovers>>
    BY <1>1 DEF Dispatch, Send
  <2>3. QED
    BY <1>0, <2>1, <2>2 DEF Handouts
<1>2. ASSUME NEW w \in Workers, Pop(w)
      PROVE  Handouts'
  <2> DEFINE x == Head(queue[w])
  <2>1. queue[w] # <<>> /\ begun' = [begun EXCEPT ![x] = @ + 1]
        /\ UNCHANGED <<route, ended, failovers>>
    BY <1>2 DEF Pop
  <2>2. x \in Tasks /\ x \in Elements(queue[w]) /\ x \in Custody(w)
    BY <2>1, PopTakes DEF DeliveryInv, Custody, Assigned
  <2>3. route[x] # {}
    BY <2>2, OneCustodian DEF DeliveryInv, OnePlace
  <2>4. begun[x] =< failovers
    BY <2>2 DEF DeliveryInv, HandedOut
  <2> HIDE DEF x
  <2>5. QED
    BY <1>0, <2>1, <2>2, <2>3, <2>4 DEF Handouts
<1>3. ASSUME NEW w \in Workers, HandleReturns(w)
      PROVE  Handouts'
  <2>1. ended' = ended \cup hand[w] /\ UNCHANGED <<route, begun, failovers>>
    BY <1>3 DEF HandleReturns
  <2>2. \A t \in hand[w] : begun[t] > 0
    BY DEF DeliveryInv, HandedOut
  <2>3. QED
    BY <1>0, <2>1, <2>2 DEF Handouts
<1>4. CASE Promote
  <2>1. failovers' = failovers + 1 /\ UNCHANGED <<route, begun, ended>>
    BY <1>4 DEF Promote
  <2>2. QED
    BY <1>0, <2>1 DEF Handouts
<1>5. CASE UNCHANGED historyVars
  BY <1>0, <1>5 DEF Handouts
<1>6. ASSUME \/ \E r \in Registries :
                  Push(r) \/ PushLost(r) \/ \E t \in Refreshers : RegistryStep(r, t)
             \/ \E w \in Workers :
                  \/ PopLosesTask(w) \/ Killed(w) \/ WorkerStep(w) \/ Replicate(w)
             \/ UNCHANGED cvars
      PROVE  UNCHANGED historyVars
  BY <1>6 DEF Push, PushLost, RegistryStep, PopLosesTask, Killed, WorkerStep,
              Replicate, cvars
<1>7. QED
  BY <1>1, <1>2, <1>3, <1>4, <1>5, <1>6 DEF ClusterNext

LEMMA HandedOutInductive ==
  ASSUME DeliveryInv, [ClusterNext]_cvars, NEW w \in Workers
  PROVE  HandedOut(w)'
<1> USE DEF historyVars, pipeVars
<1>0. /\ TypeOK /\ PipelineTypes /\ ClusterInv /\ OnePlace
      /\ begun \in [Tasks -> Nat] /\ failovers \in Nat
      /\ HandedOut(w) /\ OneList(w) /\ Handouts
  BY DEF DeliveryInv, ClusterInv, MembershipInv, PipelineTypes, OnePlace
<1>1. ASSUME NEW r \in Registries, NEW T \in Batches, Dispatch(r, T)
      PROVE  HandedOut(w)'
  <2>1. /\ \A t \in T : route[t] = {} /\ t \in Tasks
        /\ sending' = [sending EXCEPT ![r] = sending'[r]]
        /\ Elements(sending'[r][w]) \subseteq T
    BY <1>0, <1>1, DispatchResult DEF Batches
  <2>2. \A q \in Registries \ {r} : sending'[q] = sending[q]
    BY <1>0, <2>1 DEF PipelineTypes
  <2>3. UNCHANGED <<pc, queue, rqueue, hand, begun, ended, failovers>>
    BY <1>1 DEF Dispatch, Send, mvars
  <2>4. \A t \in T : begun[t] = 0
    BY <1>0, <2>1 DEF Handouts
  <2>5. Sendings(w)' \subseteq Sendings(w) \cup T
    BY <2>1, <2>2 DEF Sendings
  <2>6. QED
    BY <1>0, <2>3, <2>4, <2>5 DEF HandedOut
<1>2. ASSUME NEW r \in Registries, Push(r)
      PROVE  HandedOut(w)'
  <2>1. /\ Elements(queue'[w]) = Elements(queue[w]) \cup Elements(sending[r][w])
        /\ Elements(sending'[r][w]) = {}
        /\ \A q \in Registries \ {r} : sending'[q] = sending[q]
    BY <1>0, <1>2, PushMoves
  <2>2. UNCHANGED <<pc, hand, begun, ended, failovers>>
    BY <1>2 DEF Push, mvars
  <2>3. /\ Elements(sending[r][w]) \subseteq Sendings(w)
        /\ Sendings(w)' \subseteq Sendings(w)
    BY <2>1 DEF Sendings
  <2>4. QED
    BY <1>0, <2>1, <2>2, <2>3 DEF HandedOut
<1>3. ASSUME NEW r \in Registries, PushLost(r)
      PROVE  HandedOut(w)'
  <2>1. sending'[r][w] = <<>> /\ \A q \in Registries \ {r} : sending'[q] = sending[q]
    BY <1>0, <1>3 DEF PushLost, PipelineTypes, Nothing
  <2>2. UNCHANGED <<pc, queue, hand, begun, ended, failovers>>
    BY <1>3 DEF PushLost, mvars
  <2>3. Sendings(w)' \subseteq Sendings(w)
    BY <2>1, ElementsEmpty DEF Sendings
  <2>4. QED
    BY <1>0, <2>2, <2>3 DEF HandedOut
<1>4. ASSUME NEW v \in Workers, Pop(v)
      PROVE  HandedOut(w)'
  <2> DEFINE x == Head(queue[v])
  <2>1. /\ queue[v] # <<>> /\ pc[v] = "idle"
        /\ pc' = [pc EXCEPT ![v] = "busy"]
        /\ hand' = [hand EXCEPT ![v] = {x}]
        /\ queue' = [queue EXCEPT ![v] = Tail(@)]
        /\ begun' = [begun EXCEPT ![x] = @ + 1]
        /\ UNCHANGED <<sending, ended, failovers>>
    BY <1>4 DEF Pop, BeginTask
  <2>2. /\ x \in Tasks /\ x \in Elements(queue[v])
        /\ Elements(Tail(queue[v])) = Elements(queue[v]) \ {x}
        /\ x \in Custody(w) => w = v
        /\ x \notin Sendings(v)
    BY <1>0, <2>1, PopTakes
  <2>3. begun[x] =< failovers /\ (x \in ended => begun[x] > 0)
    BY <2>2 DEF DeliveryInv, HandedOut, Handouts
  <2> HIDE DEF x
  <2>4. x \notin Sendings(w) /\ x \notin Elements(queue'[w])
        /\ Elements(queue'[w]) \subseteq Elements(queue[w])
    BY <1>0, <2>1, <2>2 DEF Custody, Assigned, PipelineTypes
  <2>5. \A t \in Sendings(w)' : begun'[t] = 0
    <3>1. Sendings(w)' = Sendings(w)
      BY <2>1 DEF Sendings
    <3>2. \A t \in Sendings(w) : begun[t] = 0 /\ t \in Tasks
      BY <1>0, CustodyTypes DEF HandedOut, Custody
    <3>3. QED
      BY <1>0, <2>1, <2>4, <3>1, <3>2
  <2>6. \A t \in Elements(queue'[w]) : begun'[t] =< failovers'
    <3>1. \A t \in Elements(queue[w]) : begun[t] =< failovers /\ t \in Tasks
      BY <1>0, CustodyTypes DEF HandedOut, Custody, Assigned
    <3>2. QED
      BY <1>0, <2>1, <2>4, <3>1
  <2>7. ASSUME NEW t \in hand'[w]
        PROVE  /\ hand'[w] = {t} /\ pc'[w] = "busy" /\ begun'[t] > 0
               /\ failovers' = 0 => t \notin ended'
    <3>1. CASE w = v
      <4>1. hand'[w] = {x} /\ pc'[w] = "busy" /\ t = x
        BY <1>0, <2>1, <2>7, <3>1 DEF PipelineTypes, TypeOK
      <4>2. begun'[x] = begun[x] + 1 /\ begun[x] \in Nat
        BY <1>0, <2>1, <2>2
      <4>3. failovers = 0 => begun[x] = 0
        BY <1>0, <2>3, <4>2
      <4>4. QED
        BY <1>0, <2>1, <2>3, <4>1, <4>2, <4>3
    <3>2. CASE w # v
      <4>1. hand'[w] = hand[w] /\ pc'[w] = pc[w] /\ t \in hand[w]
        BY <1>0, <2>1, <2>7, <3>2 DEF PipelineTypes, TypeOK
      <4>2. t # x /\ t \in Tasks
        BY <1>0, <2>2, <3>2, <4>1, CustodyTypes DEF Custody, Assigned
      <4>3. QED
        BY <1>0, <2>1, <4>1, <4>2 DEF HandedOut
    <3>3. QED
      BY <3>1, <3>2
  <2>8. QED
    BY <2>5, <2>6, <2>7 DEF HandedOut
<1>5. ASSUME NEW v \in Workers, PopLosesTask(v)
      PROVE  HandedOut(w)'
  <2>1. /\ queue[v] # <<>> /\ queue' = [queue EXCEPT ![v] = Tail(@)]
        /\ UNCHANGED <<sending, hand, begun, ended, failovers>>
    BY <1>5 DEF PopLosesTask
  <2>2. pc[v] = "idle" /\ \A u \in Workers \ {v} : pc'[u] = pc[u]
    BY <1>0, <1>5 DEF PopLosesTask, PopFails, Finally, TypeOK
  <2>3. Elements(queue'[w]) \subseteq Elements(queue[w])
    BY <1>0, <2>1, PopTakes DEF PipelineTypes
  <2>4. \A t \in hand[w] : pc'[w] = "busy"
    BY <1>0, <2>2 DEF HandedOut
  <2>5. Sendings(w)' = Sendings(w)
    BY <2>1 DEF Sendings
  <2>6. QED
    BY <1>0, <2>1, <2>3, <2>4, <2>5 DEF HandedOut
<1>6. ASSUME NEW v \in Workers, HandleReturns(v) \/ Killed(v)
      PROVE  HandedOut(w)'
  <2>1. /\ hand' = [hand EXCEPT ![v] = {}]
        /\ ended' \subseteq ended \cup hand[v]
        /\ \A u \in Workers \ {v} : pc'[u] = pc[u]
        /\ UNCHANGED <<sending, queue, begun, failovers>>
    BY <1>0, <1>6 DEF HandleReturns, EndTask, LoopTop, Finally, Killed, Crash, TypeOK
  <2>2. Sendings(w)' = Sendings(w)
    BY <2>1 DEF Sendings
  <2>3. ASSUME NEW t \in hand'[w]
        PROVE  /\ hand'[w] = {t} /\ pc'[w] = "busy" /\ begun'[t] > 0
               /\ failovers' = 0 => t \notin ended'
    <3>1. w # v /\ hand'[w] = hand[w] /\ pc'[w] = pc[w]
      BY <1>0, <2>1, <2>3 DEF PipelineTypes
    <3>2. t \notin hand[v]
      BY <1>0, <2>3, <3>1, OneCustodian DEF OnePlace, Custody, Assigned
    <3>3. QED
      BY <1>0, <2>1, <2>3, <3>1, <3>2 DEF HandedOut
  <2>4. QED
    BY <1>0, <2>1, <2>2, <2>3 DEF HandedOut
<1>7. CASE Promote
  <2>1. /\ queue' = rqueue /\ failovers' = failovers + 1
        /\ UNCHANGED <<pc, sending, hand, begun, ended>>
    BY <1>7 DEF Promote, Failover, workerVars
  <2>2. Elements(rqueue[w]) \subseteq Tasks
    BY <1>0, CustodyTypes DEF Custody, Assigned
  <2>3. \A t \in Elements(queue'[w]) : begun'[t] =< failovers'
    BY <1>0, <2>1, <2>2 DEF Handouts
  <2>4. Sendings(w)' = Sendings(w)
    BY <2>1 DEF Sendings
  <2>5. QED
    BY <1>0, <2>1, <2>3, <2>4 DEF HandedOut
<1>8. ASSUME UNCHANGED <<sending, queue, hand, historyVars>>,
             pc[w] = "busy" => pc'[w] = "busy"
      PROVE  HandedOut(w)'
  <2>1. Sendings(w)' = Sendings(w)
    BY <1>8 DEF Sendings
  <2>2. QED
    BY <1>0, <1>8, <2>1 DEF HandedOut
<1>9. ASSUME NEW v \in Workers, Replicate(v)
      PROVE  HandedOut(w)'
  BY <1>8, <1>9 DEF Replicate, mvars
<1>10. ASSUME \/ \E v \in Workers : WorkerStep(v)
              \/ \E r \in Registries, t \in Refreshers : RegistryStep(r, t)
              \/ UNCHANGED cvars
       PROVE  HandedOut(w)'
  <2>1. UNCHANGED pipeVars
    BY <1>10 DEF WorkerStep, RegistryStep, cvars
  <2>2. pc[w] = "busy" => pc'[w] = "busy"
    BY <1>0, <1>10, BusyStays
  <2>3. QED
    BY <1>8, <2>1, <2>2
<1>11. QED
  BY <1>1, <1>2, <1>3, <1>4, <1>5, <1>6, <1>7, <1>9, <1>10 DEF ClusterNext

LEMMA DeliveryInvariant == ClusterSpec => []DeliveryInv
<1>1. ClusterInv /\ InitCluster => DeliveryInv
  <2> SUFFICES ASSUME ClusterInv, InitCluster PROVE DeliveryInv
    OBVIOUS
  <2>1. \A r \in Registries, w \in Workers : sending[r][w] = <<>>
    BY DEF InitCluster, Nothing
  <2>2. \A w \in Workers : Sendings(w) = {}
    BY <2>1, ElementsEmpty DEF Sendings
  <2>3. OnePlace
    BY <2>1, ElementsEmpty, InjectiveEmpty DEF InitCluster, OnePlace, OneRoute, OneList
  <2>4. Handouts /\ \A w \in Workers : HandedOut(w)
    BY <2>2, ElementsEmpty DEF InitCluster, Handouts, HandedOut
  <2>5. QED
    BY <2>3, <2>4 DEF DeliveryInv
<1>2. ClusterInv' /\ DeliveryInv /\ [ClusterNext]_cvars => DeliveryInv'
  <2> SUFFICES ASSUME ClusterInv', DeliveryInv, [ClusterNext]_cvars
               PROVE  DeliveryInv'
    OBVIOUS
  <2>1. OnePlace'
    BY OnePlaceInductive DEF DeliveryInv
  <2>2. Handouts' /\ \A w \in Workers : HandedOut(w)'
    BY HandoutsInductive, HandedOutInductive
  <2>3. QED
    BY <2>1, <2>2 DEF DeliveryInv
<1>3. QED
  BY <1>1, <1>2, ClusterInvariant, PTL DEF ClusterSpec

(* A task is handed out again only where a failover undid its pop: never   *)
(* more often than once, and once more per failover.                       *)
THEOREM HandedOutOncePerFailover == ClusterSpec => []RepeatsNeedFailover
<1>1. DeliveryInv => RepeatsNeedFailover
  BY DEF DeliveryInv, Handouts, RepeatsNeedFailover
<1>2. QED
  BY <1>1, DeliveryInvariant, PTL

-----------------------------------------------------------------------------
(* The pipeline implements TaskDelivery as long as there is no failover.   *)

(* Who has t, by the kind of its place. *)
Sent(t) == \E w \in Workers : t \in Sendings(w)
Queued(t) == \E w \in Workers : t \in Elements(queue[w])
Running(t) == \E w \in Workers : t \in hand[w]
Owners(t) == {d.worker : d \in route[t]}

LEMMA PlacesAre ==
  ASSUME NEW t, NEW p
  PROVE  p \in Places(t) <=>
           \E w \in Workers :
             \/ \E r \in Registries : \E i \in DOMAIN sending[r][w] :
                  sending[r][w][i] = t /\ p = <<"routed", w, r, i>>
             \/ \E i \in DOMAIN queue[w] : queue[w][i] = t /\ p = <<"queued", w, i>>
             \/ t \in hand[w] /\ p = <<"running", w>>
<1> DEFINE At(s) == {i \in DOMAIN s : s[i] = t}
           sent(w) == UNION {{<<"routed", w, r, i>> : i \in At(sending[r][w])} : r \in Registries}
           queued(w) == {<<"queued", w, i>> : i \in At(queue[w])}
           running(w) == {<<"running", w>> : u \in hand[w] \cap {t}}
<1>1. Places(t) = UNION {sent(w) \cup queued(w) \cup running(w) : w \in Workers}
  BY DEF Places
<1>2. \A w : p \in sent(w) <=>
        \E r \in Registries : \E i \in DOMAIN sending[r][w] :
          sending[r][w][i] = t /\ p = <<"routed", w, r, i>>
  OBVIOUS
<1>3. \A w : p \in queued(w) <=>
        \E i \in DOMAIN queue[w] : queue[w][i] = t /\ p = <<"queued", w, i>>
  OBVIOUS
<1>4. \A w : p \in running(w) <=> t \in hand[w] /\ p = <<"running", w>>
  OBVIOUS
<1> HIDE DEF sent, queued, running
<1>5. QED
  BY <1>1, <1>2, <1>3, <1>4

(* A task that is at one place has the stage of that place, and one that   *)
(* is nowhere that of its history.                                         *)
LEMMA StageOfPlace ==
  ASSUME NEW t, NEW p, Places(t) = {p}
  PROVE  Stage(t) = p[1] /\ Holders(t) = {p[2]}
<1>1. Places(t) # {} /\ \E q \in Places(t) : Places(t) = {q}
  OBVIOUS
<1>2. (CHOOSE q \in Places(t) : TRUE) = p
  OBVIOUS
<1>3. {q[2] : q \in Places(t)} = {p[2]}
  OBVIOUS
<1>4. QED
  BY <1>1, <1>2, <1>3 DEF Stage, Holders

LEMMA StageOfNowhere ==
  ASSUME NEW t, Places(t) = {}
  PROVE  /\ t \in ended => Stage(t) = "ended"
         /\ t \notin ended /\ route[t] = {} => Stage(t) = "new"
         /\ t \notin ended /\ route[t] # {} => Stage(t) = "lost"
         /\ Holders(t) = Owners(t)
BY DEF Stage, Holders, Owners

(* The worker a task waits for is its owner in TaskDelivery. *)
LEMMA CustodianOwns ==
  ASSUME ClusterInv, OneRoute, NEW w \in Workers, NEW t \in Custody(w)
  PROVE  t \in Tasks /\ Owners(t) = {w}
<1>1. t \in Tasks
  BY CustodyTypes DEF ClusterInv
<1>2. RoutedTo(t, w)
  BY DEF ClusterInv, CustodyRouted
<1>3. QED
  BY <1>1, <1>2 DEF RoutedTo, OneRoute, Owners

(* Without failovers a task is at one place at most: not in two of these,  *)
(* not twice in one, and with no worker but the one it was routed to.      *)
Apart(t) ==
  /\ Sent(t) => route[t] # {} /\ begun[t] = 0 /\ ~Queued(t)
  /\ Queued(t) => route[t] # {} /\ begun[t] = 0
  /\ Running(t) => route[t] # {} /\ begun[t] > 0 /\ t \notin ended
  /\ t \in ended => route[t] # {} /\ begun[t] > 0

LEMMA PlacesApart ==
  ASSUME DeliveryInv, failovers = 0, NEW t \in Tasks
  PROVE  Apart(t)
<1>0. ClusterInv /\ OneRoute /\ Handouts /\ begun[t] \in Nat
  BY DEF DeliveryInv, OnePlace, ClusterInv, PipelineTypes
<1>1. ASSUME Sent(t)
      PROVE  route[t] # {} /\ begun[t] = 0 /\ ~Queued(t)
  <2>1. PICK w \in Workers : t \in Sendings(w)
    BY <1>1 DEF Sent
  <2>2. t \in Custody(w)
    BY <2>1 DEF Custody
  <2>3. begun[t] = 0 /\ route[t] # {}
    BY <1>0, <2>1, <2>2, OneCustodian DEF DeliveryInv, HandedOut
  <2>4. \A v \in Workers : t \in Elements(queue[v]) => v = w
    BY <1>0, <2>2, OneCustodian DEF Custody, Assigned
  <2>5. t \notin Elements(queue[w])
    BY <2>1 DEF DeliveryInv, OnePlace, OneList, Sendings
  <2>6. QED
    BY <2>3, <2>4, <2>5 DEF Queued
<1>2. ASSUME Queued(t)
      PROVE  route[t] # {} /\ begun[t] = 0
  <2>1. PICK w \in Workers : t \in Elements(queue[w])
    BY <1>2 DEF Queued
  <2>2. t \in Custody(w) /\ begun[t] =< 0
    BY <2>1 DEF Custody, Assigned, DeliveryInv, HandedOut
  <2>3. QED
    BY <1>0, <2>2, OneCustodian
<1>3. ASSUME Running(t)
      PROVE  route[t] # {} /\ begun[t] > 0 /\ t \notin ended
  <2>1. PICK w \in Workers : t \in hand[w]
    BY <1>3 DEF Running
  <2>2. t \in Custody(w) /\ begun[t] > 0 /\ t \notin ended
    BY <2>1 DEF Custody, Assigned, DeliveryInv, HandedOut
  <2>3. QED
    BY <1>0, <2>2, OneCustodian
<1>4. t \in ended => route[t] # {} /\ begun[t] > 0
  BY <1>0 DEF Handouts
<1>5. QED
  BY <1>1, <1>2, <1>3, <1>4 DEF Apart

LEMMA NowhereHasNoPlace ==
  ASSUME NEW t, ~Sent(t), ~Queued(t), ~Running(t)
  PROVE  Places(t) = {}
<1>1. SUFFICES ASSUME NEW p \in Places(t) PROVE FALSE
  OBVIOUS
<1>2. PICK w \in Workers :
        \/ \E r \in Registries : \E i \in DOMAIN sending[r][w] : sending[r][w][i] = t
        \/ \E i \in DOMAIN queue[w] : queue[w][i] = t
        \/ t \in hand[w]
  BY PlacesAre
<1>3. QED
  BY <1>2 DEF Sent, Queued, Running, Sendings, Elements

(* The place of a task that a push, a list or a worker has. *)
LEMMA SentPlace ==
  ASSUME DeliveryInv, NEW t \in Tasks, Apart(t), Sent(t)
  PROVE  Stage(t) = "routed" /\ Holders(t) = Owners(t)
<1>0. ClusterInv /\ OnePlace /\ OneRoute
  BY DEF DeliveryInv, OnePlace
<1>1. PICK w \in Workers, r \in Registries : t \in Elements(sending[r][w])
  BY DEF Sent, Sendings
<1>2. PICK i \in DOMAIN sending[r][w] : sending[r][w][i] = t
  BY <1>1 DEF Elements
<1>3. t \in Custody(w)
  BY <1>1 DEF Custody, Sendings
<1>4. ~Queued(t) /\ ~Running(t)
  BY DEF Apart
<1>5. ASSUME NEW v \in Workers, NEW q \in Registries, NEW j \in DOMAIN sending[q][v],
             sending[q][v][j] = t
      PROVE  v = w /\ q = r /\ j = i
  <2>1. t \in Elements(sending[q][v])
    BY <1>5 DEF Elements
  <2>2. t \in Custody(v)
    BY <2>1 DEF Custody, Sendings
  <2>3. v = w
    BY <1>0, <1>3, <2>2, OneCustodian
  <2>4. OneList(w)
    BY <1>0 DEF OnePlace
  <2>5. q = r
    BY <1>1, <2>1, <2>3, <2>4 DEF OneList
  <2>6. IsInjective(sending[r][w])
    BY <2>4 DEF OneList
  <2>7. QED
    BY <1>2, <1>5, <2>3, <2>5, <2>6 DEF IsInjective
<1>6. <<"routed", w, r, i>> \in Places(t)
  BY <1>2, PlacesAre
<1>7. ASSUME NEW p \in Places(t)
      PROVE  p = <<"routed", w, r, i>>
  <2>1. PICK v \in Workers :
          \/ \E q \in Registries : \E j \in DOMAIN sending[q][v] :
               sending[q][v][j] = t /\ p = <<"routed", v, q, j>>
          \/ \E j \in DOMAIN queue[v] : queue[v][j] = t
          \/ t \in hand[v]
    BY PlacesAre
  <2>2. ~ \E j \in DOMAIN queue[v] : queue[v][j] = t
    BY <1>4 DEF Queued, Elements
  <2>3. t \notin hand[v]
    BY <1>4 DEF Running
  <2>4. QED
    BY <1>5, <2>1, <2>2, <2>3
<1>8. Places(t) = {<<"routed", w, r, i>>}
  BY <1>6, <1>7
<1>9. Stage(t) = "routed" /\ Holders(t) = {w}
  <2>1. PICK p : p = <<"routed", w, r, i>>
    OBVIOUS
  <2>2. Stage(t) = p[1] /\ Holders(t) = {p[2]}
    BY <1>8, <2>1, StageOfPlace
  <2>3. p[1] = "routed" /\ p[2] = w
    BY <2>1
  <2>4. QED
    BY <2>2, <2>3
<1>10. QED
  BY <1>0, <1>3, <1>9, CustodianOwns

LEMMA QueuedPlace ==
  ASSUME DeliveryInv, NEW t \in Tasks, Apart(t), Queued(t)
  PROVE  Stage(t) = "queued" /\ Holders(t) = Owners(t)
<1>0. ClusterInv /\ OnePlace /\ OneRoute
  BY DEF DeliveryInv, OnePlace
<1>1. PICK w \in Workers : t \in Elements(queue[w])
  BY DEF Queued
<1>2. PICK i \in DOMAIN queue[w] : queue[w][i] = t
  BY <1>1 DEF Elements
<1>3. t \in Custody(w)
  BY <1>1 DEF Custody, Assigned
<1>4. ~Sent(t) /\ ~Running(t)
  BY DEF Apart
<1>5. ASSUME NEW v \in Workers, NEW j \in DOMAIN queue[v], queue[v][j] = t
      PROVE  v = w /\ j = i
  <2>1. t \in Custody(v)
    BY <1>5 DEF Custody, Assigned, Elements
  <2>2. v = w
    BY <1>0, <1>3, <2>1, OneCustodian
  <2>3. IsInjective(queue[w])
    BY <1>0 DEF OnePlace, OneList
  <2>4. QED
    BY <1>2, <1>5, <2>2, <2>3 DEF IsInjective
<1>6. <<"queued", w, i>> \in Places(t)
  BY <1>2, PlacesAre
<1>7. ASSUME NEW p \in Places(t)
      PROVE  p = <<"queued", w, i>>
  <2>1. PICK v \in Workers :
          \/ \E q \in Registries : \E j \in DOMAIN sending[q][v] : sending[q][v][j] = t
          \/ \E j \in DOMAIN queue[v] : queue[v][j] = t /\ p = <<"queued", v, j>>
          \/ t \in hand[v]
    BY PlacesAre
  <2>2. ~ \E q \in Registries : \E j \in DOMAIN sending[q][v] : sending[q][v][j] = t
    BY <1>4 DEF Sent, Sendings, Elements
  <2>3. t \notin hand[v]
    BY <1>4 DEF Running
  <2>4. QED
    BY <1>5, <2>1, <2>2, <2>3
<1>8. Places(t) = {<<"queued", w, i>>}
  BY <1>6, <1>7
<1>9. Stage(t) = "queued" /\ Holders(t) = {w}
  <2>1. PICK p : p = <<"queued", w, i>>
    OBVIOUS
  <2>2. Stage(t) = p[1] /\ Holders(t) = {p[2]}
    BY <1>8, <2>1, StageOfPlace
  <2>3. p[1] = "queued" /\ p[2] = w
    BY <2>1
  <2>4. QED
    BY <2>2, <2>3
<1>10. QED
  BY <1>0, <1>3, <1>9, CustodianOwns

LEMMA RunningPlace ==
  ASSUME DeliveryInv, NEW t \in Tasks, Apart(t), Running(t)
  PROVE  Stage(t) = "running" /\ Holders(t) = Owners(t)
<1>0. ClusterInv /\ OneRoute
  BY DEF DeliveryInv, OnePlace
<1>1. PICK w \in Workers : t \in hand[w]
  BY DEF Running
<1>2. t \in Custody(w)
  BY <1>1 DEF Custody, Assigned
<1>3. ~Sent(t) /\ ~Queued(t)
  BY DEF Apart
<1>4. \A v \in Workers : t \in hand[v] => v = w
  BY <1>0, <1>2, OneCustodian DEF Custody, Assigned
<1>5. <<"running", w>> \in Places(t)
  BY <1>1, PlacesAre
<1>6. ASSUME NEW p \in Places(t)
      PROVE  p = <<"running", w>>
  <2>1. PICK v \in Workers :
          \/ \E q \in Registries : \E j \in DOMAIN sending[q][v] : sending[q][v][j] = t
          \/ \E j \in DOMAIN queue[v] : queue[v][j] = t
          \/ t \in hand[v] /\ p = <<"running", v>>
    BY PlacesAre
  <2>2. ~ \E q \in Registries : \E j \in DOMAIN sending[q][v] : sending[q][v][j] = t
    BY <1>3 DEF Sent, Sendings, Elements
  <2>3. ~ \E j \in DOMAIN queue[v] : queue[v][j] = t
    BY <1>3 DEF Queued, Elements
  <2>4. QED
    BY <1>4, <2>1, <2>2, <2>3
<1>7. Places(t) = {<<"running", w>>}
  BY <1>5, <1>6
<1>8. Stage(t) = "running" /\ Holders(t) = {w}
  <2>1. PICK p : p = <<"running", w>>
    OBVIOUS
  <2>2. Stage(t) = p[1] /\ Holders(t) = {p[2]}
    BY <1>7, <2>1, StageOfPlace
  <2>3. p[1] = "running" /\ p[2] = w
    BY <2>1
  <2>4. QED
    BY <2>2, <2>3
<1>9. QED
  BY <1>0, <1>2, <1>8, CustodianOwns

(* So its stage says exactly where a task is, and its holder is its owner. *)
StagesExact ==
  \A t \in Tasks :
    /\ Stage(t) \in {"new", "routed", "queued", "running", "ended", "lost"}
    /\ Stage(t) = "new" <=> route[t] = {}
    /\ Stage(t) = "routed" <=> Sent(t)
    /\ Stage(t) = "queued" <=> Queued(t)
    /\ Stage(t) = "running" <=> Running(t)
    /\ Stage(t) = "ended" <=> t \in ended
    /\ Holders(t) = Owners(t)

LEMMA StageTellsPlace == DeliveryInv /\ failovers = 0 => StagesExact
<1> SUFFICES ASSUME DeliveryInv, failovers = 0, NEW t \in Tasks
             PROVE  /\ Stage(t) \in {"new", "routed", "queued", "running", "ended", "lost"}
                    /\ Stage(t) = "new" <=> route[t] = {}
                    /\ Stage(t) = "routed" <=> Sent(t)
                    /\ Stage(t) = "queued" <=> Queued(t)
                    /\ Stage(t) = "running" <=> Running(t)
                    /\ Stage(t) = "ended" <=> t \in ended
                    /\ Holders(t) = Owners(t)
  BY DEF StagesExact
<1>0. Apart(t)
  BY PlacesApart
<1>1. CASE Sent(t)
  <2>1. Stage(t) = "routed" /\ Holders(t) = Owners(t)
    BY <1>0, <1>1, SentPlace
  <2>2. route[t] # {} /\ ~Queued(t) /\ ~Running(t) /\ t \notin ended
    BY <1>0, <1>1 DEF Apart
  <2>3. QED
    BY <1>1, <2>1, <2>2
<1>2. CASE Queued(t)
  <2>1. Stage(t) = "queued" /\ Holders(t) = Owners(t)
    BY <1>0, <1>2, QueuedPlace
  <2>2. route[t] # {} /\ ~Sent(t) /\ ~Running(t) /\ t \notin ended
    BY <1>0, <1>2 DEF Apart
  <2>3. QED
    BY <1>2, <2>1, <2>2
<1>3. CASE Running(t)
  <2>1. Stage(t) = "running" /\ Holders(t) = Owners(t)
    BY <1>0, <1>3, RunningPlace
  <2>2. route[t] # {} /\ ~Sent(t) /\ ~Queued(t) /\ t \notin ended
    BY <1>0, <1>3 DEF Apart
  <2>3. QED
    BY <1>3, <2>1, <2>2
<1>4. CASE ~Sent(t) /\ ~Queued(t) /\ ~Running(t)
  <2>1. Places(t) = {}
    BY <1>4, NowhereHasNoPlace
  <2>2. t \in ended => route[t] # {}
    BY <1>0 DEF Apart
  <2>3. QED
    BY <1>4, <2>1, <2>2, StageOfNowhere
<1>5. QED
  BY <1>1, <1>2, <1>3, <1>4

(* A set of tasks that moves on while the others stay where they are. *)
LEMMA StagesAdvance ==
  ASSUME NEW T \in SUBSET Tasks, T # {}, NEW from, NEW to, from # to,
         \A t \in T : Stage(t) = from /\ Stage(t)' = to,
         \A t \in Tasks \ T : Stage(t)' = Stage(t)
  PROVE  /\ Abstract!Advance(T, from, to)
         /\ [t \in Tasks |-> Stage(t)]' # [t \in Tasks |-> Stage(t)]
<1>1. Abstract!Advance(T, from, to)
  BY DEF Abstract!Advance
<1>2. PICK t \in T : Stage(t)' # Stage(t)
  OBVIOUS
<1>3. [u \in Tasks |-> Stage(u)]'[t] # [u \in Tasks |-> Stage(u)][t]
  BY <1>2
<1>4. QED
  BY <1>1, <1>3

(* What a step leaves where it is keeps its stage. *)
Undisturbed(t) ==
  /\ (route[t] = {})' <=> route[t] = {}
  /\ Sent(t)' <=> Sent(t)
  /\ Queued(t)' <=> Queued(t)
  /\ Running(t)' <=> Running(t)
  /\ (t \in ended)' <=> t \in ended

LEMMA StageStays ==
  ASSUME StagesExact, StagesExact', NEW t \in Tasks, Undisturbed(t)
  PROVE  Stage(t)' = Stage(t)
BY DEF StagesExact, Undisturbed

(* The stage of a task that a step takes from where it was, and nowhere.   *)
LEMMA StageLost ==
  ASSUME StagesExact', NEW t \in Tasks,
         route'[t] # {}, ~Sent(t)', ~Queued(t)', ~Running(t)', t \notin ended'
  PROVE  Stage(t)' = "lost"
BY DEF StagesExact

(* Nothing but a dispatch gives a task to a worker, or to another one. *)
LEMMA OwnersStay ==
  ASSUME StagesExact, StagesExact', UNCHANGED route
  PROVE  UNCHANGED [t \in Tasks |-> Holders(t)]
<1>1. \A t \in Tasks : Holders(t)' = Holders(t)
  BY DEF StagesExact, Owners
<1>2. QED
  BY <1>1

LEMMA BatchesStay ==
  ASSUME UNCHANGED sending
  PROVE  UNCHANGED [t \in Tasks |-> Batch(t)]
BY DEF Batch, InPush

(* dispatch and dispatch_many: Route of the batch. *)
LEMMA DispatchRoutes ==
  ASSUME DeliveryInv, StagesExact, StagesExact',
         NEW r \in Registries, NEW T \in Batches, Dispatch(r, T)
  PROVE  Abstract!DeliveryNext
<1> DEFINE o(t) == Owner(ring[r], RoutingKey[t])
<1>1. TypeOK /\ PipelineTypes /\ ClusterInv /\ OneRoute
  BY DEF DeliveryInv, ClusterInv, MembershipInv, OnePlace
<1>2. /\ ring[r] \in SUBSET Workers
      /\ \A t \in T : route[t] = {} /\ o(t) \in ring[r]
      /\ route' = [t \in Tasks |->
           IF t \in T THEN {[worker |-> o(t), view |-> ring[r]]} ELSE route[t]]
      /\ sending' = [sending EXCEPT ![r] = sending'[r]]
      /\ sending[r] = Nothing
      /\ \A w \in Workers : Elements(sending'[r][w]) = {t \in T : o(t) = w}
  BY <1>1, DispatchResult
<1>3. T \in SUBSET Tasks /\ T # {}
  <2>1. T \in SUBSET Tasks /\ Cardinality(T) \in 1 .. MaxBatch
    BY DEF Batches
  <2>2. Cardinality(T) # 0
    BY <2>1, ClusterConstants
  <2>3. QED
    BY <2>1, <2>2, FS_EmptySet
<1>4. \A w \in Workers : Elements(sending[r][w]) = {}
  BY <1>2, ElementsEmpty DEF Nothing
<1>5. \A q \in Registries \ {r} : sending'[q] = sending[q]
  BY <1>1, <1>2 DEF PipelineTypes
<1>6. UNCHANGED <<queue, hand, ended>>
  BY DEF Dispatch, Send
<1>7. ASSUME NEW t \in T
      PROVE  Stage(t) = "new" /\ Stage(t)' = "routed"
  <2>1. t \in Elements(sending'[r][o(t)]) /\ o(t) \in Workers
    BY <1>2
  <2>2. Sent(t)'
    BY <2>1 DEF Sent, Sendings
  <2>3. QED
    BY <1>2, <1>3, <2>2 DEF StagesExact
<1>8. ASSUME NEW t \in Tasks \ T
      PROVE  Stage(t)' = Stage(t)
  <2>1. route'[t] = route[t]
    BY <1>2
  <2>2. Sent(t)' <=> Sent(t)
    <3>1. \A w \in Workers : t \notin Elements(sending[r][w])
      BY <1>4
    <3>2. \A w \in Workers : t \notin Elements(sending'[r][w])
      BY <1>2
    <3> HIDE DEF o
    <3>3. QED
      BY <1>5, <3>1, <3>2 DEF Sent, Sendings
  <2>3. Undisturbed(t)
    BY <1>6, <2>1, <2>2 DEF Undisturbed, Queued, Running
  <2>4. QED
    BY <2>3, StageStays
<1>9. /\ Abstract!Advance(T, "new", "routed")
      /\ [t \in Tasks |-> Stage(t)]' # [t \in Tasks |-> Stage(t)]
  BY <1>3, <1>7, <1>8, StagesAdvance
<1>10. [t \in T |-> o(t)] \in [T -> Workers]
  BY <1>2
<1>11. [t \in Tasks |-> Holders(t)]' =
         [t \in Tasks |-> IF t \in T THEN {[u \in T |-> o(u)][t]}
                          ELSE [u \in Tasks |-> Holders(u)][t]]
  <2>1. ASSUME NEW t \in T
        PROVE  Holders(t)' = {o(t)}
    <3>1. route'[t] = {[worker |-> o(t), view |-> ring[r]]}
      BY <1>2, <1>3
    <3>2. Holders(t)' = {d.worker : d \in route'[t]}
      BY <1>3 DEF StagesExact, Owners
    <3> HIDE DEF o
    <3>3. QED
      BY <3>1, <3>2
  <2>2. ASSUME NEW t \in Tasks \ T
        PROVE  Holders(t)' = Holders(t)
    <3>1. route'[t] = route[t]
      BY <1>2
    <3>2. QED
      BY <3>1 DEF StagesExact, Owners
  <2> HIDE DEF o
  <2>3. QED
    BY <1>3, <2>1, <2>2
<1>12. [t \in Tasks |-> Batch(t)]' =
         [t \in Tasks |-> IF t \in T THEN T ELSE [u \in Tasks |-> Batch(u)][t]]
  <2>1. InPush(r)' = T /\ InPush(r) = {}
    <3>1. \A t \in T : o(t) \in Workers
      BY <1>2
    <3> HIDE DEF o
    <3>2. InPush(r)' = UNION {{t \in T : o(t) = w} : w \in Workers}
      BY <1>2 DEF InPush
    <3>3. UNION {{t \in T : o(t) = w} : w \in Workers} = T
      BY <3>1
    <3>4. InPush(r) = {}
      BY <1>4 DEF InPush
    <3>5. QED
      BY <3>2, <3>3, <3>4
  <2>2. \A q \in Registries \ {r} : InPush(q)' = InPush(q)
    BY <1>5 DEF InPush
  <2>3. ASSUME NEW t \in T
        PROVE  Batch(t)' = T
    <3>1. \A q \in Registries : t \notin InPush(q)
      <4>1. ASSUME NEW q \in Registries, NEW w \in Workers, t \in Elements(sending[q][w])
            PROVE  FALSE
        <5>1. t \in Custody(w)
          BY <4>1 DEF Custody, Sendings
        <5>2. route[t] # {}
          BY <1>1, <5>1, OneCustodian
        <5>3. QED
          BY <1>2, <5>2
      <4>2. QED
        BY <4>1 DEF InPush
    <3>2. {q \in Registries : t \in InPush(q)'} = {r}
      BY <2>1, <2>2, <3>1
    <3>3. QED
      BY <2>1, <3>2 DEF Batch
  <2>4. ASSUME NEW t \in Tasks \ T
        PROVE  Batch(t)' = Batch(t)
    <3>1. {q \in Registries : t \in InPush(q)'} = {q \in Registries : t \in InPush(q)}
      BY <2>1, <2>2
    <3>2. \A q \in {q \in Registries : t \in InPush(q)} : InPush(q)' = InPush(q)
      BY <2>1, <2>2
    <3>3. QED
      BY <3>1, <3>2 DEF Batch
  <2>5. QED
    BY <1>3, <2>3, <2>4
<1>13. Abstract!Route(T)
  BY <1>9, <1>10, <1>11, <1>12 DEF Abstract!Route
<1>14. QED
  BY <1>3, <1>9, <1>13 DEF Abstract!DeliveryNext

(* What the end of a push means for its tasks, which are a batch. *)
LEMMA PushOver ==
  ASSUME ClusterInv, OnePlace, NEW r \in Registries, sending[r] # Nothing,
         sending' = [sending EXCEPT ![r] = Nothing]
  PROVE  /\ InPush(r) \in SUBSET Tasks /\ InPush(r) # {}
         /\ \A t \in InPush(r) : /\ Sent(t) /\ ~Sent(t)'
                                 /\ Batch(t) = InPush(r) /\ Batch(t)' = {}
         /\ \A t \in Tasks \ InPush(r) : /\ Sent(t)' <=> Sent(t)
                                         /\ Batch(t)' = Batch(t)
<1>1. sending[r] \in [Workers -> Seq(Tasks)]
  BY DEF ClusterInv, PipelineTypes
<1>2. PICK w \in Workers : sending[r][w] # <<>>
  BY <1>1 DEF Nothing
<1>3. Head(sending[r][w]) \in Elements(sending[r][w])
  BY <1>1, <1>2, ElementsHeadTail
<1>4. InPush(r) \in SUBSET Tasks
  BY <1>1 DEF InPush, Elements
<1>5. InPush(r) # {}
  BY <1>2, <1>3 DEF InPush
<1>6. ASSUME NEW t \in InPush(r), NEW q \in Registries, t \in InPush(q)
      PROVE  q = r
  <2>1. PICK u \in Workers : t \in Elements(sending[r][u])
    BY <1>6 DEF InPush
  <2>2. PICK v \in Workers : t \in Elements(sending[q][v])
    BY <1>6 DEF InPush
  <2>3. t \in Custody(u) /\ t \in Custody(v)
    BY <2>1, <2>2 DEF Custody, Sendings
  <2>4. u = v
    BY <2>3, OneCustodian DEF OnePlace
  <2>5. QED
    BY <2>1, <2>2, <2>4 DEF OnePlace, OneList
<1>7. /\ \A v \in Workers : Elements(sending'[r][v]) = {}
      /\ \A q \in Registries \ {r} : sending'[q] = sending[q]
  BY ElementsEmpty DEF ClusterInv, PipelineTypes, Nothing
<1>8. InPush(r)' = {} /\ \A q \in Registries \ {r} : InPush(q)' = InPush(q)
  BY <1>7 DEF InPush
<1>9. \A t : Sent(t) <=> \E q \in Registries : t \in InPush(q)
  BY DEF Sent, Sendings, InPush
<1>10. \A t : Sent(t)' <=> \E q \in Registries : t \in InPush(q)'
  BY DEF Sent, Sendings, InPush
<1>11. ASSUME NEW t \in InPush(r)
       PROVE  Sent(t) /\ ~Sent(t)' /\ Batch(t) = InPush(r) /\ Batch(t)' = {}
  <2>1. {q \in Registries : t \in InPush(q)} = {r}
    BY <1>6
  <2>2. {q \in Registries : t \in InPush(q)'} = {}
    BY <1>6, <1>8
  <2>3. Batch(t) = InPush(r)
    BY <2>1 DEF Batch
  <2>4. Batch(t)' = {}
    BY <2>2 DEF Batch
  <2>5. Sent(t) /\ ~Sent(t)'
    BY <1>9, <1>10, <2>2
  <2>6. QED
    BY <2>3, <2>4, <2>5
<1>12. ASSUME NEW t \in Tasks \ InPush(r)
       PROVE  (Sent(t)' <=> Sent(t)) /\ Batch(t)' = Batch(t)
  <2>1. {q \in Registries : t \in InPush(q)'} = {q \in Registries : t \in InPush(q)}
    BY <1>8
  <2>2. \A q \in {q \in Registries : t \in InPush(q)} : InPush(q)' = InPush(q)
    BY <1>8
  <2>3. Batch(t)' = Batch(t)
    BY <2>1, <2>2 DEF Batch
  <2>4. Sent(t)' <=> Sent(t)
    BY <1>9, <1>10, <2>1
  <2>5. QED
    BY <2>3, <2>4
<1>13. QED
  BY <1>4, <1>5, <1>11, <1>12

(* The end of a push whose tasks all got to the same stage: Push. *)
LEMMA PushEnds ==
  ASSUME DeliveryInv, StagesExact, StagesExact', NEW r \in Registries,
         sending[r] # Nothing, sending' = [sending EXCEPT ![r] = Nothing],
         UNCHANGED route, NEW to \in {"queued", "lost"},
         \A t \in InPush(r) : Stage(t)' = to,
         \A t \in Tasks \ InPush(r) : Stage(t)' = Stage(t)
  PROVE  Abstract!DeliveryNext
<1>1. ClusterInv /\ OnePlace
  BY DEF DeliveryInv
<1> PICK T : T = InPush(r)
  OBVIOUS
<1>2. /\ T \in SUBSET Tasks /\ T # {}
      /\ \A t \in T : Sent(t) /\ Batch(t) = T /\ Batch(t)' = {}
      /\ \A t \in Tasks \ T : Batch(t)' = Batch(t)
  BY <1>1, PushOver
<1>3. \A t \in T : Stage(t) = "routed"
  BY <1>2 DEF StagesExact
<1>4. /\ Abstract!Advance(T, "routed", to)
      /\ [t \in Tasks |-> Stage(t)]' # [t \in Tasks |-> Stage(t)]
  BY <1>2, <1>3, StagesAdvance
<1>5. \A t \in T : [u \in Tasks |-> Batch(u)][t] = T
  BY <1>2
<1>6. [t \in Tasks |-> Batch(t)]' =
        [t \in Tasks |-> IF t \in T THEN {} ELSE [u \in Tasks |-> Batch(u)][t]]
  BY <1>2
<1>7. Abstract!Push(T)
  BY <1>4, <1>5, <1>6, OwnersStay DEF Abstract!Push
<1>8. QED
  BY <1>2, <1>4, <1>7 DEF Abstract!DeliveryNext

(* RPUSH or the pipeline's EXEC. *)
LEMMA PushDelivers ==
  ASSUME DeliveryInv, StagesExact, StagesExact', NEW r \in Registries, Push(r)
  PROVE  Abstract!DeliveryNext
<1>1. ClusterInv /\ OnePlace /\ sending[r] # Nothing
      /\ sending' = [sending EXCEPT ![r] = Nothing]
  BY DEF DeliveryInv, Push
<1>2. UNCHANGED <<hand, ended, route>>
  BY DEF Push, historyVars
<1>3. \A w \in Workers :
        Elements(queue'[w]) = Elements(queue[w]) \cup Elements(sending[r][w])
  BY <1>1, PushMoves
<1>4. ASSUME NEW t \in InPush(r)
      PROVE  Stage(t)' = "queued"
  <2>1. Queued(t)'
    BY <1>3 DEF InPush, Queued
  <2>2. t \in Tasks
    BY <1>1, PushOver
  <2>3. QED
    BY <2>1, <2>2 DEF StagesExact
<1>5. ASSUME NEW t \in Tasks \ InPush(r)
      PROVE  Stage(t)' = Stage(t)
  <2>1. \A w \in Workers : t \notin Elements(sending[r][w])
    BY DEF InPush
  <2>2. Queued(t)' <=> Queued(t)
    BY <1>3, <2>1 DEF Queued
  <2>3. Sent(t)' <=> Sent(t)
    BY <1>1, PushOver
  <2>4. Undisturbed(t)
    BY <1>2, <2>2, <2>3 DEF Undisturbed, Running
  <2>5. QED
    BY <2>4, StageStays
<1>6. QED
  BY <1>1, <1>2, <1>4, <1>5, PushEnds

(* A push that never reaches Redis: its tasks are lost. *)
LEMMA PushLostDelivers ==
  ASSUME DeliveryInv, StagesExact, StagesExact', NEW r \in Registries, PushLost(r)
  PROVE  Abstract!DeliveryNext
<1>1. ClusterInv /\ OnePlace /\ sending[r] # Nothing
      /\ sending' = [sending EXCEPT ![r] = Nothing]
  BY DEF DeliveryInv, PushLost
<1>2. UNCHANGED <<queue, hand, ended, route>>
  BY DEF PushLost, historyVars
<1>3. ASSUME NEW t \in InPush(r)
      PROVE  Stage(t)' = "lost"
  <2>1. t \in Tasks /\ Sent(t) /\ ~Sent(t)'
    BY <1>1, PushOver
  <2>2. Stage(t) = "routed"
    BY <2>1 DEF StagesExact
  <2>3. route[t] # {} /\ ~Queued(t) /\ ~Running(t) /\ t \notin ended
    BY <2>1, <2>2 DEF StagesExact
  <2>4. route'[t] # {} /\ ~Queued(t)' /\ ~Running(t)' /\ t \notin ended'
    BY <1>2, <2>3 DEF Queued, Running
  <2>5. QED
    BY <2>1, <2>4, StageLost
<1>4. ASSUME NEW t \in Tasks \ InPush(r)
      PROVE  Stage(t)' = Stage(t)
  <2>1. Sent(t)' <=> Sent(t)
    BY <1>1, PushOver
  <2>2. Undisturbed(t)
    BY <1>2, <2>1 DEF Undisturbed, Queued, Running
  <2>3. QED
    BY <2>2, StageStays
<1>5. QED
  BY <1>1, <1>2, <1>3, <1>4, PushEnds

(* What a pop does to the places of the tasks. *)
LEMMA PopPlaces ==
  ASSUME DeliveryInv, NEW w \in Workers, queue[w] # <<>>,
         queue' = [queue EXCEPT ![w] = Tail(@)],
         NEW x, x = Head(queue[w])
  PROVE  /\ x \in Tasks /\ Queued(x) /\ ~Queued(x)'
         /\ \A t \in Tasks \ {x} : Queued(t)' <=> Queued(t)
<1>1. /\ x \in Tasks /\ x \in Elements(queue[w])
      /\ Elements(Tail(queue[w])) = Elements(queue[w]) \ {x}
      /\ \A v \in Workers : x \in Custody(v) => v = w
  BY PopTakes DEF DeliveryInv
<1>2. \A v \in Workers : queue'[v] = IF v = w THEN Tail(queue[w]) ELSE queue[v]
  BY DEF DeliveryInv, ClusterInv, PipelineTypes
<1>3. \A v \in Workers \ {w} : x \notin Elements(queue[v])
  BY <1>1 DEF Custody, Assigned
<1>4. Queued(x) /\ ~Queued(x)'
  BY <1>1, <1>2, <1>3 DEF Queued
<1>5. \A t \in Tasks \ {x} : Queued(t)' <=> Queued(t)
  BY <1>1, <1>2 DEF Queued
<1>6. QED
  BY <1>1, <1>4, <1>5

(* BLPOP's reply: Begin of the task, by a worker that has no other. *)
LEMMA PopBegins ==
  ASSUME DeliveryInv, StagesExact, StagesExact', NEW w \in Workers, Pop(w)
  PROVE  Abstract!DeliveryNext
<1> PICK x : x = Head(queue[w])
  OBVIOUS
<1>0. TypeOK /\ PipelineTypes /\ ClusterInv /\ OnePlace /\ OneRoute
  BY DEF DeliveryInv, ClusterInv, MembershipInv, OnePlace
<1>1. /\ queue[w] # <<>> /\ pc[w] = "idle"
      /\ hand' = [hand EXCEPT ![w] = {x}]
      /\ queue' = [queue EXCEPT ![w] = Tail(@)]
      /\ UNCHANGED <<sending, route, ended>>
  BY DEF Pop, BeginTask
<1>2. /\ x \in Tasks /\ Queued(x) /\ ~Queued(x)'
      /\ \A t \in Tasks \ {x} : Queued(t)' <=> Queued(t)
  BY <1>1, PopPlaces
<1>3. x \in Custody(w)
  BY <1>0, <1>1, PopTakes DEF Custody, Assigned
<1>4. hand[w] = {}
  BY <1>1 DEF DeliveryInv, HandedOut
<1>5. \A v \in Workers : hand'[v] = IF v = w THEN {x} ELSE hand[v]
  BY <1>0, <1>1 DEF PipelineTypes
<1>6. Stage(x) = "queued" /\ Stage(x)' = "running"
  <2>1. Running(x)'
    BY <1>5 DEF Running
  <2>2. QED
    BY <1>2, <2>1 DEF StagesExact
<1>7. ASSUME NEW t \in Tasks \ {x}
      PROVE  Stage(t)' = Stage(t)
  <2>1. Running(t)' <=> Running(t)
    BY <1>4, <1>5 DEF Running
  <2>2. Undisturbed(t)
    BY <1>1, <1>2, <2>1 DEF Undisturbed, Sent, Sendings
  <2>3. QED
    BY <2>2, StageStays
<1>8. /\ Abstract!Advance({x}, "queued", "running")
      /\ [t \in Tasks |-> Stage(t)]' # [t \in Tasks |-> Stage(t)]
  BY <1>2, <1>6, <1>7, StagesAdvance
<1>9. ASSUME NEW u \in Tasks, Holders(u) = Holders(x)
      PROVE  Stage(u) # "running"
  <2>1. SUFFICES ASSUME Running(u) PROVE FALSE
    BY DEF StagesExact
  <2>2. PICK v \in Workers : u \in hand[v]
    BY <2>1 DEF Running
  <2>3. Owners(u) = {v} /\ Owners(x) = {w}
    BY <1>0, <1>3, <2>2, CustodianOwns DEF Custody, Assigned
  <2>4. Holders(u) = Owners(u) /\ Holders(x) = Owners(x)
    BY <1>2 DEF StagesExact
  <2>5. QED
    BY <1>4, <1>9, <2>2, <2>3, <2>4
<1>10. UNCHANGED <<[t \in Tasks |-> Holders(t)], [t \in Tasks |-> Batch(t)]>>
  BY <1>1, OwnersStay, BatchesStay
<1>11. \A u \in Tasks :
         [t \in Tasks |-> Holders(t)][u] = [t \in Tasks |-> Holders(t)][x]
         => [t \in Tasks |-> Stage(t)][u] # "running"
  BY <1>2, <1>9
<1>12. Abstract!Begin(x)
  BY <1>8, <1>10, <1>11 DEF Abstract!Begin
<1>13. QED
  BY <1>2, <1>8, <1>12 DEF Abstract!DeliveryNext

(* A lost reply loses the task. *)
LEMMA PopLosesTaskLoses ==
  ASSUME DeliveryInv, StagesExact, StagesExact', NEW w \in Workers, PopLosesTask(w)
  PROVE  Abstract!DeliveryNext
<1> PICK x : x = Head(queue[w])
  OBVIOUS
<1>1. /\ queue[w] # <<>> /\ queue' = [queue EXCEPT ![w] = Tail(@)]
      /\ UNCHANGED <<sending, hand, route, ended>>
  BY DEF PopLosesTask, historyVars
<1>2. /\ x \in Tasks /\ Queued(x) /\ ~Queued(x)'
      /\ \A t \in Tasks \ {x} : Queued(t)' <=> Queued(t)
  BY <1>1, PopPlaces
<1>3. Stage(x) = "queued"
  BY <1>2 DEF StagesExact
<1>4. Stage(x)' = "lost"
  <2>1. route[x] # {} /\ ~Sent(x) /\ ~Running(x) /\ x \notin ended
    BY <1>2, <1>3 DEF StagesExact
  <2>2. route'[x] # {} /\ ~Sent(x)' /\ ~Running(x)' /\ x \notin ended'
    BY <1>1, <2>1 DEF Sent, Sendings, Running
  <2>3. QED
    BY <1>2, <2>2, StageLost
<1>5. ASSUME NEW t \in Tasks \ {x}
      PROVE  Stage(t)' = Stage(t)
  <2>1. Undisturbed(t)
    BY <1>1, <1>2 DEF Undisturbed, Sent, Sendings, Running
  <2>2. QED
    BY <2>1, StageStays
<1>6. /\ Abstract!Advance({x}, "queued", "lost")
      /\ [t \in Tasks |-> Stage(t)]' # [t \in Tasks |-> Stage(t)]
  BY <1>2, <1>3, <1>4, <1>5, StagesAdvance
<1>7. UNCHANGED <<[t \in Tasks |-> Holders(t)], [t \in Tasks |-> Batch(t)]>>
  BY <1>1, OwnersStay, BatchesStay
<1>8. Abstract!Lose(x)
  BY <1>6, <1>7 DEF Abstract!Lose
<1>9. QED
  BY <1>2, <1>6, <1>8 DEF Abstract!DeliveryNext

(* What taking the task out of a worker's hand does to the places. *)
LEMMA HandPlaces ==
  ASSUME DeliveryInv, NEW w \in Workers, NEW x \in hand[w],
         hand' = [hand EXCEPT ![w] = {}]
  PROVE  /\ x \in Tasks /\ Running(x) /\ ~Running(x)' /\ hand[w] = {x}
         /\ \A t \in Tasks \ {x} : Running(t)' <=> Running(t)
<1>1. ClusterInv /\ OneRoute /\ x \in Custody(w) /\ hand[w] = {x}
  BY DEF DeliveryInv, OnePlace, HandedOut, Custody, Assigned
<1>2. \A v \in Workers : hand'[v] = IF v = w THEN {} ELSE hand[v]
  BY DEF DeliveryInv, ClusterInv, PipelineTypes
<1>3. x \in Tasks /\ \A v \in Workers : x \in hand[v] => v = w
  BY <1>1, OneCustodian DEF Custody, Assigned
<1>4. QED
  BY <1>1, <1>2, <1>3 DEF Running

(* _handle's return: End of the task. *)
LEMMA HandleEnds ==
  ASSUME DeliveryInv, StagesExact, StagesExact', NEW w \in Workers, HandleReturns(w),
         NEW x \in hand[w]
  PROVE  Abstract!DeliveryNext
<1>1. /\ hand' = [hand EXCEPT ![w] = {}] /\ ended' = ended \cup hand[w]
      /\ UNCHANGED <<sending, queue, route>>
  BY DEF HandleReturns
<1>2. /\ x \in Tasks /\ Running(x) /\ ~Running(x)' /\ hand[w] = {x}
      /\ \A t \in Tasks \ {x} : Running(t)' <=> Running(t)
  BY <1>1, HandPlaces
<1>3. Stage(x) = "running" /\ Stage(x)' = "ended"
  BY <1>1, <1>2 DEF StagesExact
<1>4. ASSUME NEW t \in Tasks \ {x}
      PROVE  Stage(t)' = Stage(t)
  <2>1. Undisturbed(t)
    BY <1>1, <1>2 DEF Undisturbed, Sent, Sendings, Queued
  <2>2. QED
    BY <2>1, StageStays
<1>5. /\ Abstract!Advance({x}, "running", "ended")
      /\ [t \in Tasks |-> Stage(t)]' # [t \in Tasks |-> Stage(t)]
  BY <1>2, <1>3, <1>4, StagesAdvance
<1>6. UNCHANGED <<[t \in Tasks |-> Holders(t)], [t \in Tasks |-> Batch(t)]>>
  BY <1>1, OwnersStay, BatchesStay
<1>7. Abstract!End(x)
  BY <1>5, <1>6 DEF Abstract!End
<1>8. QED
  BY <1>2, <1>5, <1>7 DEF Abstract!DeliveryNext

(* A crash loses the task in hand. *)
LEMMA KilledLoses ==
  ASSUME DeliveryInv, StagesExact, StagesExact', NEW w \in Workers, Killed(w),
         NEW x \in hand[w]
  PROVE  Abstract!DeliveryNext
<1>1. /\ hand' = [hand EXCEPT ![w] = {}]
      /\ UNCHANGED <<sending, queue, route, ended>>
  BY DEF Killed, historyVars
<1>2. /\ x \in Tasks /\ Running(x) /\ ~Running(x)' /\ hand[w] = {x}
      /\ \A t \in Tasks \ {x} : Running(t)' <=> Running(t)
  BY <1>1, HandPlaces
<1>3. Stage(x) = "running"
  BY <1>2 DEF StagesExact
<1>4. Stage(x)' = "lost"
  <2>1. route[x] # {} /\ ~Sent(x) /\ ~Queued(x) /\ x \notin ended
    BY <1>2, <1>3 DEF StagesExact
  <2>2. route'[x] # {} /\ ~Sent(x)' /\ ~Queued(x)' /\ x \notin ended'
    BY <1>1, <2>1 DEF Sent, Sendings, Queued
  <2>3. QED
    BY <1>2, <2>2, StageLost
<1>5. ASSUME NEW t \in Tasks \ {x}
      PROVE  Stage(t)' = Stage(t)
  <2>1. Undisturbed(t)
    BY <1>1, <1>2 DEF Undisturbed, Sent, Sendings, Queued
  <2>2. QED
    BY <2>1, StageStays
<1>6. /\ Abstract!Advance({x}, "running", "lost")
      /\ [t \in Tasks |-> Stage(t)]' # [t \in Tasks |-> Stage(t)]
  BY <1>2, <1>3, <1>4, <1>5, StagesAdvance
<1>7. UNCHANGED <<[t \in Tasks |-> Holders(t)], [t \in Tasks |-> Batch(t)]>>
  BY <1>1, OwnersStay, BatchesStay
<1>8. Abstract!Lose(x)
  BY <1>6, <1>7 DEF Abstract!Lose
<1>9. QED
  BY <1>2, <1>6, <1>8 DEF Abstract!DeliveryNext

(* A step that leaves lists, hands and history alone is none of Delivery. *)
LEMMA StagesStay ==
  ASSUME StagesExact, StagesExact', UNCHANGED <<sending, queue, hand, route, ended>>
  PROVE  UNCHANGED Abstract!dvars
<1>1. ASSUME NEW t \in Tasks
      PROVE  Stage(t)' = Stage(t)
  <2>1. Undisturbed(t)
    BY DEF Undisturbed, Sent, Sendings, Queued, Running
  <2>2. QED
    BY <2>1, StageStays
<1>2. UNCHANGED [t \in Tasks |-> Stage(t)]
  BY <1>1
<1>3. UNCHANGED <<[t \in Tasks |-> Holders(t)], [t \in Tasks |-> Batch(t)]>>
  BY OwnersStay, BatchesStay
<1>4. QED
  BY <1>2, <1>3 DEF Abstract!dvars

LEMMA ClusterStepDelivers ==
  ASSUME DeliveryInv, StagesExact, StagesExact', failovers = 0, failovers' = 0,
         [ClusterNext]_cvars
  PROVE  [Abstract!DeliveryNext]_(Abstract!dvars)
<1> USE DEF historyVars, pipeVars
<1>1. ASSUME NEW r \in Registries, NEW T \in Batches, Dispatch(r, T)
      PROVE  Abstract!DeliveryNext
  BY <1>1, DispatchRoutes
<1>2. ASSUME NEW r \in Registries, Push(r)
      PROVE  Abstract!DeliveryNext
  BY <1>2, PushDelivers
<1>3. ASSUME NEW r \in Registries, PushLost(r)
      PROVE  Abstract!DeliveryNext
  BY <1>3, PushLostDelivers
<1>4. ASSUME NEW w \in Workers, Pop(w)
      PROVE  Abstract!DeliveryNext
  BY <1>4, PopBegins
<1>5. ASSUME NEW w \in Workers, PopLosesTask(w)
      PROVE  Abstract!DeliveryNext
  BY <1>5, PopLosesTaskLoses
<1>6. ASSUME NEW w \in Workers, HandleReturns(w), NEW x \in hand[w]
      PROVE  Abstract!DeliveryNext
  BY <1>6, HandleEnds
<1>7. ASSUME NEW w \in Workers, Killed(w), NEW x \in hand[w]
      PROVE  Abstract!DeliveryNext
  BY <1>7, KilledLoses
<1>8. ASSUME NEW w \in Workers, HandleReturns(w) \/ Killed(w), hand[w] = {}
      PROVE  UNCHANGED <<sending, queue, hand, route, ended>>
  <2>1. hand' = [hand EXCEPT ![w] = {}] /\ ended' = ended
        /\ UNCHANGED <<sending, queue, route>>
    BY <1>8 DEF HandleReturns, Killed
  <2>2. hand' = hand
    BY <1>8, <2>1 DEF DeliveryInv, ClusterInv, PipelineTypes
  <2>3. QED
    BY <2>1, <2>2
<1>9. ~Promote
  BY DEF Promote
<1>10. ASSUME \/ \E w \in Workers : WorkerStep(w) \/ Replicate(w)
              \/ \E r \in Registries, t \in Refreshers : RegistryStep(r, t)
              \/ UNCHANGED cvars
       PROVE  UNCHANGED <<sending, queue, hand, route, ended>>
  BY <1>10 DEF WorkerStep, RegistryStep, Replicate, cvars
<1>11. CASE UNCHANGED <<sending, queue, hand, route, ended>>
  BY <1>11, StagesStay
<1>12. QED
  BY <1>1, <1>2, <1>3, <1>4, <1>5, <1>6, <1>7, <1>8, <1>9, <1>10, <1>11 DEF ClusterNext

(* As long as the master does not fail over the pipeline delivers as       *)
(* TaskDelivery promises, whichever processes crash and replies are lost:  *)
(* dispatch_many queues a batch as a whole, once, or loses it as a whole;  *)
(* no task is ever in two places, or twice on one list, or with another    *)
(* worker than the one it was routed to; a worker handles one task at a    *)
(* time and each at most once; a lost task is never heard of again.        *)
THEOREM PipelineDelivers == ClusterSpec /\ [](failovers = 0) => Delivers
<1>1. InitCluster /\ StagesExact => Abstract!DeliveryInit
  <2> SUFFICES ASSUME InitCluster, StagesExact PROVE Abstract!DeliveryInit
    OBVIOUS
  <2>1. \A t \in Tasks : Stage(t) = "new" /\ Holders(t) = {}
    BY DEF InitCluster, StagesExact, Owners
  <2>2. \A t \in Tasks : Batch(t) = {}
    <3>1. \A r \in Registries, w \in Workers : Elements(sending[r][w]) = {}
      BY ElementsEmpty DEF InitCluster, Nothing
    <3>2. \A r \in Registries : InPush(r) = {}
      BY <3>1 DEF InPush
    <3>3. QED
      BY <3>2 DEF Batch
  <2>3. QED
    BY <2>1, <2>2 DEF Abstract!DeliveryInit
<1>2. /\ DeliveryInv /\ StagesExact /\ StagesExact'
      /\ failovers = 0 /\ (failovers = 0)' /\ [ClusterNext]_cvars
      => [Abstract!DeliveryNext]_(Abstract!dvars)
  BY ClusterStepDelivers
<1>3. DeliveryInv /\ failovers = 0 => StagesExact
  BY StageTellsPlace
<1>4. QED
  BY <1>1, <1>2, <1>3, DeliveryInvariant, PTL
     DEF ClusterSpec, Delivers, Abstract!Delivery

=============================================================================

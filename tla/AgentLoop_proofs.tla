-------------------------- MODULE AgentLoop_proofs --------------------------
(***************************************************************************)
(* For every number of turns, calls and attempts: whatever the model asks  *)
(* for and however its calls and the tools fail, the endpoint's stream is  *)
(* one that AgentStream allows, and the model gets the results of exactly  *)
(* the calls it made.                                                      *)
(***************************************************************************)
EXTENDS AgentLoop, Sorting_proofs, SequenceTheorems

(* The last "thinking" event exists if there is one. *)
LEMMA TurnProperties ==
  ASSUME NEW s \in Seq(Events)
  PROVE  /\ Turn(s) \in Places("thinking", s) \cup {0}
         /\ \A j \in Places("thinking", s) : j =< Turn(s)
<1> DEFINE n == Len(s)
           P == Places("thinking", s)
<1>1. n \in Nat /\ P \subseteq 1 .. n
  BY LenProperties DEF Places
<1> HIDE DEF n, P
<1>2. \E i \in P \cup {0} : \A j \in P : j =< i
  <2>1. CASE P = {}
    BY <2>1
  <2>2. CASE P # {}
    <3> DEFINE Q == {n - p : p \in P}
    <3>1. Q \in SUBSET Nat /\ Q # {}
      BY <1>1, <2>2
    <3>2. PICK m \in Q : \A q \in Q : m =< q
      BY <3>1, LeastNumber
    <3>3. PICK i \in P : m = n - i
      BY <3>2
    <3>4. ASSUME NEW j \in P
          PROVE  j =< i
      <4>1. n - j \in Q
        OBVIOUS
      <4>2. n - i =< n - j
        BY <3>2, <3>3, <4>1
      <4>3. i \in Nat /\ j \in Nat
        BY <1>1
      <4>4. QED
        BY <1>1, <4>2, <4>3
    <3>5. QED
      BY <3>3, <3>4
  <2>3. QED
    BY <2>1, <2>2
<1>3. Turn(s) = CHOOSE i \in P \cup {0} : \A j \in P : j =< i
  BY DEF Turn, P
<1>4. QED
  BY <1>2, <1>3 DEF P

(* An event at the end of the stream adds one to its type. *)
LEMMA PlacesAppend ==
  ASSUME NEW s \in Seq(Events), NEW e \in Events, NEW type
  PROVE  /\ Places(type, s) \in SUBSET (1 .. Len(s)) /\ IsFiniteSet(Places(type, s))
         /\ Count(type, s) \in Nat
         /\ Places(type, Append(s, e)) =
              Places(type, s) \cup (IF e.type = type THEN {Len(s) + 1} ELSE {})
         /\ Count(type, Append(s, e)) =
              Count(type, s) + (IF e.type = type THEN 1 ELSE 0)
<1> DEFINE n == Len(s)
           u == Append(s, e)
           P == Places(type, s)
<1>1. /\ n \in Nat /\ DOMAIN s = 1 .. n
      /\ DOMAIN u = 1 .. n + 1 /\ u[n + 1] = e
      /\ \A i \in 1 .. n : u[i] = s[i]
  BY AppendProperties, LenProperties
<1>2. P \in SUBSET (1 .. n) /\ IsFiniteSet(P) /\ Cardinality(P) \in Nat
  <2>1. P \in SUBSET (1 .. n)
    BY <1>1 DEF Places
  <2>2. 1 \in Int /\ n \in Int
    BY <1>1
  <2>3. IsFiniteSet(1 .. n)
    BY <2>2, FS_Interval
  <2>4. QED
    BY <2>1, <2>3, FS_Subset, FS_CardinalityType
<1> HIDE DEF n, u
<1>3. Places(type, u) = P \cup (IF e.type = type THEN {n + 1} ELSE {})
  <2>1. \A i : i \in 1 .. n + 1 <=> i \in 1 .. n \/ i = n + 1
    BY <1>1
  <2>2. Places(type, u) = {i \in 1 .. n + 1 : u[i].type = type}
    BY <1>1 DEF Places
  <2>3. P = {i \in 1 .. n : s[i].type = type}
    BY <1>1 DEF Places
  <2> HIDE DEF P
  <2>4. QED
    BY <1>1, <2>1, <2>2, <2>3
<1>4. n + 1 \notin P
  BY <1>1, <1>2
<1> HIDE DEF P
<1>5. Cardinality(Places(type, u)) =
        Cardinality(P) + (IF e.type = type THEN 1 ELSE 0)
  <2>1. CASE e.type = type
    BY <1>2, <1>3, <1>4, <2>1, FS_AddElement
  <2>2. CASE e.type # type
    BY <1>2, <1>3, <2>2
  <2>3. QED
    BY <2>1, <2>2
<1>6. QED
  BY <1>2, <1>3, <1>5 DEF Count, n, u, P

(* A "thinking" event starts a turn; another one belongs to the turn.      *)
LEMMA TurnAppend ==
  ASSUME NEW s \in Seq(Events), NEW e \in Events, NEW type
  PROVE  /\ Turn(s) \in 0 .. Len(s)
         /\ e.type = "thinking" =>
              /\ Turn(Append(s, e)) = Len(s) + 1
              /\ type # "thinking" => InTurn(type, Append(s, e)) = {}
         /\ e.type # "thinking" =>
              /\ Turn(Append(s, e)) = Turn(s)
              /\ Cardinality(InTurn(type, s)) \in Nat
              /\ Cardinality(InTurn(type, Append(s, e))) =
                   Cardinality(InTurn(type, s)) + (IF e.type = type THEN 1 ELSE 0)
<1> DEFINE n == Len(s)
           u == Append(s, e)
           t == Turn(s)
           v == Turn(u)
           P(x) == Places(x, s)
<1>1. n \in Nat /\ u \in Seq(Events)
  BY AppendProperties, LenProperties
<1>2. /\ P("thinking") \in SUBSET (1 .. n)
      /\ P(type) \in SUBSET (1 .. n) /\ IsFiniteSet(P(type))
      /\ Places("thinking", u) = P("thinking") \cup
           (IF e.type = "thinking" THEN {n + 1} ELSE {})
      /\ Places(type, u) = P(type) \cup (IF e.type = type THEN {n + 1} ELSE {})
  BY PlacesAppend
<1>3. /\ t \in P("thinking") \cup {0} /\ \A j \in P("thinking") : j =< t
      /\ v \in Places("thinking", u) \cup {0} /\ \A j \in Places("thinking", u) : j =< v
  BY <1>1, TurnProperties
<1>4. /\ InTurn(type, s) = {i \in P(type) : i > t}
      /\ InTurn(type, u) = {i \in Places(type, u) : i > v}
  BY DEF InTurn
<1> HIDE DEF n, u, t, v, P
<1>5. t \in 0 .. n
  BY <1>1, <1>2, <1>3
<1>6. ASSUME e.type = "thinking"
      PROVE  v = n + 1 /\ (type # "thinking" => InTurn(type, u) = {})
  <2>1. n + 1 =< v /\ v \in 0 .. n + 1
    BY <1>1, <1>2, <1>3, <1>6
  <2>2. v = n + 1
    BY <1>1, <2>1
  <2>3. ASSUME type # "thinking"
        PROVE  InTurn(type, u) = {}
    <3>1. Places(type, u) \in SUBSET (1 .. n)
      BY <1>2, <1>6, <2>3
    <3>2. \A i \in 1 .. n : ~(i > n + 1)
      BY <1>1
    <3>3. QED
      BY <1>4, <2>2, <3>1, <3>2
  <2>4. QED
    BY <2>2, <2>3
<1>7. ASSUME e.type # "thinking"
      PROVE  /\ v = t
             /\ Cardinality(InTurn(type, s)) \in Nat
             /\ Cardinality(InTurn(type, u)) =
                  Cardinality(InTurn(type, s)) + (IF e.type = type THEN 1 ELSE 0)
  <2>1. Places("thinking", u) = P("thinking")
    BY <1>2, <1>7
  <2>2. v =< t /\ t =< v /\ v \in Int /\ t \in Int
    BY <1>1, <1>2, <1>3, <2>1
  <2>3. v = t
    BY <2>2
  <2>4. n + 1 > t /\ n + 1 \notin P(type)
    BY <1>1, <1>2, <1>5
  <2>5. InTurn(type, u) = InTurn(type, s) \cup (IF e.type = type THEN {n + 1} ELSE {})
    BY <1>2, <1>4, <2>3, <2>4
  <2>6. /\ IsFiniteSet(InTurn(type, s)) /\ n + 1 \notin InTurn(type, s)
        /\ Cardinality(InTurn(type, s)) \in Nat
    BY <1>2, <1>4, <2>4, FS_Subset, FS_CardinalityType
  <2>7. CASE e.type = type
    BY <2>3, <2>5, <2>6, <2>7, FS_AddElement
  <2>8. CASE e.type # type
    BY <2>3, <2>5, <2>6, <2>8
  <2>9. QED
    BY <2>7, <2>8
<1>8. QED
  BY <1>5, <1>6, <1>7 DEF n, u, t, v

-----------------------------------------------------------------------------
(* The inductive invariant.                                                *)

Results == [call : ToolCalls, outcome : {"output", "raised", "refused"}]
Outputs(s) == {i \in DOMAIN s : s[i].outcome = "output"}

LoopTypes ==
  /\ emitted \in Seq(Events)
  /\ pc \in Points
  /\ iteration \in 0 .. MaxTurns
  /\ attempt \in 1 .. MaxAttempts
  /\ calls \in Responses \cup {<<>>}
  /\ results \in Seq(Results) /\ Len(results) =< Len(calls)
  /\ request \in [message : {"query", ""}, tool_results : Seq(Results)]

(* The results so far are those of the first calls, in their order. *)
Answered ==
  \A i \in DOMAIN results :
    results[i].call = calls[i] /\ results[i].outcome \in dispatch_tool(calls[i])

(* The last turn of the stream is the turn of calls and results. *)
Begun == Len(results) + (IF pc = "tool" THEN 1 ELSE 0)

TurnMatches ==
  /\ Turn(emitted) # 0 /\ emitted[Turn(emitted)] = Thinking(Len(calls))
  /\ Cardinality(InTurn("tool_call", emitted)) = Begun
  /\ Cardinality(InTurn("tool_result", emitted)) = Cardinality(Outputs(results))

(* Until the review ends there is one turn in the stream per iteration,    *)
(* and no end; a turn is asked about once all its calls are answered.      *)
Reviewing ==
  /\ iteration < MaxTurns
  /\ Count("error", emitted) = 0 /\ ~Ends(emitted)
  /\ Count("thinking", emitted) = iteration + (IF pc = "asking" THEN 0 ELSE 1)
  /\ pc = "asking" /\ iteration = 0 => Turn(emitted) = 0
  /\ pc = "asking" /\ iteration > 0 =>
       Len(results) = Len(calls) /\ request.tool_results = results
  /\ pc # "asking" \/ iteration > 0 => TurnMatches
  /\ pc = "tool" =>
       Len(results) < Len(calls) /\ emitted # <<>> /\ Last(emitted) = ToolCallEvent

LoopInv ==
  /\ LoopTypes /\ Answered
  /\ pc \in {"asking", "turn", "tool"} => Reviewing
  /\ pc = "raising" =>
       Count("error", emitted) = 1 /\ Owed(emitted) = 0 /\ ~Ends(emitted)

LEMMA EventKinds ==
  /\ \A n \in 1 .. MaxCalls : Thinking(n) \in Events /\ Thinking(n).type = "thinking"
                              /\ Thinking(n).n = n
  /\ ToolCallEvent \in Events /\ ToolCallEvent.type = "tool_call"
  /\ ToolResult \in Events /\ ToolResult.type = "tool_result"
  /\ FinalAnswer \in Events /\ FinalAnswer.type = "final_answer"
  /\ Error \in Events /\ Error.type = "error"
BY DEF Events, Event, Thinking, ToolCallEvent, ToolResult, FinalAnswer, Error

LEMMA ResponseProperties ==
  ASSUME NEW tool_calls \in Responses
  PROVE  /\ Len(tool_calls) \in 1 .. MaxCalls /\ DOMAIN tool_calls = 1 .. Len(tool_calls)
         /\ \A i \in 1 .. Len(tool_calls) : tool_calls[i] \in ToolCalls
<1>1. PICK n \in 1 .. MaxCalls : tool_calls \in [1 .. n -> ToolCalls]
  BY DEF Responses
<1>2. n \in Nat
  BY LoopConstants
<1>3. tool_calls \in Seq(ToolCalls)
  BY <1>1, <1>2, SeqDef
<1>4. DOMAIN tool_calls = 1 .. Len(tool_calls) /\ Len(tool_calls) \in Nat
  BY <1>3, LenProperties
<1>5. Len(tool_calls) = n
  BY <1>1, <1>2, <1>4
<1>6. QED
  BY <1>1, <1>4, <1>5

(* How a stream looks after an event was emitted. *)
LEMMA StreamAppend ==
  ASSUME NEW s \in Seq(Events), NEW e \in Events, NEW u, u = Append(s, e)
  PROVE  /\ u \in Seq(Events) /\ u # <<>> /\ Last(u) = e
         /\ Ends(u) <=> e = FinalAnswer
         /\ \A i \in 1 .. Len(s) : u[i] = s[i]
         /\ u[Len(s) + 1] = e
         /\ Len(s) \in Nat /\ Turn(s) \in 0 .. Len(s)
<1>1. /\ u \in Seq(Events) /\ Len(u) = Len(s) + 1 /\ Len(s) \in Nat
      /\ u[Len(s) + 1] = e
      /\ \A i \in 1 .. Len(s) : u[i] = s[i]
  BY AppendProperties, LenProperties
<1>2. Turn(s) \in 0 .. Len(s)
  BY TurnAppend
<1>3. u # <<>>
  <2>1. Len(<<>>) = 0
    BY EmptySeq
  <2>2. QED
    BY <1>1, <2>1
<1>4. Last(u) = e
  BY <1>1 DEF Last
<1>5. QED
  BY <1>1, <1>2, <1>3, <1>4 DEF Ends

(* Events that neither announce nor start tool calls leave what is owed. *)
LEMMA OwedStays ==
  ASSUME NEW s \in Seq(Events), NEW e \in Events, NEW u, u = Append(s, e),
         e.type \notin {"thinking", "tool_call"}
  PROVE  Owed(u) = Owed(s)
<1>1. /\ Turn(s) \in 0 .. Len(s) /\ Turn(u) = Turn(s)
      /\ Cardinality(InTurn("tool_call", u)) = Cardinality(InTurn("tool_call", s))
  BY TurnAppend
<1>2. Turn(s) # 0 => u[Turn(s)] = s[Turn(s)]
  <2>1. Len(s) \in Nat /\ \A i \in 1 .. Len(s) : u[i] = s[i]
    BY StreamAppend
  <2>2. QED
    BY <1>1, <2>1
<1>3. QED
  BY <1>1, <1>2 DEF Owed

LEMMA OutputsAppend ==
  ASSUME NEW s \in Seq(Results), NEW r \in Results
  PROVE  /\ Cardinality(Outputs(s)) \in Nat
         /\ Cardinality(Outputs(Append(s, r))) =
              Cardinality(Outputs(s)) + (IF r.outcome = "output" THEN 1 ELSE 0)
<1> DEFINE n == Len(s)
           u == Append(s, r)
<1>1. /\ n \in Nat /\ DOMAIN s = 1 .. n
      /\ DOMAIN u = 1 .. n + 1 /\ u[n + 1] = r
      /\ \A i \in 1 .. n : u[i] = s[i]
  BY AppendProperties, LenProperties
<1> HIDE DEF n, u
<1>2. /\ IsFiniteSet(Outputs(s)) /\ Cardinality(Outputs(s)) \in Nat
      /\ n + 1 \notin Outputs(s)
  <2>1. Outputs(s) \in SUBSET (1 .. n) /\ 1 \in Int /\ n \in Int
    BY <1>1 DEF Outputs
  <2>2. IsFiniteSet(1 .. n)
    BY <2>1, FS_Interval
  <2>3. QED
    BY <1>1, <2>1, <2>2, FS_Subset, FS_CardinalityType
<1>3. Outputs(u) = Outputs(s) \cup (IF r.outcome = "output" THEN {n + 1} ELSE {})
  <2>1. \A i : i \in 1 .. n + 1 <=> i \in 1 .. n \/ i = n + 1
    BY <1>1
  <2>2. QED
    BY <1>1, <2>1 DEF Outputs
<1>4. CASE r.outcome = "output"
  BY <1>2, <1>3, <1>4, FS_AddElement DEF u
<1>5. CASE r.outcome # "output"
  BY <1>2, <1>3, <1>5 DEF u
<1>6. QED
  BY <1>4, <1>5

(* The numbers of the loop. *)
LEMMA LoopNumbers ==
  ASSUME LoopTypes
  PROVE  /\ iteration \in Nat /\ attempt \in Nat /\ MaxTurns \in Nat /\ MaxAttempts \in Nat
         /\ Len(results) \in Nat /\ DOMAIN results = 1 .. Len(results)
         /\ Len(calls) \in Nat /\ DOMAIN calls = 1 .. Len(calls)
         /\ \A i \in 1 .. Len(calls) : calls[i] \in ToolCalls
<1>1. /\ MaxTurns \in Nat /\ MaxAttempts \in Nat /\ MaxCalls \in Nat
      /\ iteration \in 0 .. MaxTurns /\ attempt \in 1 .. MaxAttempts
  BY LoopConstants DEF LoopTypes
<1>2. iteration \in Nat /\ attempt \in Nat
  BY <1>1
<1>3. Len(results) \in Nat /\ DOMAIN results = 1 .. Len(results)
  BY LenProperties DEF LoopTypes
<1>4. CASE calls = <<>>
  <2>1. Len(calls) = 0 /\ DOMAIN calls = {}
    BY <1>4, EmptySeq
  <2>2. QED
    BY <1>1, <1>2, <1>3, <2>1
<1>5. CASE calls \in Responses
  <2>1. /\ Len(calls) \in 1 .. MaxCalls /\ DOMAIN calls = 1 .. Len(calls)
        /\ \A i \in 1 .. Len(calls) : calls[i] \in ToolCalls
    BY <1>5, ResponseProperties
  <2>2. QED
    BY <1>1, <1>2, <1>3, <2>1
<1>6. QED
  BY <1>4, <1>5 DEF LoopTypes

(* An event that is not "thinking" belongs to the turn under way. *)
LEMMA SameTurn ==
  ASSUME NEW s \in Seq(Events), NEW e \in Events, e.type # "thinking",
         NEW u, u = Append(s, e)
  PROVE  /\ Turn(u) = Turn(s) /\ (Turn(s) # 0 => u[Turn(u)] = s[Turn(s)])
         /\ Cardinality(InTurn("tool_call", s)) \in Nat
         /\ Cardinality(InTurn("tool_call", u)) =
              Cardinality(InTurn("tool_call", s)) + (IF e.type = "tool_call" THEN 1 ELSE 0)
         /\ Cardinality(InTurn("tool_result", s)) \in Nat
         /\ Cardinality(InTurn("tool_result", u)) =
              Cardinality(InTurn("tool_result", s)) + (IF e.type = "tool_result" THEN 1 ELSE 0)
         /\ Count("thinking", u) = Count("thinking", s)
         /\ Count("error", u) = Count("error", s) + (IF e.type = "error" THEN 1 ELSE 0)
<1>1. /\ Turn(s) \in 0 .. Len(s) /\ Turn(u) = Turn(s) /\ Len(s) \in Nat
      /\ \A i \in 1 .. Len(s) : u[i] = s[i]
  BY TurnAppend, StreamAppend
<1>2. Turn(s) # 0 => u[Turn(u)] = s[Turn(s)]
  BY <1>1
<1>3. /\ Cardinality(InTurn("tool_call", s)) \in Nat
      /\ Cardinality(InTurn("tool_call", u)) =
           Cardinality(InTurn("tool_call", s)) + (IF e.type = "tool_call" THEN 1 ELSE 0)
  BY TurnAppend
<1>4. /\ Cardinality(InTurn("tool_result", s)) \in Nat
      /\ Cardinality(InTurn("tool_result", u)) =
           Cardinality(InTurn("tool_result", s)) + (IF e.type = "tool_result" THEN 1 ELSE 0)
  BY TurnAppend
<1>5. /\ Count("thinking", s) \in Nat
      /\ Count("thinking", u) = Count("thinking", s) + 0
      /\ Count("error", u) = Count("error", s) + (IF e.type = "error" THEN 1 ELSE 0)
  BY PlacesAppend
<1>6. Count("thinking", u) = Count("thinking", s)
  BY <1>5
<1>7. QED
  BY <1>1, <1>2, <1>3, <1>4, <1>5, <1>6

(* What is owed are the calls of the turn that are not started. *)
LEMMA OwedInTurn ==
  ASSUME TurnMatches
  PROVE  Owed(emitted) = Len(calls) - Begun
<1>1. emitted[Turn(emitted)].n = Len(calls) /\ Turn(emitted) # 0
  BY DEF TurnMatches, Thinking, Event
<1>2. Cardinality(InTurn("tool_call", emitted)) = Begun
  BY DEF TurnMatches
<1>3. QED
  BY <1>1, <1>2 DEF Owed

LEMMA NothingOwed ==
  ASSUME LoopInv, pc = "asking"
  PROVE  Owed(emitted) = 0
<1>1. LoopTypes /\ Reviewing
  BY DEF LoopInv
<1>2. iteration \in Nat /\ Len(results) \in Nat
  BY <1>1, LoopNumbers
<1>3. CASE iteration = 0
  BY <1>1, <1>3 DEF Reviewing, Owed
<1>4. CASE iteration > 0
  <2>1. TurnMatches /\ Len(results) = Len(calls)
    BY <1>1, <1>4 DEF Reviewing
  <2>2. Begun = Len(results)
    BY <1>2 DEF Begun
  <2>3. Owed(emitted) = Len(calls) - Begun
    BY <2>1, OwedInTurn
  <2>4. QED
    BY <1>2, <2>1, <2>2, <2>3
<1>5. QED
  BY <1>2, <1>3, <1>4

-----------------------------------------------------------------------------
(* The steps: each keeps the invariant, and what it emits is allowed.      *)

LEMMA WantsToolsStep ==
  ASSUME LoopInv, NEW tool_calls \in Responses, WantsTools(tool_calls)
  PROVE  StreamNext /\ LoopInv'
<1> DEFINE e == Thinking(Len(tool_calls))
<1>1. /\ pc = "asking" /\ pc' = "turn" /\ calls' = tool_calls /\ results' = <<>>
      /\ emitted' = Append(emitted, e) /\ request' = NoRequest
      /\ iteration' = iteration /\ attempt' = attempt
  BY DEF WantsTools, Emit
<1>2. LoopTypes /\ Reviewing /\ Owed(emitted) = 0
  BY <1>1, NothingOwed DEF LoopInv
<1>3. /\ Len(tool_calls) \in 1 .. MaxCalls /\ e \in Events /\ e.type = "thinking"
  BY ResponseProperties, EventKinds
<1>4. emitted \in Seq(Events) /\ iteration \in Nat
  BY <1>2, LoopNumbers DEF LoopTypes
<1> HIDE DEF e
<1>5. /\ Count("error", emitted) = 0 /\ ~Ends(emitted)
      /\ Count("thinking", emitted) = iteration /\ iteration < MaxTurns
  BY <1>1, <1>2, <1>4 DEF Reviewing
<1>6. e \notin {ToolCallEvent, ToolResult} /\ e # FinalAnswer
  BY <1>3, EventKinds
<1>7. StreamNext
  BY <1>1, <1>2, <1>3, <1>4, <1>5, <1>6 DEF StreamNext, Allowed
<1>8. /\ emitted' \in Seq(Events) /\ ~Ends(emitted')
      /\ emitted'[Len(emitted) + 1] = e /\ Len(emitted) \in Nat
  BY <1>1, <1>3, <1>4, <1>6, StreamAppend
<1>9. /\ Count("error", emitted') = 0
      /\ Count("thinking", emitted') = iteration + 1
  <2>1. /\ Count("error", emitted') = Count("error", emitted) + 0
        /\ Count("thinking", emitted') = Count("thinking", emitted) + 1
    BY <1>1, <1>3, <1>4, PlacesAppend
  <2>2. QED
    BY <1>4, <1>5, <2>1
<1>10. /\ Turn(emitted') = Len(emitted) + 1
       /\ InTurn("tool_call", emitted') = {} /\ InTurn("tool_result", emitted') = {}
  BY <1>1, <1>3, <1>4, TurnAppend
<1>11. TurnMatches'
  <2>1. Len(<<>>) = 0 /\ DOMAIN <<>> = {} /\ Cardinality({}) = 0
    BY EmptySeq, FS_EmptySet
  <2>2. Outputs(<<>>) = {}
    BY <2>1 DEF Outputs
  <2>3. Turn(emitted)' # 0 /\ emitted'[Turn(emitted')] = Thinking(Len(calls'))
    BY <1>1, <1>8, <1>10 DEF e
  <2>4. Begun' = 0
    BY <1>1, <2>1 DEF Begun
  <2>5. Cardinality(InTurn("tool_call", emitted')) = Begun'
    BY <1>10, <2>1, <2>4
  <2>6. Cardinality(InTurn("tool_result", emitted')) = Cardinality(Outputs(results'))
    BY <1>1, <1>10, <2>2
  <2>7. QED
    BY <2>3, <2>5, <2>6 DEF TurnMatches
<1>12. Reviewing'
  BY <1>1, <1>5, <1>8, <1>9, <1>11 DEF Reviewing
<1>13. <<>> \in Seq(Results) /\ Len(<<>>) = 0 /\ DOMAIN <<>> = {}
  BY EmptySeq
<1>14. NoRequest \in [message : {"query", ""}, tool_results : Seq(Results)]
  BY <1>13 DEF NoRequest, Request
<1>15. LoopTypes'
  <2>1. Len(results') =< Len(calls')
    BY <1>1, <1>3, <1>13
  <2>2. /\ iteration' \in 0 .. MaxTurns /\ attempt' \in 1 .. MaxAttempts
        /\ pc' \in Points /\ calls' \in Responses \cup {<<>>}
        /\ results' \in Seq(Results)
    BY <1>1, <1>2, <1>13 DEF LoopTypes, Points
  <2>3. QED
    BY <1>1, <1>8, <1>14, <2>1, <2>2 DEF LoopTypes
<1>16. Answered'
  BY <1>1, <1>13 DEF Answered
<1>17. QED
  BY <1>1, <1>7, <1>12, <1>15, <1>16 DEF LoopInv

(* The call under way and what its result says. *)
LEMMA ResultAppended ==
  ASSUME LoopTypes, Answered, Len(results) < Len(calls),
         NEW outcome \in dispatch_tool(Called),
         results' = Append(results, Result(Called, outcome)), calls' = calls
  PROVE  /\ results' \in Seq(Results) /\ Len(results') = Len(results) + 1
         /\ Answered'
         /\ Cardinality(Outputs(results)) \in Nat
         /\ Cardinality(Outputs(results')) =
              Cardinality(Outputs(results)) + (IF outcome = "output" THEN 1 ELSE 0)
<1> DEFINE r == Result(Called, outcome)
           n == Len(results)
<1>1. /\ n \in Nat /\ DOMAIN results = 1 .. n /\ Len(calls) \in Nat
      /\ \A i \in 1 .. Len(calls) : calls[i] \in ToolCalls
  BY LoopNumbers
<1>2. Called = calls[n + 1] /\ n + 1 \in 1 .. Len(calls)
  BY <1>1 DEF Called
<1>3. outcome \in {"output", "raised", "refused"}
  BY DEF dispatch_tool
<1>4. r \in Results /\ r.call = calls[n + 1] /\ r.outcome = outcome
  BY <1>1, <1>2, <1>3 DEF Results, Result
<1>5. results \in Seq(Results) /\ results' = Append(results, r)
  BY DEF LoopTypes
<1> HIDE DEF r
<1>6. /\ results' \in Seq(Results) /\ Len(results') = n + 1
      /\ results'[n + 1] = r /\ \A i \in 1 .. n : results'[i] = results[i]
      /\ DOMAIN results' = 1 .. n + 1
  BY <1>4, <1>5, AppendProperties, LenProperties
<1>7. Answered'
  <2>1. ASSUME NEW i \in 1 .. n + 1
        PROVE  results'[i].call = calls[i] /\ results'[i].outcome \in dispatch_tool(calls[i])
    <3>1. CASE i = n + 1
      BY <1>2, <1>4, <1>6, <3>1
    <3>2. CASE i # n + 1
      <4>1. i \in 1 .. n
        BY <1>1, <3>2
      <4>2. results'[i] = results[i]
        BY <1>6, <4>1
      <4>3. results[i].call = calls[i] /\ results[i].outcome \in dispatch_tool(calls[i])
        BY <1>1, <4>1 DEF Answered
      <4>4. QED
        BY <4>2, <4>3
    <3>3. QED
      BY <3>1, <3>2
  <2>2. QED
    BY <1>6, <2>1 DEF Answered
<1>8. /\ Cardinality(Outputs(results)) \in Nat
      /\ Cardinality(Outputs(results')) =
           Cardinality(Outputs(results)) + (IF r.outcome = "output" THEN 1 ELSE 0)
  BY <1>4, <1>5, OutputsAppend
<1>9. QED
  BY <1>4, <1>6, <1>7, <1>8

LEMMA CallFailsStep ==
  ASSUME LoopInv, CallFails
  PROVE  emitted' = emitted /\ LoopInv'
<1>1. /\ pc = "asking" /\ attempt < MaxAttempts /\ attempt' = attempt + 1
      /\ emitted' = emitted /\ pc' = pc /\ iteration' = iteration
      /\ calls' = calls /\ results' = results /\ request' = request
  BY DEF CallFails
<1>2. LoopTypes /\ Answered /\ Reviewing
  BY <1>1 DEF LoopInv
<1>3. attempt' \in 1 .. MaxAttempts
  BY <1>1, <1>2, LoopNumbers
<1>4. LoopTypes'
  BY <1>1, <1>2, <1>3 DEF LoopTypes
<1>5. Answered'
  BY <1>1, <1>2 DEF Answered
<1>6. Reviewing'
  BY <1>1, <1>2 DEF Reviewing, TurnMatches, Begun
<1>7. QED
  BY <1>1, <1>4, <1>5, <1>6 DEF LoopInv

(* The review ends with an event of its own: the answer, or the error that *)
(* event_stream will report once more.                                     *)
LEMMA LastEventStep ==
  ASSUME LoopInv, NEW e \in {FinalAnswer, Error}, Emit(e),
         pc \in {"asking", "turn"}, Owed(emitted) = 0,
         IF e = Error THEN pc' = "raising" ELSE pc' = "done",
         iteration' \in 0 .. MaxTurns, attempt' = attempt,
         calls' = calls, results' = results,
         request' \in {request, NoRequest}
  PROVE  StreamNext /\ LoopInv'
<1>1. LoopTypes /\ Answered /\ Reviewing
  BY DEF LoopInv
<1>2. /\ emitted \in Seq(Events) /\ emitted' = Append(emitted, e)
      /\ Count("error", emitted) = 0 /\ ~Ends(emitted)
  BY <1>1 DEF LoopTypes, Reviewing, Emit
<1>3. /\ e \in Events /\ e.type \notin {"thinking", "tool_call", "tool_result"}
      /\ e \notin {ToolCallEvent, ToolResult}
      /\ e = Error <=> e.type = "error"
      /\ e = Error => e # FinalAnswer
  BY EventKinds
<1>4. StreamNext
  BY <1>2, <1>3 DEF StreamNext, Allowed
<1>5. emitted' \in Seq(Events) /\ (Ends(emitted') <=> e = FinalAnswer)
  BY <1>2, <1>3, StreamAppend
<1>6. Owed(emitted') = 0
  BY <1>2, <1>3, OwedStays
<1>7. e = Error => Count("error", emitted') = 1
  <2>1. e = Error => Count("error", emitted') = Count("error", emitted) + 1
    BY <1>2, <1>3, PlacesAppend
  <2>2. QED
    BY <1>2, <2>1
<1>8. NoRequest \in [message : {"query", ""}, tool_results : Seq(Results)]
  <2>1. <<>> \in Seq(Results)
    BY EmptySeq
  <2>2. QED
    BY <2>1 DEF NoRequest, Request
<1>9. LoopTypes'
  <2>1. pc' \in Points
    BY DEF Points
  <2>2. request' \in [message : {"query", ""}, tool_results : Seq(Results)]
    BY <1>1, <1>8 DEF LoopTypes
  <2>3. QED
    BY <1>1, <1>5, <2>1, <2>2 DEF LoopTypes
<1>10. Answered'
  BY <1>1 DEF Answered
<1>11. QED
  BY <1>3, <1>4, <1>5, <1>6, <1>7, <1>9, <1>10 DEF LoopInv

LEMMA CallGivesUpStep ==
  ASSUME LoopInv, CallGivesUp
  PROVE  StreamNext /\ LoopInv'
<1>1. /\ pc = "asking" /\ Emit(Error) /\ pc' = "raising" /\ request' = NoRequest
      /\ iteration' = iteration /\ attempt' = attempt /\ calls' = calls
      /\ results' = results
  BY DEF CallGivesUp
<1>2. iteration' \in 0 .. MaxTurns
  BY <1>1 DEF LoopInv, LoopTypes
<1>3. Owed(emitted) = 0
  BY <1>1, NothingOwed
<1>4. QED
  BY <1>1, <1>2, <1>3, LastEventStep

LEMMA AnswersStep ==
  ASSUME LoopInv, Answers
  PROVE  StreamNext /\ LoopInv'
<1>1. /\ pc = "asking" /\ Emit(FinalAnswer) /\ pc' = "done" /\ request' = NoRequest
      /\ iteration' = iteration /\ attempt' = attempt /\ calls' = calls
      /\ results' = results
  BY DEF Answers
<1>2. iteration' \in 0 .. MaxTurns
  BY <1>1 DEF LoopInv, LoopTypes
<1>3. Owed(emitted) = 0
  BY <1>1, NothingOwed
<1>4. FinalAnswer # Error
  BY EventKinds
<1>5. QED
  BY <1>1, <1>2, <1>3, <1>4, LastEventStep

LEMMA StartToolStep ==
  ASSUME LoopInv, StartTool
  PROVE  StreamNext /\ LoopInv'
<1>1. /\ pc = "turn" /\ Len(results) < Len(calls) /\ pc' = "tool"
      /\ emitted' = Append(emitted, ToolCallEvent) /\ iteration' = iteration
      /\ attempt' = attempt /\ calls' = calls /\ results' = results /\ request' = request
  BY DEF StartTool, Emit
<1>2. LoopTypes /\ Answered /\ Reviewing
  BY <1>1 DEF LoopInv
<1>3. /\ emitted \in Seq(Events) /\ TurnMatches
      /\ Count("error", emitted) = 0 /\ ~Ends(emitted)
      /\ Count("thinking", emitted) = iteration + 1 /\ iteration < MaxTurns
  BY <1>1, <1>2 DEF LoopTypes, Reviewing
<1>4. Len(results) \in Nat /\ Len(calls) \in Nat /\ iteration \in Nat
  BY <1>2, LoopNumbers
<1>5. Begun = Len(results)
  BY <1>1, <1>4 DEF Begun
<1>6. Owed(emitted) > 0
  <2>1. Owed(emitted) = Len(calls) - Begun
    BY <1>3, OwedInTurn
  <2>2. QED
    BY <1>1, <1>4, <1>5, <2>1
<1>7. /\ ToolCallEvent \in Events /\ ToolCallEvent.type = "tool_call"
      /\ ToolCallEvent # FinalAnswer
  BY EventKinds
<1>8. StreamNext
  BY <1>1, <1>3, <1>6, <1>7 DEF StreamNext, Allowed
<1>9. /\ emitted' \in Seq(Events) /\ emitted' # <<>> /\ Last(emitted') = ToolCallEvent
      /\ ~Ends(emitted')
  <2>1. PICK e \in Events : e = ToolCallEvent
    BY <1>7
  <2>2. emitted' = Append(emitted, e) /\ e # FinalAnswer
    BY <1>1, <1>7, <2>1, Zenon
  <2>3. emitted \in Seq(Events)
    BY <1>3
  <2>4. emitted' \in Seq(Events) /\ ~Ends(emitted')
    BY <2>2, <2>3, StreamAppend
  <2>5. emitted' # <<>> /\ Last(emitted') = e
    BY <2>2, <2>3, StreamAppend
  <2>6. QED
    BY <2>1, <2>4, <2>5
<1>10. /\ Turn(emitted') = Turn(emitted)
       /\ Turn(emitted) # 0 => emitted'[Turn(emitted')] = emitted[Turn(emitted)]
       /\ Cardinality(InTurn("tool_call", emitted')) =
            Cardinality(InTurn("tool_call", emitted)) + 1
       /\ Cardinality(InTurn("tool_result", emitted)) \in Nat
       /\ Cardinality(InTurn("tool_result", emitted')) =
            Cardinality(InTurn("tool_result", emitted)) + 0
       /\ Count("thinking", emitted') = Count("thinking", emitted)
       /\ Count("error", emitted') = Count("error", emitted) + 0
  BY <1>1, <1>3, <1>7, SameTurn
<1>11. TurnMatches'
  <2>1. Begun' = Begun + 1
    BY <1>1, <1>4, <1>5 DEF Begun
  <2>2. Turn(emitted') # 0 /\ emitted'[Turn(emitted')] = Thinking(Len(calls'))
    BY <1>1, <1>3, <1>10 DEF TurnMatches
  <2>3. Cardinality(InTurn("tool_call", emitted')) = Begun'
    BY <1>3, <1>10, <2>1 DEF TurnMatches
  <2>4. Cardinality(InTurn("tool_result", emitted')) = Cardinality(Outputs(results'))
    <3>1. Cardinality(InTurn("tool_result", emitted')) =
            Cardinality(InTurn("tool_result", emitted))
      BY <1>10
    <3>2. QED
      BY <1>1, <1>3, <3>1 DEF TurnMatches
  <2>5. QED
    BY <2>2, <2>3, <2>4 DEF TurnMatches
<1>12. Count("error", emitted') = 0 /\ Count("thinking", emitted') = iteration' + 1
  BY <1>1, <1>3, <1>10
<1>13. Reviewing'
  BY <1>1, <1>3, <1>9, <1>11, <1>12 DEF Reviewing
<1>14. LoopTypes'
  BY <1>1, <1>2, <1>9 DEF LoopTypes, Points
<1>15. Answered'
  BY <1>1, <1>2 DEF Answered
<1>16. QED
  BY <1>1, <1>8, <1>13, <1>14, <1>15 DEF LoopInv

LEMMA ToolReturnsStep ==
  ASSUME LoopInv, ToolReturns
  PROVE  StreamNext /\ LoopInv'
<1>1. /\ pc = "tool" /\ "output" \in dispatch_tool(Called) /\ pc' = "turn"
      /\ emitted' = Append(emitted, ToolResult) /\ iteration' = iteration
      /\ results' = Append(results, Result(Called, "output"))
      /\ attempt' = attempt /\ calls' = calls /\ request' = request
  BY DEF ToolReturns, Emit
<1>2. LoopTypes /\ Answered /\ Reviewing
  BY <1>1 DEF LoopInv
<1>3. /\ emitted \in Seq(Events) /\ TurnMatches /\ Len(results) < Len(calls)
      /\ Count("error", emitted) = 0 /\ ~Ends(emitted)
      /\ emitted # <<>> /\ Last(emitted) = ToolCallEvent
      /\ Count("thinking", emitted) = iteration + 1 /\ iteration < MaxTurns
  BY <1>1, <1>2 DEF LoopTypes, Reviewing
<1>4. Len(results) \in Nat /\ Len(calls) \in Nat /\ iteration \in Nat
  BY <1>2, LoopNumbers
<1>5. /\ results' \in Seq(Results) /\ Len(results') = Len(results) + 1 /\ Answered'
      /\ Cardinality(Outputs(results')) = Cardinality(Outputs(results)) + 1
  BY <1>1, <1>2, <1>3, ResultAppended
<1>6. ToolResult \in Events /\ ToolResult.type = "tool_result" /\ ToolResult # FinalAnswer
  BY EventKinds
<1>7. StreamNext
  BY <1>1, <1>3, <1>6 DEF StreamNext, Allowed
<1>8. emitted' \in Seq(Events) /\ ~Ends(emitted')
  BY <1>1, <1>3, <1>6, StreamAppend
<1>9. /\ Turn(emitted') = Turn(emitted)
      /\ Turn(emitted) # 0 => emitted'[Turn(emitted')] = emitted[Turn(emitted)]
      /\ Cardinality(InTurn("tool_call", emitted)) \in Nat
      /\ Cardinality(InTurn("tool_call", emitted')) =
           Cardinality(InTurn("tool_call", emitted)) + 0
      /\ Cardinality(InTurn("tool_result", emitted')) =
           Cardinality(InTurn("tool_result", emitted)) + 1
      /\ Count("thinking", emitted') = Count("thinking", emitted)
      /\ Count("error", emitted') = Count("error", emitted) + 0
  BY <1>1, <1>3, <1>6, SameTurn
<1>10. TurnMatches'
  <2>1. Begun = Len(results) + 1 /\ Begun' = Len(results) + 1
    BY <1>1, <1>4, <1>5 DEF Begun
  <2>2. Turn(emitted') # 0 /\ emitted'[Turn(emitted')] = Thinking(Len(calls'))
    BY <1>1, <1>3, <1>9 DEF TurnMatches
  <2>3. Cardinality(InTurn("tool_call", emitted')) =
          Cardinality(InTurn("tool_call", emitted))
    BY <1>9
  <2>4. Cardinality(InTurn("tool_call", emitted')) = Begun'
    BY <1>3, <2>1, <2>3 DEF TurnMatches
  <2>5. Cardinality(InTurn("tool_result", emitted')) = Cardinality(Outputs(results'))
    BY <1>3, <1>5, <1>9 DEF TurnMatches
  <2>6. QED
    BY <2>2, <2>4, <2>5 DEF TurnMatches
<1>11. Count("error", emitted') = 0 /\ Count("thinking", emitted') = iteration' + 1
  BY <1>1, <1>3, <1>9
<1>12. Reviewing'
  BY <1>1, <1>3, <1>8, <1>10, <1>11 DEF Reviewing
<1>13. Len(results') =< Len(calls')
  BY <1>1, <1>3, <1>4, <1>5
<1>14. LoopTypes'
  BY <1>1, <1>2, <1>5, <1>8, <1>13 DEF LoopTypes, Points
<1>15. QED
  BY <1>1, <1>5, <1>7, <1>12, <1>14 DEF LoopInv

LEMMA ToolRaisesStep ==
  ASSUME LoopInv, ToolRaises
  PROVE  emitted' = emitted /\ LoopInv'
<1>1. /\ pc = "tool" /\ pc' = "turn" /\ emitted' = emitted /\ iteration' = iteration
      /\ attempt' = attempt /\ calls' = calls /\ request' = request
  BY DEF ToolRaises
<1>2. PICK outcome \in dispatch_tool(Called) \ {"output"} :
        results' = Append(results, Result(Called, outcome))
  BY DEF ToolRaises
<1>3. LoopTypes /\ Answered /\ Reviewing
  BY <1>1 DEF LoopInv
<1>4. /\ TurnMatches /\ Len(results) < Len(calls)
      /\ Count("error", emitted) = 0 /\ ~Ends(emitted)
      /\ Count("thinking", emitted) = iteration + 1 /\ iteration < MaxTurns
  BY <1>1, <1>3 DEF Reviewing
<1>5. Len(results) \in Nat /\ Len(calls) \in Nat
  BY <1>3, LoopNumbers
<1>6. /\ results' \in Seq(Results) /\ Len(results') = Len(results) + 1 /\ Answered'
      /\ Cardinality(Outputs(results)) \in Nat
      /\ Cardinality(Outputs(results')) = Cardinality(Outputs(results)) + 0
  BY <1>1, <1>2, <1>3, <1>4, ResultAppended
<1>7. TurnMatches'
  <2>1. Begun = Len(results) + 1 /\ Begun' = Len(results) + 1
    BY <1>1, <1>5, <1>6 DEF Begun
  <2>2. Cardinality(Outputs(results')) = Cardinality(Outputs(results))
    BY <1>6
  <2>3. QED
    BY <1>1, <1>4, <2>1, <2>2 DEF TurnMatches
<1>8. Reviewing'
  BY <1>1, <1>4, <1>7 DEF Reviewing
<1>9. Len(results') =< Len(calls')
  BY <1>1, <1>4, <1>5, <1>6
<1>10. LoopTypes'
  BY <1>1, <1>3, <1>6, <1>9 DEF LoopTypes, Points
<1>11. QED
  BY <1>1, <1>6, <1>8, <1>10 DEF LoopInv

LEMMA EndTurnStep ==
  ASSUME LoopInv, EndTurn
  PROVE  (StreamNext \/ emitted' = emitted) /\ LoopInv'
<1>1. /\ pc = "turn" /\ Len(results) = Len(calls) /\ iteration' = iteration + 1
      /\ calls' = calls /\ results' = results
  BY DEF EndTurn
<1>2. LoopTypes /\ Answered /\ Reviewing
  BY <1>1 DEF LoopInv
<1>3. /\ TurnMatches /\ Count("error", emitted) = 0 /\ ~Ends(emitted)
      /\ Count("thinking", emitted) = iteration + 1 /\ iteration < MaxTurns
  BY <1>1, <1>2 DEF Reviewing
<1>4. /\ iteration \in Nat /\ MaxTurns \in Nat /\ MaxAttempts \in Nat
      /\ Len(results) \in Nat
  BY <1>2, LoopNumbers
<1>5. iteration' \in 0 .. MaxTurns /\ iteration' > 0
  BY <1>1, <1>3, <1>4
<1>6. Begun = Len(results)
  BY <1>1, <1>4 DEF Begun
<1>7. CASE iteration' < MaxTurns
  <2>1. /\ pc' = "asking" /\ attempt' = 1 /\ request' = Request("", results)
        /\ emitted' = emitted
    BY <1>7 DEF EndTurn
  <2>2. 1 \in 1 .. MaxAttempts
    BY <1>4, LoopConstants
  <2>3. request' \in [message : {"query", ""}, tool_results : Seq(Results)]
    BY <1>2, <2>1 DEF Request, LoopTypes
  <2>4. request'.tool_results = results
    BY <2>1 DEF Request
  <2>5. LoopTypes'
    BY <1>1, <1>2, <1>5, <2>1, <2>2, <2>3 DEF LoopTypes, Points
  <2>6. Begun' = Begun
    BY <1>1, <1>4, <1>6, <2>1 DEF Begun
  <2>7. TurnMatches'
    BY <1>1, <1>3, <2>1, <2>6 DEF TurnMatches
  <2>8. Count("thinking", emitted') = iteration'
    BY <1>1, <1>3, <2>1, Zenon
  <2>9. Reviewing'
    <3>1. Count("thinking", emitted') = iteration' + (IF pc' = "asking" THEN 0 ELSE 1)
      <4>1. iteration' \in Nat
        BY <1>1, <1>4
      <4>2. \A k \in Nat : k + 0 = k
        OBVIOUS
      <4>3. QED
        BY <2>1, <2>8, <4>1, <4>2, Zenon
    <3>2. Count("error", emitted') = 0 /\ ~Ends(emitted')
      BY <1>3, <2>1, Zenon
    <3>3. iteration' # 0
      BY <1>5
    <3>4. QED
      BY <1>1, <1>7, <2>1, <2>4, <2>7, <3>1, <3>2, <3>3 DEF Reviewing
  <2>10. Answered'
    BY <1>1, <1>2 DEF Answered
  <2>11. QED
    BY <2>1, <2>5, <2>9, <2>10 DEF LoopInv
<1>8. CASE ~(iteration' < MaxTurns)
  <2>1. /\ pc' = "raising" /\ Emit(Error) /\ attempt' = attempt /\ request' = request
    BY <1>8 DEF EndTurn
  <2>2. Owed(emitted) = 0
    <3>1. Owed(emitted) = Len(calls) - Begun
      BY <1>3, OwedInTurn
    <3>2. QED
      BY <1>1, <1>4, <1>6, <3>1
  <2>3. QED
    BY <1>1, <1>5, <2>1, <2>2, LastEventStep
<1>9. QED
  BY <1>7, <1>8

LEMMA ReportsErrorStep ==
  ASSUME LoopInv, ReportsError
  PROVE  StreamNext /\ LoopInv'
<1>1. /\ pc = "raising" /\ Emit(Error) /\ pc' = "done" /\ iteration' = iteration
      /\ attempt' = attempt /\ calls' = calls /\ results' = results /\ request' = request
  BY DEF ReportsError
<1>2. /\ LoopTypes /\ Answered
      /\ Count("error", emitted) = 1 /\ Owed(emitted) = 0 /\ ~Ends(emitted)
  BY <1>1 DEF LoopInv
<1>3. /\ Error \in Events /\ Error \notin {ToolCallEvent, ToolResult}
      /\ Error.type # "thinking"
  BY EventKinds
<1>4. emitted \in Seq(Events) /\ emitted' = Append(emitted, Error)
  BY <1>1, <1>2 DEF LoopTypes, Emit
<1>5. StreamNext
  BY <1>2, <1>3, <1>4 DEF StreamNext, Allowed
<1>6. emitted' \in Seq(Events)
  BY <1>3, <1>4, AppendProperties
<1>7. LoopTypes' /\ Answered'
  BY <1>1, <1>2, <1>6 DEF LoopTypes, Points, Answered
<1>8. QED
  BY <1>1, <1>5, <1>7 DEF LoopInv

LEMMA DisconnectStep ==
  ASSUME LoopInv, Disconnect
  PROVE  emitted' = emitted /\ LoopInv'
<1>1. /\ pc' = "closed" /\ emitted' = emitted /\ iteration' = iteration
      /\ attempt' = attempt /\ calls' = calls /\ results' = results /\ request' = request
  BY DEF Disconnect
<1>2. LoopTypes' /\ Answered'
  BY <1>1 DEF LoopInv, LoopTypes, Points, Answered
<1>3. QED
  BY <1>1, <1>2 DEF LoopInv

LEMMA LoopInit ==
  ASSUME Init
  PROVE  StreamInit /\ LoopInv
<1>1. /\ emitted = <<>> /\ pc = "asking" /\ iteration = 0 /\ attempt = 1
      /\ calls = <<>> /\ results = <<>> /\ request = Request("query", <<>>)
      /\ StreamInit
  BY DEF Init, StreamInit
<1>2. /\ <<>> \in Seq(Events) /\ <<>> \in Seq(Results)
      /\ Len(<<>>) = 0 /\ DOMAIN <<>> = {}
  BY EmptySeq
<1>3. Places("thinking", emitted) = {} /\ Places("error", emitted) = {}
  BY <1>1, <1>2 DEF Places
<1>4. /\ Count("error", emitted) = 0 /\ Count("thinking", emitted) = 0
      /\ Turn(emitted) = 0
  BY <1>3, FS_EmptySet DEF Count, Turn
<1>5. LoopTypes
  <2>1. 0 \in 0 .. MaxTurns /\ 1 \in 1 .. MaxAttempts
    BY LoopConstants
  <2>2. request \in [message : {"query", ""}, tool_results : Seq(Results)]
    BY <1>1, <1>2 DEF Request
  <2>3. Len(results) =< Len(calls)
    BY <1>1, <1>2
  <2>4. QED
    BY <1>1, <1>2, <2>1, <2>2, <2>3 DEF LoopTypes, Points
<1>6. Answered
  BY <1>1, <1>2 DEF Answered
<1>7. Reviewing
  <2>1. iteration < MaxTurns
    BY <1>1, LoopConstants
  <2>2. Count("thinking", emitted) = iteration + (IF pc = "asking" THEN 0 ELSE 1)
    BY <1>1, <1>4
  <2>3. ~Ends(emitted)
    BY <1>1 DEF Ends
  <2>4. QED
    BY <1>1, <1>4, <2>1, <2>2, <2>3 DEF Reviewing
<1>8. QED
  BY <1>1, <1>5, <1>6, <1>7 DEF LoopInv

LEMMA LoopStep ==
  ASSUME LoopInv, [Next]_vars
  PROVE  [StreamNext]_emitted /\ LoopInv'
<1>1. CASE CallFails
  BY <1>1, CallFailsStep
<1>2. CASE CallGivesUp
  BY <1>2, CallGivesUpStep
<1>3. CASE Answers
  BY <1>3, AnswersStep
<1>4. CASE \E tool_calls \in Responses : WantsTools(tool_calls)
  BY <1>4, WantsToolsStep
<1>5. CASE StartTool
  BY <1>5, StartToolStep
<1>6. CASE ToolReturns
  BY <1>6, ToolReturnsStep
<1>7. CASE ToolRaises
  BY <1>7, ToolRaisesStep
<1>8. CASE EndTurn
  BY <1>8, EndTurnStep
<1>9. CASE ReportsError
  BY <1>9, ReportsErrorStep
<1>10. CASE Disconnect
  BY <1>10, DisconnectStep
<1>11. CASE UNCHANGED vars
  <2>1. /\ emitted' = emitted /\ pc' = pc /\ iteration' = iteration /\ attempt' = attempt
        /\ calls' = calls /\ results' = results /\ request' = request
    BY <1>11 DEF vars
  <2>2. QED
    BY <2>1 DEF LoopInv, LoopTypes, Answered, Reviewing, TurnMatches, Begun
<1>12. QED
  BY <1>1, <1>2, <1>3, <1>4, <1>5, <1>6, <1>7, <1>8, <1>9, <1>10, <1>11
     DEF Next, ModelStep, ToolStep

-----------------------------------------------------------------------------
(* The theorems.                                                           *)

LEMMA LoopInvariant == Spec => []LoopInv
<1>1. Init => LoopInv
  BY LoopInit
<1>2. LoopInv /\ [Next]_vars => LoopInv'
  BY LoopStep
<1>3. QED
  BY <1>1, <1>2, PTL DEF Spec

(* The state of a review stays as run and event_stream expect it.          *)
THEOREM LoopHasTypes == Spec => []TypeOK
<1>1. LoopInv => TypeOK
  BY DEF LoopInv, LoopTypes, TypeOK
<1>2. QED
  BY <1>1, LoopInvariant, PTL

(* Whenever the model is asked again it gets one result per call it made,  *)
(* in the order of the calls, and as many outputs as the client saw.       *)
THEOREM ResultsAreAnswers == Spec => []ResultsAnswerCalls
<1>1. LoopInv => ResultsAnswerCalls
  <2> SUFFICES ASSUME LoopInv, pc = "asking", iteration > 0
               PROVE  /\ [i \in DOMAIN request.tool_results |->
                            request.tool_results[i].call] = calls
                      /\ emitted[Turn(emitted)] = Thinking(Len(calls))
                      /\ Cardinality({i \in DOMAIN request.tool_results :
                                        request.tool_results[i].outcome = "output"})
                           = Cardinality(InTurn("tool_result", emitted))
    BY DEF ResultsAnswerCalls
  <2>1. LoopTypes /\ Answered /\ Reviewing
    BY DEF LoopInv
  <2>2. TurnMatches /\ Len(results) = Len(calls) /\ request.tool_results = results
    BY <2>1 DEF Reviewing
  <2>3. /\ DOMAIN results = 1 .. Len(results)
        /\ Len(calls) \in Nat /\ DOMAIN calls = 1 .. Len(calls)
    BY <2>1, LoopNumbers
  <2>4. calls \in Seq(ToolCalls)
    <3>1. CASE calls = <<>>
      BY <3>1, EmptySeq
    <3>2. CASE calls \in Responses
      <4>1. PICK n \in 1 .. MaxCalls : calls \in [1 .. n -> ToolCalls]
        BY <3>2 DEF Responses
      <4>2. n \in Nat
        BY LoopConstants
      <4>3. QED
        BY <4>1, <4>2, SeqDef
    <3>3. QED
      BY <2>1, <3>1, <3>2 DEF LoopTypes
  <2>5. calls = [i \in 1 .. Len(calls) |-> calls[i]]
    BY <2>4, LenProperties
  <2>6. \A i \in 1 .. Len(calls) : results[i].call = calls[i]
    BY <2>1, <2>2, <2>3 DEF Answered
  <2>7. [i \in DOMAIN results |-> results[i].call] = calls
    BY <2>2, <2>3, <2>5, <2>6
  <2>8. Cardinality(Outputs(results)) = Cardinality(InTurn("tool_result", emitted))
    BY <2>2 DEF TurnMatches
  <2>9. emitted[Turn(emitted)] = Thinking(Len(calls))
    BY <2>2 DEF TurnMatches
  <2>10. QED
    BY <2>2, <2>7, <2>8, <2>9 DEF Outputs
<1>2. QED
  BY <1>1, LoopInvariant, PTL

(* dispatch_tool refuses the calls that TOOL_DEFINITIONS does not allow,   *)
(* and no other, in every turn of every review.                            *)
THEOREM DefinitionsAreTheTools == Spec => []DefinedCallsRun
<1>1. LoopInv => DefinedCallsRun
  <2> SUFFICES ASSUME LoopInv, NEW i \in DOMAIN results
               PROVE  results[i].outcome = "refused" <=> ~Defined(results[i].call)
    BY DEF DefinedCallsRun
  <2>1. results[i].outcome \in dispatch_tool(results[i].call)
    BY DEF LoopInv, Answered
  <2>2. TOOL_DEFINITIONS = Signatures
    BY DEF TOOL_DEFINITIONS, Signatures
  <2>3. CASE Defined(results[i].call)
    <3>1. dispatch_tool(results[i].call) = {"output", "raised"}
      BY <2>2, <2>3 DEF dispatch_tool, Defined
    <3>2. QED
      BY <2>1, <2>3, <3>1
  <2>4. CASE ~Defined(results[i].call)
    <3>1. dispatch_tool(results[i].call) = {"refused"}
      BY <2>2, <2>4 DEF dispatch_tool, Defined
    <3>2. QED
      BY <2>1, <2>4, <3>1
  <2>5. QED
    BY <2>3, <2>4
<1>2. QED
  BY <1>1, LoopInvariant, PTL

(* The endpoint's stream is one that AgentStream allows: every step of a   *)
(* review emits an event that may come next, or none.                      *)
THEOREM ReviewsStreamInOrder == Spec => StreamIsOrdered
<1>1. Init => StreamInit
  BY LoopInit
<1>2. LoopInv /\ [Next]_vars => [StreamNext]_emitted
  BY LoopStep
<1>3. QED
  BY <1>1, <1>2, LoopInvariant, PTL DEF Spec, StreamIsOrdered, Stream

=============================================================================

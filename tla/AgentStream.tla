----------------------------- MODULE AgentStream -----------------------------
(***************************************************************************)
(* What a client of /review or /followup may rely on about its event       *)
(* stream: every "thinking" event announces a number of tool calls, that   *)
(* many "tool_call" events follow, each perhaps with its "tool_result",    *)
(* before anything else comes; a final answer or an error is the end, but  *)
(* for one repetition of the error; and the stream is bounded.             *)
(***************************************************************************)
EXTENDS Integers, FiniteSets, Sequences, SequencesExt

CONSTANTS MaxTurns, MaxCalls

VARIABLE emitted     \* the events so far

Event(type, n) == [type |-> type, n |-> n]

Thinking(n) == Event("thinking", n)
ToolCallEvent == Event("tool_call", 0)
ToolResult == Event("tool_result", 0)
FinalAnswer == Event("final_answer", 0)
Error == Event("error", 0)

Events == {Thinking(n) : n \in 1 .. MaxCalls}
            \cup {ToolCallEvent, ToolResult, FinalAnswer, Error}

(* The events of a type, by their places in the stream. *)
Places(type, s) == {i \in DOMAIN s : s[i].type = type}
Count(type, s) == Cardinality(Places(type, s))

(* The place of the last "thinking" event, 0 before the first; the events  *)
(* since then; the tool calls that it announced and that are not started.  *)
Turn(s) ==
  CHOOSE i \in Places("thinking", s) \cup {0} : \A j \in Places("thinking", s) : j =< i
InTurn(type, s) == {i \in Places(type, s) : i > Turn(s)}
Owed(s) ==
  IF Turn(s) = 0 THEN 0 ELSE s[Turn(s)].n - Cardinality(InTurn("tool_call", s))

Ends(s) == s # <<>> /\ Last(s) = FinalAnswer

Allowed(s, e) ==
  /\ ~Ends(s)
  /\ Count("error", s) > 0 => e = Error /\ Count("error", s) = 1
  /\ \/ e = ToolCallEvent /\ Owed(s) > 0
     \/ e = ToolResult /\ s # <<>> /\ Last(s) = ToolCallEvent
     \/ /\ e \notin {ToolCallEvent, ToolResult}
        /\ Owed(s) = 0
        /\ e.type = "thinking" => Count("thinking", s) < MaxTurns

StreamInit == emitted = <<>>

StreamNext ==
  \E e \in Events : Allowed(emitted, e) /\ emitted' = Append(emitted, e)

Stream == StreamInit /\ [][StreamNext]_emitted

=============================================================================

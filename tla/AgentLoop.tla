------------------------------ MODULE AgentLoop ------------------------------
(***************************************************************************)
(* One review: ContractReviewAgent.run (src/legallens/agents/loop.py) as   *)
(* an async generator, and the event_stream of the endpoint (api/main.py)  *)
(* that forwards its events.  The language model decides what to answer    *)
(* and whether to fail; a tool returns, or dispatch_tool raises.           *)
(***************************************************************************)
EXTENDS AgentStream, ToolDispatch

CONSTANT MaxAttempts    \* stop_after_attempt of _call_cohere's retry

(* MaxTurns is MAX_AGENT_ITERATIONS; MaxCalls bounds the tool calls of one *)
(* response, which the code does not.                                      *)
ASSUME LoopConstants ==
  /\ MaxTurns \in Nat \ {0}
  /\ MaxCalls \in Nat \ {0}
  /\ MaxAttempts \in Nat \ {0}

VARIABLES
  pc,         \* where the generator, or event_stream around it, is
  iteration,  \* the loop's counter, from 0
  attempt,    \* the attempt of _call_cohere under way, from 1
  calls,      \* response.tool_calls
  results,    \* tool_results: of each call handled, the call and how it ended
  request     \* the request to the model that is under way

vars == <<emitted, pc, iteration, attempt, calls, results, request>>

Points ==
  {"asking",    \* awaiting client.chat
   "turn",      \* at the head of the loop over response.tool_calls
   "tool",      \* awaiting dispatch_tool
   "raising",   \* AgentLoopError is on its way to event_stream
   "done",
   "closed"}    \* the client is gone and the generator was closed

Emit(e) == emitted' = Append(emitted, e)

(* What client.chat gets besides constants; chat_history is always empty. *)
Request(message, tool_results) ==
  [message |-> message, tool_results |-> tool_results]
NoRequest == Request("", <<>>)

Result(call, outcome) == [call |-> call, outcome |-> outcome]

Init ==
  /\ StreamInit
  /\ pc = "asking"
  /\ iteration = 0
  /\ attempt = 1
  /\ calls = <<>>
  /\ results = <<>>
  /\ request = Request("query", <<>>)

-----------------------------------------------------------------------------
(* The model answers.                                                      *)

(* Mutant: one attempt too many. *)
CallFailsOnceMore ==
  /\ pc = "asking" /\ attempt =< MaxAttempts
  /\ attempt' = attempt + 1
  /\ UNCHANGED <<emitted, pc, iteration, calls, results, request>>

(* Mutant: the attempts are counted afresh when they are used up. *)
CallFailsForever ==
  /\ pc = "asking"
  /\ attempt' = IF attempt < MaxAttempts THEN attempt + 1 ELSE 1
  /\ UNCHANGED <<emitted, pc, iteration, calls, results, request>>

(* tenacity waits and asks again. *)
CallFails ==
  /\ pc = "asking" /\ attempt < MaxAttempts
  /\ attempt' = attempt + 1
  /\ UNCHANGED <<emitted, pc, iteration, calls, results, request>>

(* The last attempt fails: RetryError, which run reports and re-raises. *)
CallGivesUp ==
  /\ pc = "asking" /\ attempt = MaxAttempts
  /\ Emit(Error)
  /\ pc' = "raising"
  /\ request' = NoRequest
  /\ UNCHANGED <<iteration, attempt, calls, results>>

Answers ==
  /\ pc = "asking"
  /\ Emit(FinalAnswer)
  /\ pc' = "done"
  /\ request' = NoRequest
  /\ UNCHANGED <<iteration, attempt, calls, results>>

(* Mutant: the results of the turn before are kept. *)
WantsMoreTools(tool_calls) ==
  /\ pc = "asking"
  /\ Emit(Thinking(Len(tool_calls)))
  /\ calls' = tool_calls
  /\ pc' = "turn"
  /\ request' = NoRequest
  /\ UNCHANGED <<iteration, attempt, results>>

WantsTools(tool_calls) ==
  /\ pc = "asking"
  /\ Emit(Thinking(Len(tool_calls)))
  /\ calls' = tool_calls
  /\ results' = <<>>
  /\ pc' = "turn"
  /\ request' = NoRequest
  /\ UNCHANGED <<iteration, attempt>>

-----------------------------------------------------------------------------
(* The tool calls, one after the other.                                    *)

StartTool ==
  /\ pc = "turn" /\ Len(results) < Len(calls)
  /\ Emit(ToolCallEvent)
  /\ pc' = "tool"
  /\ UNCHANGED <<iteration, attempt, calls, results, request>>

Called == calls[Len(results) + 1]

ToolReturns ==
  /\ pc = "tool"
  /\ "output" \in dispatch_tool(Called)
  /\ Emit(ToolResult)
  /\ results' = Append(results, Result(Called, "output"))
  /\ pc' = "turn"
  /\ UNCHANGED <<iteration, attempt, calls, request>>

(* The model is told, the client is not. *)
ToolRaises ==
  /\ pc = "tool"
  /\ \E outcome \in dispatch_tool(Called) \ {"output"} :
       results' = Append(results, Result(Called, outcome))
  /\ pc' = "turn"
  /\ UNCHANGED <<emitted, iteration, attempt, calls, request>>

(* Mutant: one iteration too many. *)
EndTurnOnceMore ==
  /\ pc = "turn" /\ Len(results) = Len(calls)
  /\ iteration' = iteration + 1
  /\ IF iteration' =< MaxTurns
     THEN /\ pc' = "asking"
          /\ attempt' = 1
          /\ request' = Request("", results)
          /\ UNCHANGED emitted
     ELSE /\ pc' = "raising"
          /\ Emit(Error)
          /\ UNCHANGED <<attempt, request>>
  /\ UNCHANGED <<calls, results>>

(* All calls are handled: the next iteration sends the results and an      *)
(* empty message, unless that was the last one.                            *)
EndTurn ==
  /\ pc = "turn" /\ Len(results) = Len(calls)
  /\ iteration' = iteration + 1
  /\ IF iteration' < MaxTurns
     THEN /\ pc' = "asking"
          /\ attempt' = 1
          /\ request' = Request("", results)
          /\ UNCHANGED emitted
     ELSE /\ pc' = "raising"
          /\ Emit(Error)
          /\ UNCHANGED <<attempt, request>>
  /\ UNCHANGED <<calls, results>>

-----------------------------------------------------------------------------
(* event_stream.                                                           *)

(* except AgentLoopError: the endpoint reports the error once more. *)
ReportsError ==
  /\ pc = "raising"
  /\ Emit(Error)
  /\ pc' = "done"
  /\ UNCHANGED <<iteration, attempt, calls, results, request>>

(* The client goes away: the stream's task is cancelled and no except      *)
(* clause of run or event_stream catches that.                             *)
Disconnect ==
  /\ pc \notin {"done", "closed"}
  /\ pc' = "closed"
  /\ UNCHANGED <<emitted, iteration, attempt, calls, results, request>>

Responses == UNION {[1 .. n -> ToolCalls] : n \in 1 .. MaxCalls}

ModelStep ==
  CallFails \/ CallGivesUp \/ Answers \/ (\E tool_calls \in Responses : WantsTools(tool_calls))
ToolStep == StartTool \/ ToolReturns \/ ToolRaises \/ EndTurn

Next == ModelStep \/ ToolStep \/ ReportsError \/ Disconnect

Spec == Init /\ [][Next]_vars

(* The model and the tools answer or fail, the client may stay for ever. *)
FairSpec == Spec /\ WF_vars(ModelStep) /\ WF_vars(ToolStep) /\ WF_vars(ReportsError)

-----------------------------------------------------------------------------
(* Properties.                                                             *)

TypeOK ==
  /\ emitted \in Seq(Events)
  /\ pc \in Points
  /\ iteration \in 0 .. MaxTurns
  /\ attempt \in 1 .. MaxAttempts
  /\ calls \in Responses \cup {<<>>}
  /\ Len(results) =< Len(calls)
  /\ request.message \in {"query", ""}

(* What the model is told about a turn is complete: whenever it is asked   *)
(* again, it gets one result per call it made, failed ones included, each  *)
(* with its own call, and the calls that did not fail are those whose      *)
(* result the client saw.                                                  *)
ResultsAnswerCalls ==
  pc = "asking" /\ iteration > 0 =>
    /\ [i \in DOMAIN request.tool_results |-> request.tool_results[i].call] = calls
    /\ emitted[Turn(emitted)] = Thinking(Len(calls))
    /\ Cardinality({i \in DOMAIN request.tool_results :
                      request.tool_results[i].outcome = "output"})
         = Cardinality(InTurn("tool_result", emitted))

(* "Tool definitions exposed to the Cohere agent" (prompts/tools.py:1),    *)
(* "its own inputs" validated by the tool (retrieval/tools.py:7-8): a call *)
(* made as the definitions say is never refused for its form, and no other *)
(* one reaches a function.                                                 *)
DefinedCallsRun ==
  \A i \in DOMAIN results : results[i].outcome = "refused" <=> ~Defined(results[i].call)

(* The endpoint's stream is as AgentStream promises. *)
StreamIsOrdered == Stream

(* "max_iterations to prevent infinite loops" (loop.py:10): whatever the   *)
(* model keeps asking for, a review comes to its end.                      *)
Terminates == <>(pc \in {"done", "closed"})

=============================================================================

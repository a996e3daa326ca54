---------------------------- MODULE ToolDispatch ----------------------------
(***************************************************************************)
(* What the model is told about the tools (TOOL_DEFINITIONS of             *)
(* src/legallens/prompts/tools.py) and what dispatch_tool does with a call *)
(* (src/legallens/retrieval/tools.py): two accounts of the same three      *)
(* functions, in two files that nothing compares.                          *)
(*                                                                         *)
(* A call is a tool's name and the names of the parameters it comes with.  *)
(***************************************************************************)

ToolCall(name, params) == [name |-> name, params |-> params]
Parameters(required, optional) == [required |-> required, optional |-> optional]

Fits(params, p) == p.required \subseteq params /\ params \subseteq p.required \cup p.optional

TOOL_DEFINITIONS ==
  [extract_clauses |-> Parameters({"contract_id", "category"}, {}),
   search_similar_clauses |-> Parameters({"query"}, {"top_k"}),
   score_clause_risk |-> Parameters({"clause_id"}, {})]

(* Mutant: a parameter that lost its default. *)
StricterSignatures ==
  [extract_clauses |-> Parameters({"contract_id", "category"}, {}),
   search_similar_clauses |-> Parameters({"query", "top_k"}, {}),
   score_clause_risk |-> Parameters({"clause_id"}, {})]

(* The coroutines of _TOOL_REGISTRY. *)
Signatures ==
  [extract_clauses |-> Parameters({"contract_id", "category"}, {}),
   search_similar_clauses |-> Parameters({"query"}, {"top_k"}),
   score_clause_risk |-> Parameters({"clause_id"}, {})]

(* The call is one that the definitions allow. *)
Defined(call) ==
  call.name \in DOMAIN TOOL_DEFINITIONS /\ Fits(call.params, TOOL_DEFINITIONS[call.name])

(* How dispatch_tool ends: a ValueError for a tool that is not in the      *)
(* registry, a TypeError for parameters its function does not take, and    *)
(* otherwise what the function returns (for an unknown clause id, an error *)
(* of its own) or raises.                                                  *)
dispatch_tool(call) ==
  IF call.name \in DOMAIN Signatures /\ Fits(call.params, Signatures[call.name])
  THEN {"output", "raised"}
  ELSE {"refused"}

(* The least and the most that a definition asks for, and calls that a     *)
(* model makes in spite of it.                                             *)
ToolCalls ==
  {ToolCall(name, TOOL_DEFINITIONS[name].required) : name \in DOMAIN TOOL_DEFINITIONS}
    \cup {ToolCall("search_similar_clauses", {"query", "top_k"}),
          ToolCall("score_clause_risk", {"clause_id", "category"}),
          ToolCall("summarize_contract", {"contract_id"})}

=============================================================================

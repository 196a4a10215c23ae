------------------------------ MODULE Dispatch ------------------------------
(***************************************************************************)
(* What the server makes of one JSON-RPC request: Server.Dispatch and      *)
(* handleToolsCall of internal/mcp/server.go.  The registered tools never  *)
(* change after main has registered them, and what a tool does to the      *)
(* store is modelled elsewhere: here it answers or reports an error.       *)
(***************************************************************************)
CONSTANTS
    ReqId,              \* JSON-RPC ids
    NoId,               \* the id of a notification: absent or null
    NoResponse,         \* nil
    Panic               \* the handler did not return

Method == {"initialize", "initialized", "notifications/initialized", "ping",
           "tools/list", "tools/call", "other"}

\* What a tools/call carries; "none" with any other method.
Params == {"none", "malformed", "unknown tool", "known tool"}

Message ==
    {m \in [id : ReqId \cup {NoId}, method : Method, params : Params] :
        m.method = "tools/call" <=> m.params # "none"}

\* A result is named for what it answers, an error for what it says.
Result ==
    Method \cup {"tool result", "tool error", "invalid params", "method not found",
                "parse error"}

Response == [id : ReqId \cup {NoId}, result : Result]

ASSUME DispatchAssumption ==
    /\ NoId \notin ReqId
    /\ NoResponse \notin Response
    /\ Panic \notin Response \cup {NoResponse}

Ok(id, result) == [id |-> id, result |-> result]
Err(id, code) == [id |-> id, result |-> code]

\* The responses handleToolsCall may give: a handler's error is a result.  No
\* one recovers from its panic; generate_context has one, see ReadTools.
HandleToolsCall(m) ==
    IF m.params = "malformed" THEN {Err(m.id, "invalid params")}
    ELSE IF m.params = "unknown tool" THEN {Err(m.id, "method not found")}
    ELSE {Ok(m.id, "tool result"), Ok(m.id, "tool error"), Panic}

Silent == {"initialized", "notifications/initialized"}

\* Mutant of Responses: an unknown method is passed over in silence.
ResponsesUnknownDropped(m) ==
    CASE m.method \in Silent \cup {"other"} -> {NoResponse}
      [] m.method = "tools/call" -> HandleToolsCall(m)
      [] OTHER -> {Ok(m.id, m.method)}

\* Dispatch: only an unknown method looks at whether the request has an id.
Responses(m) ==
    CASE m.method \in {"initialize", "ping", "tools/list"} -> {Ok(m.id, m.method)}
      [] m.method \in Silent -> {NoResponse}
      [] m.method = "tools/call" -> HandleToolsCall(m)
      [] m.method = "other" ->
            IF m.id = NoId THEN {NoResponse} ELSE {Err(m.id, "method not found")}
=============================================================================

------------------------------- MODULE MCMain -------------------------------
(* Every method on standard input; over HTTP the calls that take different   *)
(* ways through the handlers.  Environments: each variable good, bad and     *)
(* missing, and every mix of limits on, tight and off.                       *)
EXTENDS Main

MCSent ==
    {m \in Message : m.id \in ReqId \/ m.method \in {"ping", "other", "initialized"}}

Ask == [id |-> CHOOSE i \in ReqId : TRUE, method |-> "tools/call", params |-> "known tool"]
Notify == [id |-> NoId, method |-> "other", params |-> "none"]

Plain(h) == [path |-> "/mcp", method |-> "POST", bearer |-> TRUE, header |-> h,
             ip |-> CHOOSE a \in Address : TRUE, body |-> "fits", message |-> Ask]

MCOffered ==
    LET none == Plain(NoHeader) IN
    {Plain(h) : h \in User \cup {NoHeader, BadHeader}}
    \cup {[Plain(CHOOSE u \in User : TRUE) EXCEPT !.bearer = FALSE]}
    \cup {[none EXCEPT !.body = b] : b \in {"too big", "broken", "not json"}}
    \cup {[none EXCEPT !.method = "GET"], [none EXCEPT !.message = Notify],
          [none EXCEPT !.path = "/healthz"], [none EXCEPT !.path = "elsewhere"],
          [none EXCEPT !.path = "/download"],
          [none EXCEPT !.path = "/download", !.method = "GET", !.bearer = FALSE],
          [Plain(CHOOSE u \in User : TRUE) EXCEPT !.path = "/download", !.method = "GET"]}

Good == [mode |-> "http", signingKey |-> "good", bearer |-> TRUE,
         bodyLimit |-> Unset, mcpLimit |-> Unset, downloadLimit |-> Unset]

MCEnv ==
    {[Good EXCEPT !.mode = m] : m \in {"stdio", "http", "other"}}
    \cup {[Good EXCEPT !.signingKey = k] : k \in {"unset", "not hex", "below 16 bytes"}}
    \cup {[Good EXCEPT !.bearer = FALSE],
          [Good EXCEPT !.bodyLimit = 0, !.downloadLimit = NotANumber],
          [Good EXCEPT !.mcpLimit = 0],
          [Good EXCEPT !.mcpLimit = 1, !.bodyLimit = -1],
          [Good EXCEPT !.mcpLimit = 1, !.downloadLimit = 0],
          [Good EXCEPT !.mcpLimit = 0, !.bodyLimit = 0, !.downloadLimit = 0]}
=============================================================================

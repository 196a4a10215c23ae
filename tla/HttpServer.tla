----------------------------- MODULE HttpServer -----------------------------
(***************************************************************************)
(* The handler of internal/mcp/http.go and middleware.go: /mcp behind the  *)
(* body cap, the rate limit, the bearer and the user identity; /download   *)
(* behind a rate limit of its own on the same limiter; /healthz.  Each     *)
(* connection is a goroutine; they share the rate limiter.                 *)
(*                                                                         *)
(* A key's calls within the last minute are a number here, which goes down *)
(* at any time as the oldest call leaves the window: SlidingLog without    *)
(* its clock.  What /download makes of a token is modelled in Transfer.    *)
(***************************************************************************)
EXTENDS Dispatch, Naturals

CONSTANTS
    User,               \* ids that match userIDPattern
    NoHeader, BadHeader,
    Address,            \* client addresses
    Conn,
    Offered,            \* the requests clients may make
    NoCall,
    Anon,
    NoKey,
    Limits              \* values the two limits may have, 0 for none

Path == {"/mcp", "/download", "/healthz", "elsewhere"}
Body == {"fits", "too big", "broken", "not json"}

Call == [path : Path,
         method : {"GET", "POST"},
         bearer : BOOLEAN,                  \* the Authorization header matches
         header : User \cup {NoHeader, BadHeader},
         ip : Address,
         body : Body,
         message : Message]

\* HTTPConfig, without the address and the bearer.
HTTPConfig == [BodyLimit : BOOLEAN, MCPRateLimitPerMin : Limits,
               DownloadRateLimitPerMin : Limits]

\* What Main assumes of these constants.
HttpConstants ==
    /\ Offered \subseteq Call
    /\ NoCall \notin Call
    /\ User \cap {Anon, NoHeader, BadHeader} = {}
    /\ User \cap Address = {}
    /\ NoKey \notin User \cup Address
    /\ Limits \subseteq Nat

Key == User \cup Address

VARIABLES
    cfg,                \* what ServeHTTP was called with; no handler changes it
    spent,              \* per key, its calls within the window
    pc,                 \* the handler a connection is in, or its status
    call,               \* the request
    runsAs,             \* the user id in the request's context
    reply,              \* the response in the event stream
    charged             \* history: the key the call was counted for

vars == << spent, pc, call, runsAs, reply, charged >>

Stage == {"body", "rate", "bearer", "identity", "serve", "tool", "download rate", "download"}
Status == {"200", "400", "401", "404", "405", "410", "413", "429", "aborted"}

TypeOK ==
    /\ cfg \in HTTPConfig
    /\ \A k \in Key : \E n \in Limits \cup {0} : spent[k] \in 0..n
    /\ DOMAIN spent = Key
    /\ pc \in [Conn -> {"idle"} \cup Stage \cup Status]
    /\ call \in [Conn -> Offered \cup {NoCall}]
    /\ \A c \in Conn : pc[c] = "idle" <=> call[c] = NoCall
    /\ runsAs \in [Conn -> User \cup {Anon}]
    /\ charged \in [Conn -> Key \cup {NoKey}]

Init ==
    /\ spent = [k \in Key |-> 0]
    /\ pc = [c \in Conn |-> "idle"]
    /\ call = [c \in Conn |-> NoCall]
    /\ runsAs = [c \in Conn |-> Anon]
    /\ reply = [c \in Conn |-> NoResponse]
    /\ charged = [c \in Conn |-> NoKey]

Goto(c, label) == pc' = [pc EXCEPT ![c] = label]

\* The mux and the handler it finds; a limit of 0 leaves its middleware out.
Handler(q) ==
    CASE q.path = "/mcp" -> IF cfg.BodyLimit THEN "body"
                            ELSE IF cfg.MCPRateLimitPerMin > 0 THEN "rate" ELSE "bearer"
      [] q.path = "/download" ->
            IF cfg.DownloadRateLimitPerMin > 0 THEN "download rate" ELSE "download"
      [] q.path = "/healthz" -> "200"
      [] q.path = "elsewhere" -> "404"

Arrive(c, q) ==
    /\ pc[c] = "idle"
    /\ Goto(c, Handler(q))
    /\ call' = [call EXCEPT ![c] = q]
    /\ UNCHANGED << spent, runsAs, reply, charged >>

\* The body is read before anything else is looked at.
WithBodyLimit(c) ==
    LET b == call[c].body IN
    /\ pc[c] = "body"
    /\ Goto(c, IF b = "too big" THEN "413"
               ELSE IF b = "broken" THEN "400"
               ELSE IF cfg.MCPRateLimitPerMin > 0 THEN "rate" ELSE "bearer")
    /\ UNCHANGED << spent, call, runsAs, reply, charged >>

\* keyFnMCP: the user when the header is a valid id, else the address.
KeyFn(q) == IF q.header \in User THEN q.header ELSE q.ip

\* Limiter.Allow: a key above the limit of this route is cut back to it.
Allow(k, limit, c) ==
    IF spent[k] < limit
      THEN /\ spent' = [spent EXCEPT ![k] = @ + 1]
           /\ charged' = [charged EXCEPT ![c] = k]
      ELSE /\ spent' = [spent EXCEPT ![k] = limit]
           /\ UNCHANGED charged

\* The call is counted before its bearer, or its token, is looked at.
WithRateLimit(c, stage, limit, next) ==
    LET k == KeyFn(call[c]) IN
    /\ pc[c] = stage
    /\ Allow(k, limit, c)
    /\ Goto(c, IF spent[k] < limit THEN next ELSE "429")
    /\ UNCHANGED << call, runsAs, reply >>

BearerMiddleware(c) ==
    /\ pc[c] = "bearer"
    /\ Goto(c, IF call[c].bearer THEN "identity" ELSE "401")
    /\ UNCHANGED << spent, call, runsAs, reply, charged >>

\* Mutant of UserContextMiddleware: a malformed id falls back to the shared
\* corpus, like a missing one.
UserContextFallsBack(c) ==
    /\ pc[c] = "identity"
    /\ Goto(c, "serve")
    /\ runsAs' = [runsAs EXCEPT ![c] = IF call[c].header \in User THEN call[c].header ELSE Anon]
    /\ UNCHANGED << spent, call, reply, charged >>

UserContextMiddleware(c) ==
    LET h == call[c].header IN
    /\ pc[c] = "identity"
    /\ IF h = BadHeader
         THEN Goto(c, "400") /\ UNCHANGED runsAs
         ELSE /\ Goto(c, "serve")
              /\ runsAs' = [runsAs EXCEPT ![c] = IF h = NoHeader THEN Anon ELSE h]
    /\ UNCHANGED << spent, call, reply, charged >>

\* serveMCP up to Dispatch: without a cap the body is read here, however big.
ServeMCP(c) ==
    /\ pc[c] = "serve"
    /\ Goto(c, IF call[c].method # "POST" THEN "405"
               ELSE IF call[c].body \in {"broken", "not json"} THEN "400" ELSE "tool")
    /\ UNCHANGED << spent, call, runsAs, reply, charged >>

\* Dispatch and the event stream: a nil response is a stream without message,
\* and net/http recovers from a panic and closes the connection.
Respond(c) ==
    /\ pc[c] = "tool"
    /\ \E resp \in Responses(call[c].message) :
          IF resp = Panic
            THEN Goto(c, "aborted") /\ UNCHANGED reply
            ELSE Goto(c, "200") /\ reply' = [reply EXCEPT ![c] = resp]
    /\ UNCHANGED << spent, call, runsAs, charged >>

\* serveDownload: no bearer, the token decides.
ServeDownload(c) ==
    /\ pc[c] = "download"
    /\ \E status \in {"200", "400", "401", "404", "410"} :
          Goto(c, IF call[c].method # "GET" THEN "405" ELSE status)
    /\ UNCHANGED << spent, call, runsAs, reply, charged >>

Close(c) ==
    /\ pc[c] \in Status
    /\ Goto(c, "idle")
    /\ call' = [call EXCEPT ![c] = NoCall]
    /\ runsAs' = [runsAs EXCEPT ![c] = Anon]
    /\ reply' = [reply EXCEPT ![c] = NoResponse]
    /\ charged' = [charged EXCEPT ![c] = NoKey]
    /\ UNCHANGED spent

\* The oldest call of a key leaves the window.
Slide(k) ==
    /\ spent[k] > 0
    /\ spent' = [spent EXCEPT ![k] = @ - 1]
    /\ UNCHANGED << pc, call, runsAs, reply, charged >>

Serve(c) ==
    \/ WithBodyLimit(c)
    \/ WithRateLimit(c, "rate", cfg.MCPRateLimitPerMin, "bearer")
    \/ BearerMiddleware(c) \/ UserContextMiddleware(c) \/ ServeMCP(c) \/ Respond(c)
    \/ WithRateLimit(c, "download rate", cfg.DownloadRateLimitPerMin, "download")
    \/ ServeDownload(c)
    \/ Close(c)

Next ==
    \/ \E c \in Conn : Serve(c) \/ \E q \in Offered : Arrive(c, q)
    \/ \E k \in Key : Slide(k)

-----------------------------------------------------------------------------
(* Properties.                                                             *)

\* A tool runs as somebody only for a call with the right bearer, whose user
\* header is absent or names that user; and unless the limit is switched off
\* the call was counted against that same user's key, or the address's when it
\* runs as nobody: the two readings of the header, by keyFnMCP and by
\* userContextMiddleware, agree.  Of the calls that are refused, those stopped
\* by the body cap or the limiter are charged to nobody, and those with a wrong
\* bearer to whom they name: guessing the bearer is limited too.
ChargedToWhomItRunsAs ==
    \A c \in Conn :
        /\ pc[c] = "tool" =>
              /\ call[c].bearer
              /\ call[c].header = IF runsAs[c] = Anon THEN NoHeader ELSE runsAs[c]
              /\ charged[c] = IF cfg.MCPRateLimitPerMin = 0 THEN NoKey
                              ELSE IF runsAs[c] = Anon THEN call[c].ip ELSE runsAs[c]
        /\ pc[c] \in {"413", "429"} => charged[c] = NoKey
        /\ pc[c] = "401" /\ call[c].path = "/mcp" /\ cfg.MCPRateLimitPerMin > 0 =>
              charged[c] = KeyFn(call[c])
=============================================================================

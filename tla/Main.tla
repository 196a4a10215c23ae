-------------------------------- MODULE Main --------------------------------
(***************************************************************************)
(* cmd/storyplotter-mcp/main.go: the process reads its flags and its       *)
(* environment, and becomes a server on its standard input and output, a   *)
(* server on a port, or nothing.  Composes StdioServer and HttpServer.     *)
(***************************************************************************)
EXTENDS Dispatch, Integers, SequencesExt

CONSTANTS
    Sent, Malformed, MaxSent,                           \* of StdioServer
    User, NoHeader, BadHeader, Address, Conn, Offered,  \* of HttpServer
    NoCall, Anon, NoKey,
    Env,                \* the environments the process may be started in
    Unset, NotANumber,  \* values of a variable that should be a number
    DefaultMCPLimit,    \* 60 in the code
    DefaultDownloadLimit    \* 30 in the code

VARIABLES
    env,                \* flags and environment variables
    process,            \* what the process is doing, or how it ended
    input, closed, output, state, pending, decoded,     \* of StdioServer
    spent, pc, call, runsAs, reply, charged             \* of HttpServer

stdioVars == << input, closed, output, state, pending, decoded >>
httpVars == << spent, pc, call, runsAs, reply, charged >>
vars == << env, process, stdioVars, httpVars >>

\* envInt64: a number that is not negative, 0 included, or the default.
EnvInt64(raw, def) == IF raw \in {Unset, NotANumber} \/ raw < 0 THEN def ELSE raw

\* The HTTPConfig main builds; the default body limit is on.
cfg == [BodyLimit |-> EnvInt64(env.bodyLimit, 1) > 0,
        MCPRateLimitPerMin |-> EnvInt64(env.mcpLimit, DefaultMCPLimit),
        DownloadRateLimitPerMin |-> EnvInt64(env.downloadLimit, DefaultDownloadLimit)]

\* The limits cfg can hold.
Limits == {DefaultMCPLimit, DefaultDownloadLimit} \cup
          {e.mcpLimit : e \in Env} \cup {e.downloadLimit : e \in Env}

Stdio == INSTANCE StdioServer
Http == INSTANCE HttpServer WITH Limits <- Limits \cap Nat

ASSUME MainAssumption ==
    /\ Stdio!StdioConstants
    /\ Http!HttpConstants
    /\ {DefaultMCPLimit, DefaultDownloadLimit} \subseteq Nat \ {0}
    /\ {Unset, NotANumber} \cap Int = {}
    /\ \A e \in Env :
          /\ e.mode \in {"stdio", "http", "other"}
          /\ e.signingKey \in {"unset", "not hex", "below 16 bytes", "good"}
          /\ e.bearer \in BOOLEAN
          /\ {e.bodyLimit, e.mcpLimit, e.downloadLimit} \subseteq Int \cup {Unset, NotANumber}

Exited == {"exit 0", "exit 1", "exit 2"}

TypeOK ==
    /\ env \in Env
    /\ process \in {"starting", "stdio", "http"} \cup Exited
    /\ Stdio!TypeOK
    /\ Http!TypeOK
    /\ process # "stdio" => state \in {"decode"} \cup Stdio!Stopped

Init ==
    /\ env \in Env
    /\ process = "starting"
    /\ Stdio!Init
    /\ Http!Init

CanServeHTTP == env.signingKey = "good" /\ env.bearer

StartStdio ==
    /\ process = "starting"
    /\ env.mode = "stdio"
    /\ process' = "stdio"
    /\ UNCHANGED << env, stdioVars, httpVars >>

StartHTTP ==
    /\ process = "starting"
    /\ env.mode = "http" /\ CanServeHTTP
    /\ process' = "http"
    /\ UNCHANGED << env, stdioVars, httpVars >>

\* log.Fatalf: a mode or an environment it cannot serve in, or a port it
\* cannot listen on.
Fatal ==
    /\ process = "starting"
    /\ env.mode # "stdio"
    /\ process' = "exit 1"
    /\ UNCHANGED << env, stdioVars, httpVars >>

\* ServeStdio returns, with an error or without, or a tool panics.
StdioReturns ==
    /\ process = "stdio"
    /\ state \in Stdio!Stopped
    /\ process' = CASE state = "eof" -> "exit 0"
                    [] state = "panic" -> "exit 2"
                    [] OTHER -> "exit 1"
    /\ UNCHANGED << env, stdioVars, httpVars >>

ServeStdio == process = "stdio" /\ Stdio!Serve /\ UNCHANGED << env, process, httpVars >>
StdioClient == process = "stdio" /\ Stdio!Client /\ UNCHANGED << env, process, httpVars >>
ServeHTTP == process = "http" /\ Http!Next /\ UNCHANGED << env, process, stdioVars >>

Next ==
    \/ StartStdio \/ StartHTTP \/ Fatal \/ StdioReturns
    \/ ServeStdio \/ StdioClient \/ ServeHTTP

\* The server's goroutine is not starved and its output is read; a client may
\* stay silent for ever.
Spec == Init /\ [][Next]_vars /\ WF_vars(StdioReturns) /\ WF_vars(ServeStdio)

-----------------------------------------------------------------------------
(* Properties.                                                             *)

\* What a client on standard input is answered: see StdioServer.
AnsweredInOrder == Stdio!AnsweredInOrder

\* For whom a tool runs and who is charged for it: see HttpServer.  A tool runs
\* uncounted, or for a body over the cap, only where the environment says 0: no
\* malformed or negative value, nor a missing one, switches a limit off.
ChargedToWhomItRunsAs ==
    /\ Http!ChargedToWhomItRunsAs
    /\ \A c \in Conn : pc[c] = "tool" =>
          /\ charged[c] = NoKey <=> env.mcpLimit = 0
          /\ call[c].body = "too big" => env.bodyLimit = 0

\* A client that closes its end is let go: the process ends, and when it ends
\* well everything in the pipe was read and every request answered.
LoopEnds ==
    process = "stdio" /\ closed ~>
        /\ process \in Exited
        /\ process = "exit 0" =>
              /\ input = << >>
              /\ Len(Stdio!Due) = Len(output)
=============================================================================

---------------------------- MODULE StdioServer -----------------------------
(***************************************************************************)
(* Server.ServeStdio: the loop that decodes a request from one pipe,       *)
(* dispatches it and encodes the response to the other, with a client that *)
(* writes requests, and sometimes something that is not one, at any time.  *)
(***************************************************************************)
EXTENDS Dispatch, Selection, SequencesExt

CONSTANTS
    Sent,               \* the messages the client may send
    Malformed,          \* input that does not decode
    MaxSent             \* bound on the client's messages

\* What Main assumes of these constants.
StdioConstants ==
    /\ Sent \subseteq Message
    /\ Malformed \notin Message
    /\ MaxSent \in Nat

VARIABLES
    input,              \* the pipe to the server
    closed,             \* the client has closed it
    output,             \* everything the server wrote
    state,              \* where ServeStdio is, or how it returned
    pending,            \* the response about to be encoded
    decoded             \* history: the requests decoded

vars == << input, closed, output, state, pending, decoded >>

Stopped == {"eof", "parse error", "write error", "panic"}

TypeOK ==
    /\ input \in Seq(Sent \cup {Malformed})
    /\ closed \in BOOLEAN
    /\ output \in Seq(Response)
    /\ state \in {"decode", "encode"} \cup Stopped
    /\ pending = NoResponse <=> state # "encode"
    /\ decoded \in Seq(Sent)

Init ==
    /\ input = << >>
    /\ closed = FALSE
    /\ output = << >>
    /\ state = "decode"
    /\ pending = NoResponse
    /\ decoded = << >>

Send(m) ==
    /\ ~closed
    /\ Len(decoded) + Len(input) < MaxSent
    /\ input' = Append(input, m)
    /\ UNCHANGED << closed, output, state, pending, decoded >>

Close ==
    /\ ~closed
    /\ closed' = TRUE
    /\ UNCHANGED << input, output, state, pending, decoded >>

\* Decode and Dispatch; without a response the loop goes on, and a panic of a
\* tool is the end of the process.
Decode ==
    /\ state = "decode"
    /\ input # << >>
    /\ Head(input) # Malformed
    /\ \E resp \in Responses(Head(input)) :
          /\ pending' = IF resp = Panic THEN NoResponse ELSE resp
          /\ state' = CASE resp = NoResponse -> "decode"
                        [] resp = Panic -> "panic"
                        [] OTHER -> "encode"
    /\ input' = Tail(input)
    /\ decoded' = Append(decoded, Head(input))
    /\ UNCHANGED << closed, output >>

\* A parse error ends the loop, though the comment in the code says that it
\* continues.  It is answered first, or not, if the answer cannot be written.
DecodeError ==
    /\ state = "decode"
    /\ input # << >>
    /\ Head(input) = Malformed
    /\ \/ output' = Append(output, Err(NoId, "parse error"))
       \/ UNCHANGED output
    /\ state' = "parse error"
    /\ input' = Tail(input)
    /\ UNCHANGED << closed, pending, decoded >>

\* Mutant of EndOfInput: the end of the input is read again and again.
EndOfInputRetried ==
    /\ state = "decode" /\ input = << >> /\ closed
    /\ UNCHANGED vars

EndOfInput ==
    /\ state = "decode"
    /\ input = << >>
    /\ closed
    /\ state' = "eof"
    /\ UNCHANGED << input, closed, output, pending, decoded >>

\* Mutant of Encode: the loop forgets which response it has written.
EncodeKeepsPending ==
    /\ state = "encode"
    /\ output' = Append(output, pending)
    /\ state' = "decode"
    /\ UNCHANGED << input, closed, pending, decoded >>

Encode ==
    /\ state = "encode"
    /\ output' = Append(output, pending)
    /\ pending' = NoResponse
    /\ state' = "decode"
    /\ UNCHANGED << input, closed, decoded >>

EncodeError ==
    /\ state = "encode"
    /\ pending' = NoResponse
    /\ state' = "write error"
    /\ UNCHANGED << input, closed, output, decoded >>

Serve == Decode \/ DecodeError \/ EndOfInput \/ Encode \/ EncodeError

Client == Close \/ \E m \in Sent \cup {Malformed} : Send(m)

Next == Serve \/ Client


-----------------------------------------------------------------------------
(* Properties.                                                             *)

Ids(s) == [i \in 1..Len(s) |-> s[i].id]

\* What is owed a response: all that has an id, and every known method, but
\* nothing that has the name of the initialized notification.
Owed(m) == m.method \notin Silent /\ (m.id # NoId \/ m.method # "other")

Due == Kept(decoded, [i \in DOMAIN decoded |-> Owed(decoded[i])])

\* Whatever is owed a response is answered once, under its id, in the order of
\* the requests, and nothing else is answered: no unknown notification, no
\* initialized, with an id or without.  Missing is at most the last answer, while
\* it is being written, if that failed, or if the tool panicked; and what does
\* not decode is answered under no id, after everything before it.
AnsweredInOrder ==
    LET asked == Ids(Due)
        answers == Ids(output)
    IN  \/ answers = asked
        \/ /\ state \in {"encode", "write error", "panic"}
           /\ Due # << >>
           /\ Last(decoded) = Last(Due)
           /\ answers = Front(asked)
        \/ state = "parse error" /\ answers = Append(asked, NoId)
=============================================================================

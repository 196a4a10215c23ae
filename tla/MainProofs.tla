----------------------------- MODULE MainProofs -----------------------------
(***************************************************************************)
(* The safety of the process for every set of messages, calls, users,      *)
(* connections and environments, in either mode: on standard input the     *)
(* answers keep the order of the requests (StdioInv), over HTTP a tool     *)
(* runs only as whom the call was counted for (HttpInv).                   *)
(***************************************************************************)
EXTENDS Main, CollectionLemmas

-----------------------------------------------------------------------------
(* Standard input and output.                                              *)

LEMMA SameKept ==
    ASSUME NEW s, NEW keep
    PROVE  Stdio!Kept(s, keep) = Kept(s, keep)
BY DEF Stdio!Kept, Kept

\* The parts of Dispatch mean the same to the process and to its loop.
LEMMA SameMeaning ==
    /\ Stdio!Message = Message /\ Stdio!Response = Response
    /\ Stdio!Silent = Silent
<1>1. Stdio!Method = Method /\ Stdio!Params = Params
  BY DEF Stdio!Method, Method, Stdio!Params, Params
<1>2. Stdio!Result = Result
  BY <1>1 DEF Stdio!Result, Result
<1> QED
  BY <1>1, <1>2 DEF Stdio!Message, Message, Stdio!Response, Response, Stdio!Silent, Silent

RequestId == ReqId \cup {NoId}

\* Answers and requests agree, but for the answer under way or given up, or the
\* one to what did not decode.
OrderInv ==
    LET asked == Stdio!Ids(Stdio!Due)
        answers == Stdio!Ids(output)
    IN  \/ answers = asked /\ state # "encode"
        \/ /\ state \in {"encode", "write error", "panic"}
           /\ Stdio!Due # << >>
           /\ Last(decoded) = Last(Stdio!Due)
           /\ answers = Front(asked)
           /\ state = "encode" => pending.id = Last(decoded).id
        \/ state = "parse error" /\ answers = Append(asked, NoId)

StdioInv ==
    /\ Stdio!TypeOK
    /\ pending \in Response \cup {NoResponse}
    /\ Stdio!Due \in Seq(Message)
    /\ OrderInv

\* A request is answered under its own id, or not at all if it needs no answer.
LEMMA ResponseKinds ==
    ASSUME NEW m \in Message, NEW r \in Stdio!Responses(m)
    PROVE  \/ r = NoResponse /\ ~Stdio!Owed(m)
           \/ r = Panic /\ Stdio!Owed(m)
           \/ r \in Response /\ r.id = m.id /\ Stdio!Owed(m)
<1>0. /\ m.id \in RequestId /\ m.method \in Method
      /\ m.method = "tools/call" <=> m.params # "none"
  BY DEF Message, RequestId, Stdio!Message
<1>1. \A t \in Result : /\ Stdio!Ok(m.id, t) \in Response /\ Stdio!Ok(m.id, t).id = m.id
                        /\ Stdio!Err(m.id, t) \in Response /\ Stdio!Err(m.id, t).id = m.id
  BY <1>0 DEF Stdio!Ok, Stdio!Err, Response, RequestId
<1>2. m.method \in Result
  BY <1>0 DEF Result
<1>3. CASE m.method \in {"initialize", "ping", "tools/list"}
  BY <1>1, <1>2, <1>3 DEF Stdio!Responses, Stdio!Owed, Stdio!Silent
<1>4. CASE m.method \in Stdio!Silent
  BY <1>4 DEF Stdio!Responses, Stdio!Owed, Stdio!Silent
<1>5. CASE m.method = "tools/call"
  <2>1. r \in Stdio!HandleToolsCall(m) /\ Stdio!Owed(m)
    BY <1>5 DEF Stdio!Responses, Stdio!Silent, Stdio!Owed
  <2>2. \/ r = Panic
        \/ \E t \in Result : r = Stdio!Ok(m.id, t) \/ r = Stdio!Err(m.id, t)
    BY <2>1 DEF Stdio!HandleToolsCall, Result
  <2> QED
    BY <1>1, <2>1, <2>2
<1>6. CASE m.method = "other"
  BY <1>1, <1>6 DEF Stdio!Responses, Stdio!Owed, Stdio!Silent, Result
<1> QED
  BY <1>0, <1>3, <1>4, <1>5, <1>6 DEF Method, Stdio!Silent

\* The ids of a sequence of messages that grows.
LEMMA IdsAppend ==
    ASSUME NEW S, NEW s \in Seq(S), NEW x \in S
    PROVE  Stdio!Ids(Append(s, x)) = Append(Stdio!Ids(s), x.id)
<1>1. /\ Len(s) \in Nat /\ Len(Append(s, x)) = Len(s) + 1
      /\ Append(s, x)[Len(s) + 1] = x
      /\ \A i \in 1..Len(s) : Append(s, x)[i] = s[i]
  BY AppendProperties, LenProperties
<1> DEFINE I == {s[i].id : i \in 1..Len(s)} \cup {x.id}
           ids == Stdio!Ids(s)
<1>2. ids \in Seq(I) /\ Len(ids) = Len(s) /\ \A i \in 1..Len(s) : ids[i] = s[i].id
  <2>1. ids \in [1..Len(s) -> I] /\ \A i \in 1..Len(s) : ids[i] = s[i].id
    BY DEF Stdio!Ids
  <2> HIDE DEF ids, I
  <2> QED
    BY <1>1, <2>1
<1>3. x.id \in I
  OBVIOUS
<1> HIDE DEF I, ids
<1>4. /\ Append(ids, x.id) \in Seq(I) /\ Len(Append(ids, x.id)) = Len(s) + 1
      /\ Append(ids, x.id)[Len(s) + 1] = x.id
      /\ \A i \in 1..Len(s) : Append(ids, x.id)[i] = ids[i]
  BY <1>2, <1>3, AppendProperties
<1>5. Append(ids, x.id) = [i \in 1..Len(s)+1 |-> Append(s, x)[i].id]
  <2>1. \A i \in 1..Len(s)+1 : Append(ids, x.id)[i] = Append(s, x)[i].id
    BY <1>1, <1>2, <1>4
  <2>2. Append(ids, x.id) = [i \in 1..Len(s)+1 |-> Append(ids, x.id)[i]]
    BY <1>4
  <2> QED
    BY <2>1, <2>2
<1> QED
  BY <1>1, <1>5 DEF Stdio!Ids, ids

LEMMA FrontOfIds ==
    ASSUME NEW S, NEW s \in Seq(S), NEW x \in S
    PROVE  /\ Front(Stdio!Ids(Append(s, x))) = Stdio!Ids(s)
           /\ Last(Append(s, x)) = x
           /\ Append(s, x) # << >>
<1>1. /\ Len(s) \in Nat /\ Len(Append(s, x)) = Len(s) + 1
      /\ Append(s, x)[Len(s) + 1] = x
      /\ \A i \in 1..Len(s) : Append(s, x)[i] = s[i]
  BY AppendProperties, LenProperties
<1>2. Last(Append(s, x)) = x /\ Append(s, x) # << >>
  BY <1>1 DEF Last
<1> DEFINE long == Stdio!Ids(Append(s, x))
<1>3. /\ long = [i \in 1..Len(s)+1 |-> Append(s, x)[i].id]
      /\ Stdio!Ids(s) = [i \in 1..Len(s) |-> s[i].id]
  BY <1>1 DEF Stdio!Ids
<1> HIDE DEF long
<1>4. Front(long) = Stdio!Ids(s)
  <2>1. Len(long) = Len(s) + 1
    BY <1>1, <1>3
  <2>2. Front(long) = SubSeq(long, 1, Len(s))
    BY <1>1, <2>1 DEF Front
  <2>3. SubSeq(long, 1, Len(s)) = [i \in 1..Len(s) |-> long[i]]
    BY <1>1, <1>3, <2>1
  <2>4. \A i \in 1..Len(s) : long[i] = s[i].id
    BY <1>1, <1>3
  <2> QED
    BY <1>3, <2>2, <2>3, <2>4
<1> QED
  BY <1>2, <1>4 DEF long

LEMMA FrontThenLastId ==
    ASSUME NEW S, NEW s \in Seq(S), s # << >>
    PROVE  Append(Front(Stdio!Ids(s)), Last(s).id) = Stdio!Ids(s)
<1> DEFINE ids == Stdio!Ids(s)
           n == Len(s)
           I == {s[i].id : i \in 1..n}
<1>1. n \in Nat /\ n >= 1 /\ n \in 1..n
  BY LenProperties, EmptySeq
<1>2. ids = [i \in 1..n |-> s[i].id] /\ ids \in [1..n -> I]
  BY DEF Stdio!Ids
<1> HIDE DEF ids, I
<1>3. ids \in Seq(I) /\ Len(ids) = n /\ Last(s).id = ids[n]
  <2>1. ids \in Seq(I) /\ Len(ids) = n
    BY <1>1, <1>2
  <2>2. Last(s) = s[n]
    BY DEF Last
  <2>3. ids[n] = s[n].id
    BY <1>1, <1>2
  <2> QED
    BY <2>1, <2>2, <2>3
<1> HIDE DEF n
<1>4. Front(ids) = SubSeq(ids, 1, n - 1)
  BY <1>3 DEF Front
<1>5. Append(SubSeq(ids, 1, n - 1), ids[n]) = SubSeq(ids, 1, n)
  BY <1>1, <1>3
<1>6. SubSeq(ids, 1, n) = ids
  BY <1>1, <1>3
<1> QED
  BY <1>3, <1>4, <1>5, <1>6 DEF ids

\* What one more request adds.
LEMMA DueAppend ==
    ASSUME NEW m \in Message, decoded \in Seq(Message), decoded' = Append(decoded, m)
    PROVE  Stdio!Due' = IF Stdio!Owed(m) THEN Append(Stdio!Due, m) ELSE Stdio!Due
<1> DEFINE owed(s) == [i \in DOMAIN s |-> Stdio!Owed(s[i])]
<1>1. /\ Len(decoded) \in Nat /\ DOMAIN decoded = 1..Len(decoded)
      /\ DOMAIN decoded' = 1..Len(decoded)+1 /\ decoded'[Len(decoded) + 1] = m
      /\ \A i \in 1..Len(decoded) : decoded'[i] = decoded[i]
  BY AppendProperties, LenProperties
<1>2. \A i \in 1..Len(decoded) : owed(decoded)[i] <=> owed(decoded')[i]
  BY <1>1
<1>3. owed(decoded')[Len(decoded) + 1] <=> Stdio!Owed(m)
  <2>1. Len(decoded) + 1 \in DOMAIN decoded'
    BY <1>1
  <2>2. owed(decoded')[Len(decoded) + 1] = Stdio!Owed(decoded'[Len(decoded) + 1])
    BY <2>1
  <2> QED
    BY <1>1, <2>2
<1>4. Stdio!Due = Stdio!Kept(decoded, owed(decoded))
  BY DEF Stdio!Due
<1>5. Stdio!Due' = Stdio!Kept(decoded', owed(decoded'))
  BY DEF Stdio!Due, Stdio!Kept, Stdio!Owed, Stdio!Silent
<1> HIDE DEF owed
<1>6. Stdio!Kept(Append(decoded, m), owed(decoded'))
        = IF owed(decoded')[Len(decoded) + 1]
          THEN Append(Stdio!Kept(decoded, owed(decoded)), m)
          ELSE Stdio!Kept(decoded, owed(decoded))
  BY <1>2, KeptAppend, SameKept
<1> QED
  BY <1>3, <1>4, <1>5, <1>6

LEMMA StdioTypes ==
    ASSUME StdioInv
    PROVE  /\ input \in Seq(Sent \cup {Malformed}) /\ closed \in BOOLEAN
           /\ output \in Seq(Response)
           /\ state \in {"decode", "encode"} \cup Stdio!Stopped
           /\ pending = NoResponse <=> state # "encode"
           /\ pending \in Response \cup {NoResponse}
           /\ decoded \in Seq(Sent) /\ decoded \in Seq(Message)
           /\ Stdio!Due \in Seq(Message)
<1>1. Sent \subseteq Message
  BY MainAssumption, SameMeaning DEF Stdio!StdioConstants
<1>2. decoded \in Seq(Sent) => decoded \in Seq(Message)
  BY <1>1
<1> QED
  BY <1>2, SameMeaning DEF StdioInv, Stdio!TypeOK

LEMMA StdioInit == Stdio!Init => StdioInv
<1> SUFFICES ASSUME Stdio!Init PROVE StdioInv
  OBVIOUS
<1>0. /\ input = << >> /\ closed = FALSE /\ pending = NoResponse /\ decoded = << >>
      /\ output = << >> /\ state = "decode"
  BY DEF Stdio!Init
<1>1. Stdio!TypeOK
  <2>1. closed \in BOOLEAN
    BY <1>0
  <2>2. \A S : << >> \in Seq(S)
    BY EmptySeq
  <2> QED
    BY <1>0, <2>1, <2>2 DEF Stdio!TypeOK
<1>2. Stdio!Due = << >>
  BY <1>0, KeptEmpty, SameKept DEF Stdio!Due
<1>3. OrderInv
  BY <1>0, <1>2 DEF OrderInv
<1>4. << >> \in Seq(Message)
  OBVIOUS
<1> QED
  BY <1>0, <1>1, <1>2, <1>3, <1>4 DEF StdioInv

LEMMA StdioDecode ==
    ASSUME StdioInv, Stdio!Decode
    PROVE  StdioInv'
<1> DEFINE m == Head(input)
           asked == Stdio!Ids(Stdio!Due)
           answers == Stdio!Ids(output)
<1>1. /\ input # << >> /\ m # Malformed
      /\ input' = Tail(input) /\ decoded' = Append(decoded, m)
      /\ closed' = closed /\ output' = output /\ state = "decode"
  BY DEF Stdio!Decode
<1>2. PICK r \in Stdio!Responses(m) :
         /\ pending' = IF r = Panic THEN NoResponse ELSE r
         /\ state' = CASE r = NoResponse -> "decode"
                       [] r = Panic -> "panic"
                       [] OTHER -> "encode"
  BY DEF Stdio!Decode
<1>3. m \in Sent /\ m \in Message /\ input' \in Seq(Sent \cup {Malformed})
  <2>1. m \in Sent \cup {Malformed} /\ Tail(input) \in Seq(Sent \cup {Malformed})
    BY <1>1, StdioTypes, HeadTailProperties
  <2> QED
    BY <1>1, <2>1, MainAssumption, SameMeaning DEF Stdio!StdioConstants
<1> HIDE DEF m
<1>4. decoded' \in Seq(Sent) /\ Last(decoded') = m
  <2>1. decoded \in Seq(Sent)
    BY StdioTypes
  <2> QED
    BY <1>1, <1>3, <2>1, AppendProperties, FrontOfIds
<1>5. Stdio!Due' = IF Stdio!Owed(m) THEN Append(Stdio!Due, m) ELSE Stdio!Due
  BY <1>1, <1>3, StdioTypes, DueAppend
<1>6. Stdio!Due' \in Seq(Message)
  BY <1>3, <1>5, StdioTypes, AppendProperties
<1>7. Stdio!Ids(output') = answers
  BY <1>1
<1>8. answers = asked
  <2>1. OrderInv
    BY DEF StdioInv
  <2> QED
    BY <1>1, <2>1 DEF OrderInv
<1>9. ASSUME Stdio!Owed(m)
      PROVE  /\ Stdio!Due' # << >> /\ Last(decoded') = Last(Stdio!Due')
             /\ Stdio!Ids(output') = Front(Stdio!Ids(Stdio!Due'))
  <2>1. Stdio!Due' = Append(Stdio!Due, m)
    BY <1>5, <1>9
  <2>2. /\ Front(Stdio!Ids(Append(Stdio!Due, m))) = asked
        /\ Last(Append(Stdio!Due, m)) = m /\ Append(Stdio!Due, m) # << >>
    BY <1>3, StdioTypes, FrontOfIds
  <2> HIDE DEF asked, answers
  <2>3. Stdio!Ids(output') = asked
    BY <1>7, <1>8
  <2> QED
    BY <1>4, <2>1, <2>2, <2>3
<1>10. ASSUME ~Stdio!Owed(m)
       PROVE  Stdio!Ids(output') = Stdio!Ids(Stdio!Due')
  BY <1>5, <1>7, <1>8, <1>10
<1>11. /\ Stdio!TypeOK' /\ pending' \in Response \cup {NoResponse} /\ OrderInv'
  <2>0. /\ closed' \in BOOLEAN /\ output' \in Seq(Stdio!Response)
    BY <1>1, StdioTypes, SameMeaning
  <2>1. CASE r = NoResponse /\ ~Stdio!Owed(m)
    <3>1. pending' = NoResponse /\ state' = "decode"
      BY <1>2, <2>1, DispatchAssumption
    <3> QED
      BY <1>3, <1>4, <1>10, <2>0, <2>1, <3>1 DEF Stdio!TypeOK, OrderInv
  <2>2. CASE r = Panic /\ Stdio!Owed(m)
    <3>1. pending' = NoResponse /\ state' = "panic"
      BY <1>2, <2>2, DispatchAssumption
    <3> QED
      BY <1>3, <1>4, <1>9, <2>0, <2>2, <3>1 DEF Stdio!TypeOK, Stdio!Stopped, OrderInv
  <2>3. CASE r \in Response /\ r.id = m.id /\ Stdio!Owed(m)
    <3>1. pending' = r /\ state' = "encode" /\ r # NoResponse
      BY <1>2, <2>3, DispatchAssumption
    <3> QED
      BY <1>3, <1>4, <1>9, <2>0, <2>3, <3>1 DEF Stdio!TypeOK, OrderInv
  <2> QED
    BY <1>3, <2>1, <2>2, <2>3, ResponseKinds
<1> QED
  BY <1>6, <1>11 DEF StdioInv

\* The steps that do not decode leave what is owed.
LEMMA SameDue ==
    ASSUME decoded' = decoded
    PROVE  Stdio!Due' = Stdio!Due
BY DEF Stdio!Due, Stdio!Kept, Stdio!Owed, Stdio!Silent

LEMMA StdioEncode ==
    ASSUME StdioInv, Stdio!Encode
    PROVE  StdioInv'
<1>1. /\ state = "encode" /\ output' = Append(output, pending) /\ pending' = NoResponse
      /\ state' = "decode" /\ input' = input /\ closed' = closed /\ decoded' = decoded
  BY DEF Stdio!Encode
<1>2. /\ pending \in Response /\ output \in Seq(Response) /\ Stdio!Due \in Seq(Message)
  BY <1>1, StdioTypes
<1>3. Stdio!Due' = Stdio!Due
  BY <1>1, SameDue
<1>4. output' \in Seq(Response)
  BY <1>1, <1>2, AppendProperties
<1>5. Stdio!TypeOK'
  <2>1. /\ input \in Seq(Sent \cup {Malformed}) /\ closed \in BOOLEAN
        /\ decoded \in Seq(Sent)
    BY StdioTypes
  <2> QED
    BY <1>1, <1>4, <2>1, SameMeaning DEF Stdio!TypeOK
<1>6. Stdio!Ids(output') = Stdio!Ids(Stdio!Due)
  <2>1. /\ Stdio!Due # << >> /\ Last(decoded) = Last(Stdio!Due)
        /\ Stdio!Ids(output) = Front(Stdio!Ids(Stdio!Due))
        /\ pending.id = Last(decoded).id
    BY <1>1 DEF StdioInv, OrderInv
  <2>2. Stdio!Ids(Append(output, pending)) = Append(Stdio!Ids(output), pending.id)
    BY <1>2, IdsAppend
  <2>3. Append(Front(Stdio!Ids(Stdio!Due)), Last(Stdio!Due).id) = Stdio!Ids(Stdio!Due)
    BY <1>2, <2>1, FrontThenLastId
  <2> QED
    BY <1>1, <2>1, <2>2, <2>3
<1>7. OrderInv'
  BY <1>1, <1>3, <1>6 DEF OrderInv
<1> QED
  BY <1>1, <1>2, <1>3, <1>5, <1>7 DEF StdioInv

LEMMA StdioNext ==
    ASSUME StdioInv, Stdio!Serve \/ Stdio!Client
    PROVE  StdioInv'
<1>0. /\ input \in Seq(Sent \cup {Malformed}) /\ closed \in BOOLEAN
      /\ output \in Seq(Response) /\ decoded \in Seq(Sent)
      /\ state \in {"decode", "encode"} \cup Stdio!Stopped
      /\ pending = NoResponse <=> state # "encode"
      /\ pending \in Response \cup {NoResponse}
      /\ Stdio!Due \in Seq(Message)
      /\ OrderInv
  BY StdioTypes DEF StdioInv
<1>1. CASE Stdio!DecodeError
  <2> DEFINE e == Stdio!Err(NoId, "parse error")
  <2>1. /\ output' = Append(output, e) \/ output' = output
        /\ state = "decode" /\ state' = "parse error" /\ input' = Tail(input) /\ input # << >>
        /\ closed' = closed /\ pending' = pending /\ decoded' = decoded
    BY <1>1 DEF Stdio!DecodeError
  <2>2. e \in Response /\ e.id = NoId
    BY DEF Stdio!Err, Response, Result
  <2> HIDE DEF e
  <2>3. output' \in Seq(Response)
    <3>1. output \in Seq(Response) /\ Append(output, e) \in Seq(Response)
      BY <1>0, <2>2, AppendProperties
    <3> QED
      BY <2>1, <3>1
  <2>4. \/ Stdio!Ids(output') = Append(Stdio!Ids(output), NoId)
        \/ Stdio!Ids(output') = Stdio!Ids(output)
    BY <1>0, <2>1, <2>2, IdsAppend
  <2>5. Stdio!Due' = Stdio!Due /\ Stdio!Ids(output) = Stdio!Ids(Stdio!Due)
    BY <1>0, <2>1, SameDue DEF OrderInv
  <2>6. input' \in Seq(Sent \cup {Malformed})
    BY <1>0, <2>1, HeadTailProperties
  <2>7. Stdio!TypeOK'
    BY <1>0, <2>1, <2>3, <2>6, SameMeaning DEF Stdio!TypeOK, Stdio!Stopped
  <2>8. OrderInv'
    BY <2>1, <2>4, <2>5 DEF OrderInv
  <2> QED
    BY <1>0, <2>1, <2>5, <2>7, <2>8 DEF StdioInv
<1>2. CASE Stdio!EndOfInput \/ Stdio!EncodeError \/ Stdio!Close
           \/ \E m \in Sent \cup {Malformed} : Stdio!Send(m)
  <2>1. /\ decoded' = decoded /\ output' = output /\ closed' \in BOOLEAN
        /\ input' = input \/ \E m \in Sent \cup {Malformed} : input' = Append(input, m)
        /\ \/ state' = state /\ pending' = pending
           \/ state = "decode" /\ state' = "eof" /\ pending' = pending
           \/ state = "encode" /\ state' = "write error" /\ pending' = NoResponse
    BY <1>0, <1>2 DEF Stdio!EndOfInput, Stdio!EncodeError, Stdio!Close, Stdio!Send
  <2>2. Stdio!Due' = Stdio!Due
    BY <2>1, SameDue
  <2>3. input' \in Seq(Sent \cup {Malformed})
    <3>1. \A m \in Sent \cup {Malformed} : Append(input, m) \in Seq(Sent \cup {Malformed})
      BY <1>0, AppendProperties
    <3> QED
      BY <1>0, <2>1, <3>1
  <2>4. Stdio!TypeOK' /\ pending' \in Response \cup {NoResponse}
    BY <1>0, <2>1, <2>3, SameMeaning DEF Stdio!TypeOK, Stdio!Stopped
  <2>5. OrderInv'
    BY <1>0, <2>1, <2>2 DEF OrderInv
  <2> QED
    BY <1>0, <2>2, <2>4, <2>5 DEF StdioInv
<1> QED
  BY <1>1, <1>2, StdioDecode, StdioEncode DEF Stdio!Serve, Stdio!Client

-----------------------------------------------------------------------------
(* HTTP.                                                                   *)

MCPLimited == cfg.MCPRateLimitPerMin > 0

\* How far a call has come says whom it was counted for and whom it runs as ...
Counted(stage, q, as, key) ==
    /\ stage \in {"idle", "body", "rate"} => key = NoKey
    /\ stage \in {"idle", "body", "rate", "bearer", "identity"} => as = Anon
    /\ stage = "rate" => MCPLimited
    /\ stage \in {"bearer", "identity", "serve", "tool"} =>
          key = IF MCPLimited THEN Http!KeyFn(q) ELSE NoKey
    /\ stage \in {"identity", "serve", "tool"} => q.bearer
    /\ stage \in {"serve", "tool"} =>
          q.header = IF as = Anon THEN NoHeader ELSE as

\* ... whom it was counted for if it is refused ...
Refused(stage, q, key) ==
    /\ stage \in {"download rate", "413", "429"} => key = NoKey
    /\ stage \in {"download rate", "download"} => q.path = "/download"
    /\ stage = "401" /\ q.path = "/mcp" /\ MCPLimited =>
          key = Http!KeyFn(q)

\* ... and how big it is.
Fits(stage, q) ==
    stage \in {"rate", "bearer", "identity", "serve", "tool"} /\ q.body = "too big" =>
        ~cfg.BodyLimit

CallOK(stage, q, as, key) ==
    Counted(stage, q, as, key) /\ Refused(stage, q, key) /\ Fits(stage, q)

CallInv(c) == CallOK(pc[c], call[c], runsAs[c], charged[c])

HttpInv ==
    /\ Http!TypeOK
    /\ \A c \in Conn : CallInv(c)

Key == User \cup Address

LEMMA HttpAssumption ==
    /\ \A q \in Offered : /\ q.path \in Http!Path
                          /\ q.header \in User \cup {NoHeader, BadHeader}
                          /\ q.ip \in Address
                          /\ Http!KeyFn(q) \in Key
    /\ NoCall \notin Offered /\ Anon \notin User
    /\ NoHeader \notin User /\ BadHeader \notin User
    /\ NoKey \notin Key
<1>1. /\ Offered \subseteq Http!Call /\ NoCall \notin Http!Call
      /\ User \cap {Anon, NoHeader, BadHeader} = {} /\ NoKey \notin User \cup Address
  BY MainAssumption DEF Http!HttpConstants
<1>2. \A q \in Offered : /\ q.path \in Http!Path
                         /\ q.header \in User \cup {NoHeader, BadHeader}
                         /\ q.ip \in Address
  BY <1>1 DEF Http!Call
<1> QED
  BY <1>1, <1>2 DEF Http!KeyFn, Key

\* Whatever the environment holds, the configuration is a number or its default.
LEMMA ConfigType ==
    ASSUME env \in Env
    PROVE  /\ cfg \in Http!HTTPConfig
           /\ cfg.MCPRateLimitPerMin \in Limits \cap Nat
           /\ cfg.DownloadRateLimitPerMin \in Limits \cap Nat
<1>1. /\ DefaultMCPLimit \in Nat /\ DefaultDownloadLimit \in Nat
      /\ env.mcpLimit \in Int \cup {Unset, NotANumber}
      /\ env.downloadLimit \in Int \cup {Unset, NotANumber}
  BY MainAssumption
<1>2. ASSUME NEW raw \in Int \cup {Unset, NotANumber}, NEW def \in Nat
      PROVE  EnvInt64(raw, def) \in {raw, def} \cap Nat
  BY DEF EnvInt64
<1>3. /\ EnvInt64(env.mcpLimit, DefaultMCPLimit) \in Limits \cap Nat
      /\ EnvInt64(env.downloadLimit, DefaultDownloadLimit) \in Limits \cap Nat
  <2>1. /\ EnvInt64(env.mcpLimit, DefaultMCPLimit) \in {env.mcpLimit, DefaultMCPLimit} \cap Nat
        /\ EnvInt64(env.downloadLimit, DefaultDownloadLimit)
             \in {env.downloadLimit, DefaultDownloadLimit} \cap Nat
    BY <1>1, <1>2
  <2>2. {env.mcpLimit, DefaultMCPLimit, env.downloadLimit, DefaultDownloadLimit} \subseteq Limits
    BY DEF Limits
  <2> QED
    BY <2>1, <2>2
<1> QED
  BY <1>3 DEF cfg, Http!HTTPConfig

LEMMA HttpInit ==
    ASSUME Http!Init, env \in Env
    PROVE  HttpInv
<1>1. /\ spent = [k \in Key |-> 0] /\ pc = [c \in Conn |-> "idle"]
      /\ call = [c \in Conn |-> NoCall] /\ runsAs = [c \in Conn |-> Anon]
      /\ charged = [c \in Conn |-> NoKey]
  BY DEF Http!Init, Http!Key, Key
<1>2. Http!TypeOK
  <2>1. \A k \in Key : spent[k] \in 0..0
    BY <1>1
  <2>2. \A k \in Key : \E n \in (Limits \cap Nat) \cup {0} : spent[k] \in 0..n
    BY <2>1
  <2> QED
    BY <1>1, <2>2, ConfigType DEF Http!TypeOK, Http!Key, Key
<1>3. ASSUME NEW c \in Conn PROVE CallInv(c)
  BY <1>1 DEF CallInv, CallOK, Counted, Refused, Fits
<1> QED
  BY <1>2, <1>3 DEF HttpInv

StageOf == {"idle"} \cup Http!Stage \cup Http!Status

SpentOK ==
    /\ DOMAIN spent = Key
    /\ \A k \in Key : \E n \in (Limits \cap Nat) \cup {0} : spent[k] \in 0..n

LEMMA HttpTypes ==
    ASSUME HttpInv
    PROVE  /\ cfg \in Http!HTTPConfig /\ SpentOK
           /\ pc \in [Conn -> StageOf] /\ call \in [Conn -> Offered \cup {NoCall}]
           /\ runsAs \in [Conn -> User \cup {Anon}] /\ charged \in [Conn -> Key \cup {NoKey}]
           /\ \A c \in Conn : pc[c] = "idle" <=> call[c] = NoCall
           /\ \A c \in Conn : CallOK(pc[c], call[c], runsAs[c], charged[c])
BY DEF HttpInv, Http!TypeOK, StageOf, SpentOK, Http!Key, Key, CallInv

\* A step of one connection keeps the invariant if what it makes of its own
\* call does.
LEMMA HttpMove ==
    ASSUME HttpInv, env' = env, NEW c \in Conn,
           NEW l \in StageOf, NEW q \in Offered \cup {NoCall},
           NEW w \in User \cup {Anon}, NEW k \in Key \cup {NoKey},
           l = "idle" <=> q = NoCall,
           pc' = [pc EXCEPT ![c] = l], call' = [call EXCEPT ![c] = q],
           runsAs' = [runsAs EXCEPT ![c] = w], charged' = [charged EXCEPT ![c] = k],
           SpentOK', CallOK(l, q, w, k)
    PROVE  HttpInv'
<1>1. cfg' = cfg
  BY DEF cfg, EnvInt64
<1>2. Http!TypeOK'
  <2>1. /\ pc' \in [Conn -> StageOf] /\ call' \in [Conn -> Offered \cup {NoCall}]
        /\ runsAs' \in [Conn -> User \cup {Anon}]
        /\ charged' \in [Conn -> Key \cup {NoKey}]
        /\ \A d \in Conn : pc'[d] = "idle" <=> call'[d] = NoCall
    BY HttpTypes
  <2>2. cfg' \in Http!HTTPConfig
    BY <1>1, HttpTypes
  <2> QED
    BY <2>1, <2>2 DEF Http!TypeOK, StageOf, SpentOK, Http!Key, Key, Http!HTTPConfig,
       Http!Stage, Http!Status
<1>3. ASSUME NEW d \in Conn
      PROVE  CallOK(pc'[d], call'[d], runsAs'[d], charged'[d])
  BY HttpTypes
<1>4. ASSUME NEW d \in Conn
      PROVE  CallInv(d)'
  <2>1. MCPLimited' <=> MCPLimited
    BY <1>1 DEF MCPLimited
  <2>2. Counted(pc[d], call[d], runsAs[d], charged[d])'
    <3>1. Counted(pc'[d], call'[d], runsAs'[d], charged'[d])
      BY <1>3 DEF CallOK
    <3> QED
      BY <2>1, <3>1 DEF Counted, Http!KeyFn
  <2>3. Refused(pc[d], call[d], charged[d])'
    <3>1. Refused(pc'[d], call'[d], charged'[d])
      BY <1>3 DEF CallOK
    <3> QED
      BY <2>1, <3>1 DEF Refused, Http!KeyFn
  <2>4. Fits(pc[d], call[d])'
    <3>1. Fits(pc'[d], call'[d])
      BY <1>3 DEF CallOK
    <3> QED
      BY <1>1, <3>1 DEF Fits
  <2> QED
    BY <2>2, <2>3, <2>4 DEF CallInv, CallOK
<1> QED
  BY <1>2, <1>4 DEF HttpInv

\* The same for a step that leaves the call and the counters alone.
LEMMA HttpGoto ==
    ASSUME HttpInv, env' = env, NEW c \in Conn,
           NEW l \in StageOf \ {"idle"}, pc[c] # "idle",
           pc' = [pc EXCEPT ![c] = l], call' = call, spent' = spent,
           runsAs' = runsAs, charged' = charged,
           CallOK(l, call[c], runsAs[c], charged[c])
    PROVE  HttpInv'
<1>1. /\ call' = [call EXCEPT ![c] = call[c]]
      /\ runsAs' = [runsAs EXCEPT ![c] = runsAs[c]]
      /\ charged' = [charged EXCEPT ![c] = charged[c]]
      /\ call[c] \in Offered \cup {NoCall} /\ call[c] # NoCall
      /\ runsAs[c] \in User \cup {Anon} /\ charged[c] \in Key \cup {NoKey}
  BY HttpTypes
<1>2. SpentOK'
  BY HttpTypes DEF SpentOK, Key, Limits
<1>3. l \in StageOf /\ (l = "idle" <=> call[c] = NoCall)
  BY <1>1
<1>4. /\ HttpInv /\ env' = env /\ pc' = [pc EXCEPT ![c] = l]
      /\ CallOK(l, call[c], runsAs[c], charged[c])
  OBVIOUS
<1> QED
  BY ONLY <1>1, <1>2, <1>3, <1>4, c \in Conn, HttpMove

\* Counting a call: a key below the limit gets the call, one above is cut back.
LEMMA HttpRate ==
    ASSUME HttpInv, env \in Env, env' = env, NEW c \in Conn,
           NEW limit \in Limits \cap Nat,
           NEW stage \in StageOf \ {"idle"}, NEW next \in StageOf \ {"idle"},
           Http!WithRateLimit(c, stage, limit, next), charged[c] = NoKey,
           CallOK(next, call[c], runsAs[c], Http!KeyFn(call[c]))
    PROVE  HttpInv'
<1> DEFINE k == Http!KeyFn(call[c])
<1>1. /\ pc[c] = stage /\ call' = call /\ runsAs' = runsAs /\ Http!Allow(k, limit, c)
      /\ pc' = [pc EXCEPT ![c] = IF spent[k] < limit THEN next ELSE "429"]
  BY DEF Http!WithRateLimit, Http!Goto
<1>2. call[c] \in Offered /\ k \in Key
  BY <1>1, HttpTypes, HttpAssumption
<1>3. /\ call' = [call EXCEPT ![c] = call[c]] /\ runsAs' = [runsAs EXCEPT ![c] = runsAs[c]]
      /\ runsAs[c] \in User \cup {Anon} /\ charged[c] \in Key \cup {NoKey}
      /\ call[c] # NoCall
  BY <1>1, <1>2, HttpTypes, HttpAssumption
<1>4. SpentOK /\ spent[k] \in Nat
  <2>1. SpentOK
    BY HttpTypes
  <2> QED
    BY <1>2, <2>1 DEF SpentOK
<1> HIDE DEF k
<1>5. CASE spent[k] < limit
  <2>1. /\ spent' = [spent EXCEPT ![k] = @ + 1] /\ charged' = [charged EXCEPT ![c] = k]
        /\ pc' = [pc EXCEPT ![c] = next]
    BY <1>1, <1>5 DEF Http!Allow
  <2>2. SpentOK'
    <3>1. spent'[k] \in 0..limit /\ \A j \in Key : j # k => spent'[j] = spent[j]
      BY <1>2, <1>4, <1>5, <2>1 DEF SpentOK
    <3>2. DOMAIN spent' = Key
      BY <1>4, <2>1 DEF SpentOK
    <3>3. \A j \in Key : \E n \in (Limits \cap Nat) \cup {0} : spent'[j] \in 0..n
      BY <1>4, <3>1 DEF SpentOK
    <3> QED
      BY <3>2, <3>3 DEF SpentOK, Key, Limits
  <2>3. CallOK(next, call[c], runsAs[c], k)
    BY DEF k
  <2> QED
    BY <1>2, <1>3, <2>1, <2>2, <2>3, HttpMove
<1>6. CASE ~(spent[k] < limit)
  <2>1. /\ spent' = [spent EXCEPT ![k] = limit] /\ charged' = charged
        /\ pc' = [pc EXCEPT ![c] = "429"]
    BY <1>1, <1>6 DEF Http!Allow
  <2>2. SpentOK'
    <3>1. spent'[k] \in 0..limit /\ \A j \in Key : j # k => spent'[j] = spent[j]
      BY <1>2, <1>4, <2>1 DEF SpentOK
    <3>2. DOMAIN spent' = Key
      BY <1>4, <2>1 DEF SpentOK
    <3>3. \A j \in Key : \E n \in (Limits \cap Nat) \cup {0} : spent'[j] \in 0..n
      BY <1>4, <3>1 DEF SpentOK
    <3> QED
      BY <3>2, <3>3 DEF SpentOK, Key, Limits
  <2>3. charged' = [charged EXCEPT ![c] = charged[c]]
    BY <2>1, HttpTypes
  <2>4. CallOK("429", call[c], runsAs[c], charged[c]) /\ "429" \in StageOf
    BY DEF CallOK, Counted, Refused, Fits, StageOf, Http!Status
  <2> QED
    BY <1>2, <1>3, <2>1, <2>2, <2>3, <2>4, HttpMove
<1> QED
  BY <1>5, <1>6

LEMMA HttpServe ==
    ASSUME HttpInv, env \in Env, env' = env, NEW c \in Conn, Http!Serve(c)
    PROVE  HttpInv'
<1>0. /\ \A q \in Offered : q.header \in User \cup {NoHeader, BadHeader}
      /\ CallOK(pc[c], call[c], runsAs[c], charged[c])
      /\ pc[c] # "idle" => call[c] \in Offered
      /\ cfg.MCPRateLimitPerMin \in Limits \cap Nat
      /\ cfg.DownloadRateLimitPerMin \in Limits \cap Nat
  BY HttpTypes, HttpAssumption, ConfigType
<1>s. {"rate", "bearer", "identity", "serve", "tool", "download rate", "download"} \cup Http!Status
        \subseteq StageOf \ {"idle"}
  BY DEF StageOf, Http!Stage, Http!Status
<1>e. \A l \in Http!Status \ {"401", "413", "429"} :
         CallOK(l, call[c], runsAs[c], charged[c])
  BY DEF CallOK, Counted, Refused, Fits, Http!Status
<1>1. CASE Http!WithBodyLimit(c)
  <2> DEFINE l == IF call[c].body = "too big" THEN "413"
                  ELSE IF call[c].body = "broken" THEN "400"
                  ELSE IF cfg.MCPRateLimitPerMin > 0 THEN "rate" ELSE "bearer"
  <2>0. /\ pc' = [pc EXCEPT ![c] = l] /\ pc[c] = "body"
        /\ spent' = spent /\ call' = call /\ runsAs' = runsAs /\ charged' = charged
    BY <1>1 DEF Http!WithBodyLimit, Http!Goto
  <2>1. /\ l \in {"413", "400", "rate", "bearer"}
        /\ l \in {"rate", "bearer"} => call[c].body # "too big"
        /\ l = "rate" => MCPLimited
        /\ l = "bearer" => ~MCPLimited
    BY DEF MCPLimited
  <2> HIDE DEF l
  <2>2. CallOK(l, call[c], runsAs[c], charged[c])
    BY <1>0, <2>0, <2>1 DEF CallOK, Counted, Refused, Fits
  <2>3. l \in StageOf \ {"idle"}
    BY <1>s, <2>1 DEF Http!Status
  <2> QED
    BY <2>0, <2>2, <2>3, HttpGoto
<1>2. CASE Http!WithRateLimit(c, "rate", cfg.MCPRateLimitPerMin, "bearer")
  <2>1. pc[c] = "rate"
    BY <1>2 DEF Http!WithRateLimit
  <2>2. CallOK("bearer", call[c], runsAs[c], Http!KeyFn(call[c])) /\ charged[c] = NoKey
    BY <1>0, <2>1 DEF CallOK, Counted, Refused, Fits
  <2> QED
    BY <1>0, <1>2, <1>s, <2>2, HttpRate
<1>3. CASE Http!BearerMiddleware(c)
  <2>1. PICK l \in {"identity", "401"} :
           /\ pc' = [pc EXCEPT ![c] = l] /\ pc[c] = "bearer"
           /\ l = "identity" => call[c].bearer
           /\ spent' = spent /\ call' = call /\ runsAs' = runsAs /\ charged' = charged
    BY <1>3 DEF Http!BearerMiddleware, Http!Goto
  <2>2. CallOK(l, call[c], runsAs[c], charged[c])
    BY <1>0, <2>1 DEF CallOK, Counted, Refused, Fits
  <2>3. l \in StageOf \ {"idle"}
    BY <1>s DEF Http!Status
  <2> QED
    BY <2>1, <2>2, <2>3, HttpGoto
<1>4. CASE Http!UserContextMiddleware(c)
  <2> DEFINE h == call[c].header
  <2>1. /\ pc[c] = "identity" /\ h \in User \cup {NoHeader, BadHeader}
        /\ spent' = spent /\ call' = call /\ charged' = charged
    BY <1>0, <1>4 DEF Http!UserContextMiddleware
  <2>2. CASE h = BadHeader
    <3>1. pc' = [pc EXCEPT ![c] = "400"] /\ runsAs' = runsAs
      BY <1>4, <2>2 DEF Http!UserContextMiddleware, Http!Goto
    <3>2. "400" \in Http!Status
      BY DEF Http!Status
    <3> QED
      BY <1>s, <1>e, <2>1, <3>1, <3>2, HttpGoto
  <2>3. CASE h # BadHeader
    <3> DEFINE w == IF h = NoHeader THEN Anon ELSE h
    <3>1. pc' = [pc EXCEPT ![c] = "serve"] /\ runsAs' = [runsAs EXCEPT ![c] = w]
      BY <1>4, <2>3 DEF Http!UserContextMiddleware, Http!Goto
    <3>2. w \in User \cup {Anon} /\ h = IF w = Anon THEN NoHeader ELSE w
      BY <2>1, <2>3, HttpAssumption
    <3> HIDE DEF w
    <3>3. CallOK("serve", call[c], w, charged[c])
      BY <1>0, <2>1, <3>2 DEF CallOK, Counted, Refused, Fits
    <3>4. /\ call' = [call EXCEPT ![c] = call[c]] /\ call[c] \in Offered \cup {NoCall}
          /\ charged' = [charged EXCEPT ![c] = charged[c]]
          /\ charged[c] \in Key \cup {NoKey} /\ call[c] # NoCall
      BY <2>1, HttpTypes
    <3>5. SpentOK'
      BY <2>1, HttpTypes DEF SpentOK, Key, Limits
    <3>6. "serve" \in StageOf /\ "serve" # "idle"
      BY <1>s
    <3> QED
      BY <3>1, <3>2, <3>3, <3>4, <3>5, <3>6, HttpMove
  <2> QED
    BY <2>2, <2>3
<1>5. CASE Http!ServeMCP(c)
  <2> DEFINE l == IF call[c].method # "POST" THEN "405"
                  ELSE IF call[c].body \in {"broken", "not json"} THEN "400" ELSE "tool"
  <2>0. /\ pc' = [pc EXCEPT ![c] = l] /\ pc[c] = "serve"
        /\ spent' = spent /\ call' = call /\ runsAs' = runsAs /\ charged' = charged
    BY <1>5 DEF Http!ServeMCP, Http!Goto
  <2>1. l \in {"405", "400", "tool"}
    OBVIOUS
  <2> HIDE DEF l
  <2>2. CallOK(l, call[c], runsAs[c], charged[c])
    BY <1>0, <2>0, <2>1 DEF CallOK, Counted, Refused, Fits
  <2>3. l \in StageOf \ {"idle"}
    BY <1>s, <2>1 DEF Http!Status
  <2> QED
    BY <2>0, <2>2, <2>3, HttpGoto
<1>6. CASE Http!Respond(c) \/ Http!ServeDownload(c)
  <2>1. PICK l \in {"200", "400", "401", "404", "405", "410", "aborted"} :
           /\ pc' = [pc EXCEPT ![c] = l] /\ pc[c] # "idle"
           /\ l = "401" => pc[c] = "download"
           /\ spent' = spent /\ call' = call /\ runsAs' = runsAs /\ charged' = charged
    BY <1>6 DEF Http!Respond, Http!ServeDownload, Http!Goto
  <2>2. l \in Http!Status
    BY DEF Http!Status
  <2>3. CallOK(l, call[c], runsAs[c], charged[c])
    BY <1>0, <2>1 DEF CallOK, Counted, Refused, Fits
  <2> QED
    BY <1>s, <2>1, <2>2, <2>3, HttpGoto
<1>7. CASE Http!WithRateLimit(c, "download rate", cfg.DownloadRateLimitPerMin, "download")
  <2>1. pc[c] = "download rate"
    BY <1>7 DEF Http!WithRateLimit
  <2>2. CallOK("download", call[c], runsAs[c], Http!KeyFn(call[c])) /\ charged[c] = NoKey
    BY <1>0, <2>1 DEF CallOK, Counted, Refused, Fits
  <2> QED
    BY <1>0, <1>7, <1>s, <2>2, HttpRate
<1>8. CASE Http!Close(c)
  <2>1. /\ pc' = [pc EXCEPT ![c] = "idle"] /\ call' = [call EXCEPT ![c] = NoCall]
        /\ runsAs' = [runsAs EXCEPT ![c] = Anon] /\ spent' = spent
        /\ charged' = [charged EXCEPT ![c] = NoKey]
    BY <1>8 DEF Http!Close, Http!Goto
  <2>2. CallOK("idle", NoCall, Anon, NoKey) /\ "idle" \in StageOf
    BY DEF CallOK, Counted, Refused, Fits, StageOf
  <2>3. SpentOK'
    BY <2>1, HttpTypes DEF SpentOK, Key, Limits
  <2> QED
    BY <2>1, <2>2, <2>3, HttpMove
<1> QED
  BY <1>1, <1>2, <1>3, <1>4, <1>5, <1>6, <1>7, <1>8 DEF Http!Serve

LEMMA HttpNext ==
    ASSUME HttpInv, env \in Env, env' = env, Http!Next
    PROVE  HttpInv'
<1>1. ASSUME NEW c \in Conn, NEW q \in Offered, Http!Arrive(c, q)
      PROVE  HttpInv'
  <2>1. /\ pc[c] = "idle" /\ pc' = [pc EXCEPT ![c] = Http!Handler(q)]
        /\ call' = [call EXCEPT ![c] = q]
        /\ spent' = spent /\ runsAs' = runsAs /\ charged' = charged
    BY <1>1 DEF Http!Arrive, Http!Goto
  <2>2. /\ runsAs[c] = Anon /\ charged[c] = NoKey
        /\ runsAs' = [runsAs EXCEPT ![c] = Anon]
        /\ charged' = [charged EXCEPT ![c] = NoKey]
    <3>1. runsAs[c] = Anon /\ charged[c] = NoKey
      BY <2>1, HttpTypes DEF CallOK, Counted, Refused, Fits
    <3> QED
      BY <2>1, <3>1, HttpTypes
  <2>3. PICK l \in {"body", "rate", "bearer", "download rate", "download", "200", "404"} :
           /\ l = Http!Handler(q)
           /\ l \in {"rate", "bearer"} => ~cfg.BodyLimit
           /\ l \in {"download rate", "download"} => q.path = "/download"
           /\ l = "rate" => MCPLimited
           /\ l = "bearer" => ~MCPLimited
    BY HttpAssumption DEF Http!Handler, Http!Path, MCPLimited
  <2>4. CallOK(l, q, Anon, NoKey)
    BY <2>3 DEF CallOK, Counted, Refused, Fits
  <2>5. l \in StageOf /\ l # "idle" /\ q # NoCall
    BY HttpAssumption DEF StageOf, Http!Stage, Http!Status
  <2>6. SpentOK'
    BY <2>1, HttpTypes DEF SpentOK, Key, Limits
  <2>7. /\ HttpInv /\ env' = env
        /\ pc' = [pc EXCEPT ![c] = l] /\ call' = [call EXCEPT ![c] = q]
        /\ q \in Offered \cup {NoCall} /\ (l = "idle" <=> q = NoCall)
        /\ Anon \in User \cup {Anon} /\ NoKey \in Key \cup {NoKey}
    BY <2>1, <2>3, <2>5
  <2> QED
    BY ONLY <2>2, <2>4, <2>5, <2>6, <2>7, c \in Conn, HttpMove
<1>2. ASSUME NEW k \in Key, Http!Slide(k)
      PROVE  HttpInv'
  <2>1. /\ spent[k] > 0 /\ spent' = [spent EXCEPT ![k] = @ - 1]
        /\ pc' = pc /\ call' = call /\ runsAs' = runsAs /\ charged' = charged
    BY <1>2 DEF Http!Slide
  <2>2. SpentOK'
    <3>1. SpentOK
      BY HttpTypes
    <3>2. DOMAIN spent' = Key /\ \A j \in Key : j # k => spent'[j] = spent[j]
      BY <2>1, <3>1 DEF SpentOK
    <3>3. PICK n \in (Limits \cap Nat) \cup {0} : spent[k] \in 0..n
      BY <3>1 DEF SpentOK
    <3>4. spent'[k] \in 0..n
      BY <2>1, <3>1, <3>3 DEF SpentOK
    <3>5. \A j \in Key : \E m \in (Limits \cap Nat) \cup {0} : spent'[j] \in 0..m
      BY <3>1, <3>2, <3>4 DEF SpentOK
    <3> QED
      BY <3>2, <3>5 DEF SpentOK, Key, Limits
  <2>3. cfg' = cfg
    BY DEF cfg, EnvInt64
  <2>4. Http!TypeOK'
    BY <2>1, <2>2, <2>3, HttpTypes DEF HttpInv, Http!TypeOK, SpentOK, Http!Key, Key,
       Http!HTTPConfig, Limits, Http!Stage, Http!Status
  <2>5. \A c \in Conn : CallInv(c)'
    BY <2>1, <2>3 DEF HttpInv, CallInv, CallOK, Counted, Refused, Fits, MCPLimited,
       Http!KeyFn
  <2> QED
    BY <2>4, <2>5 DEF HttpInv
<1> QED
  BY <1>1, <1>2, HttpServe DEF Http!Next, Http!Key, Key

-----------------------------------------------------------------------------
(* The process.                                                            *)

MainInv ==
    /\ env \in Env
    /\ process \in {"starting", "stdio", "http"} \cup Exited
    /\ process # "stdio" => state \in {"decode"} \cup Stdio!Stopped
    /\ StdioInv
    /\ HttpInv

LEMMA MainInit == Init => MainInv
<1> SUFFICES ASSUME Init PROVE MainInv
  OBVIOUS
<1>1. state = "decode"
  BY DEF Init, Stdio!Init
<1> QED
  BY <1>1, StdioInit, HttpInit DEF Init, MainInv

LEMMA MainNext ==
    ASSUME MainInv, [Next]_vars
    PROVE  MainInv'
<1>0. env \in Env /\ StdioInv /\ HttpInv
  BY DEF MainInv
<1>1. ASSUME UNCHANGED stdioVars
      PROVE  StdioInv' /\ state' = state
  <2>1. /\ input' = input /\ closed' = closed /\ output' = output /\ state' = state
        /\ pending' = pending /\ decoded' = decoded
    BY <1>1 DEF stdioVars
  <2>2. Stdio!Due' = Stdio!Due
    BY <2>1, SameDue
  <2>3. Stdio!TypeOK' /\ OrderInv'
    BY <1>0, <2>1, <2>2 DEF StdioInv, Stdio!TypeOK, OrderInv, Stdio!Stopped, Stdio!Ids
  <2> QED
    BY <1>0, <2>1, <2>2, <2>3 DEF StdioInv
<1>2. ASSUME UNCHANGED httpVars, env' = env
      PROVE  HttpInv'
  <2>1. /\ spent' = spent /\ pc' = pc /\ call' = call /\ runsAs' = runsAs
        /\ charged' = charged /\ cfg' = cfg
    BY <1>2 DEF httpVars, cfg, EnvInt64
  <2>2. Http!TypeOK'
    BY <1>0, <2>1 DEF HttpInv, Http!TypeOK, Http!Key, Http!HTTPConfig, Limits,
       Http!Stage, Http!Status
  <2>3. \A c \in Conn : CallInv(c)'
    BY <1>0, <2>1 DEF HttpInv, CallInv, CallOK, Counted, Refused, Fits, MCPLimited,
       Http!KeyFn
  <2> QED
    BY <2>2, <2>3 DEF HttpInv
<1>3. CASE StartStdio \/ StartHTTP \/ Fatal \/ StdioReturns \/ UNCHANGED vars
  <2>1. UNCHANGED << env, stdioVars, httpVars >>
    BY <1>3 DEF StartStdio, StartHTTP, Fatal, StdioReturns, vars
  <2>2. StdioInv' /\ HttpInv' /\ state' = state /\ env' = env
    BY <1>1, <1>2, <2>1
  <2>3. /\ process' \in {"starting", "stdio", "http"} \cup Exited
        /\ process' # "stdio" => state \in {"decode"} \cup Stdio!Stopped
    BY <1>3 DEF MainInv, StartStdio, StartHTTP, Fatal, StdioReturns, vars, Exited
  <2> QED
    BY <1>0, <2>2, <2>3 DEF MainInv, Stdio!Stopped, Exited
<1>4. CASE ServeStdio \/ StdioClient
  <2>1. /\ process = "stdio" /\ process' = process /\ env' = env /\ UNCHANGED httpVars
        /\ Stdio!Serve \/ Stdio!Client
    BY <1>4 DEF ServeStdio, StdioClient
  <2>2. StdioInv' /\ HttpInv'
    BY <1>0, <1>2, <2>1, StdioNext
  <2> QED
    BY <1>0, <2>1, <2>2 DEF MainInv, Exited
<1>5. CASE ServeHTTP
  <2>1. /\ process = "http" /\ process' = process /\ env' = env /\ UNCHANGED stdioVars
        /\ Http!Next
    BY <1>5 DEF ServeHTTP
  <2>2. StdioInv' /\ HttpInv' /\ state' = state
    BY <1>0, <1>1, <2>1, HttpNext
  <2> QED
    BY <1>0, <2>1, <2>2 DEF MainInv, Exited, Stdio!Stopped
<1> QED
  BY <1>3, <1>4, <1>5 DEF Next

LEMMA MainInvariant == Spec => []MainInv
BY MainInit, MainNext, PTL DEF Spec

\* Whatever the process was started with, its variables keep their types.
THEOREM MainTypeOK == Spec => []TypeOK
<1>1. MainInv => TypeOK
  BY DEF MainInv, StdioInv, HttpInv, TypeOK
<1> QED
  BY <1>1, MainInvariant, PTL

\* Whatever is owed an answer gets one, with its id and in order, and nothing
\* else does, but for the last while its answer is written, lost or replaced by
\* a panic, and for the answer to what does not decode (server.go, ServeStdio
\* and Dispatch).
THEOREM RequestsAreAnsweredInOrder == Spec => []AnsweredInOrder
<1>1. ASSUME MainInv PROVE AnsweredInOrder
  <2>1. OrderInv
    BY <1>1 DEF MainInv, StdioInv
  <2> QED
    BY <2>1 DEF OrderInv, AnsweredInOrder, Stdio!AnsweredInOrder, Stdio!Front, Front,
       Stdio!Last, Last
<1> QED
  BY <1>1, MainInvariant, PTL

\* Only a 0 in the environment switches a limit off.
LEMMA ZeroIsOff ==
    ASSUME env \in Env
    PROVE  /\ cfg.MCPRateLimitPerMin = 0 <=> env.mcpLimit = 0
           /\ ~cfg.BodyLimit => env.bodyLimit = 0
<1>1. /\ DefaultMCPLimit \in Nat \ {0} /\ {Unset, NotANumber} \cap Int = {}
      /\ env.mcpLimit \in Int \cup {Unset, NotANumber}
      /\ env.bodyLimit \in Int \cup {Unset, NotANumber}
  BY MainAssumption
<1>2. ASSUME NEW raw \in Int \cup {Unset, NotANumber}, NEW def \in Nat \ {0}
      PROVE  EnvInt64(raw, def) \in Nat /\ (EnvInt64(raw, def) = 0 <=> raw = 0)
  BY <1>1, <1>2 DEF EnvInt64
<1>3. EnvInt64(env.mcpLimit, DefaultMCPLimit) = 0 <=> env.mcpLimit = 0
  BY <1>1, <1>2
<1>4. ~(EnvInt64(env.bodyLimit, 1) > 0) => env.bodyLimit = 0
  <2>1. 1 \in Nat \ {0}
    OBVIOUS
  <2>2. /\ EnvInt64(env.bodyLimit, 1) \in Nat
        /\ EnvInt64(env.bodyLimit, 1) = 0 <=> env.bodyLimit = 0
    BY <1>1, <1>2, <2>1
  <2> QED
    BY <2>2
<1> QED
  BY <1>3, <1>4 DEF cfg

\* A tool runs over HTTP only for a call with the right bearer, as the user the
\* call was counted for, uncounted or uncapped only where the environment says
\* so; and a refused call is charged as far as it came (middleware.go keyFnMCP
\* and the order in http.go, userContextMiddleware, main.go envInt64).
THEOREM WhoPaysRuns == Spec => []ChargedToWhomItRunsAs
<1>1. ASSUME MainInv PROVE ChargedToWhomItRunsAs
  <2>0. cfg.MCPRateLimitPerMin \in Nat
    BY <1>1, ConfigType DEF MainInv
  <2>1. ASSUME NEW c \in Conn
        PROVE  /\ CallOK(pc[c], call[c], runsAs[c], charged[c])
               /\ runsAs[c] \in User \cup {Anon}
               /\ pc[c] # "idle" => call[c] \in Offered
    BY <1>1, HttpTypes DEF MainInv
  <2>2. ASSUME NEW c \in Conn, pc[c] = "tool"
        PROVE  /\ call[c].bearer
               /\ call[c].header = IF runsAs[c] = Anon THEN NoHeader ELSE runsAs[c]
               /\ charged[c] = IF cfg.MCPRateLimitPerMin = 0 THEN NoKey
                               ELSE IF runsAs[c] = Anon THEN call[c].ip
                               ELSE runsAs[c]
    <3>1. Counted("tool", call[c], runsAs[c], charged[c]) /\ call[c] \in Offered
      BY <2>1, <2>2 DEF CallOK
    <3>2. MCPLimited <=> cfg.MCPRateLimitPerMin # 0
      BY <2>0 DEF MCPLimited
    <3> QED
      BY <2>1, <3>1, <3>2, HttpAssumption DEF Counted, Http!KeyFn
  <2>3. ASSUME NEW c \in Conn
        PROVE  /\ pc[c] \in {"413", "429"} => charged[c] = NoKey
               /\ pc[c] = "401" /\ call[c].path = "/mcp" /\ cfg.MCPRateLimitPerMin > 0 =>
                     charged[c] = Http!KeyFn(call[c])
    BY <2>1 DEF CallOK, Refused, MCPLimited
  <2>4. ASSUME NEW c \in Conn, pc[c] = "tool"
        PROVE  /\ charged[c] = NoKey <=> env.mcpLimit = 0
               /\ call[c].body = "too big" => env.bodyLimit = 0
    <3>1. /\ CallOK("tool", call[c], runsAs[c], charged[c])
          /\ Http!KeyFn(call[c]) \in Key /\ NoKey \notin Key
      BY <2>1, <2>4, HttpAssumption
    <3>2. charged[c] = NoKey <=> cfg.MCPRateLimitPerMin = 0
      BY <2>0, <3>1 DEF CallOK, Counted, MCPLimited
    <3>3. call[c].body = "too big" => ~cfg.BodyLimit
      BY <3>1 DEF CallOK, Fits
    <3>4. env \in Env
      BY <1>1 DEF MainInv
    <3> QED
      BY <3>2, <3>3, <3>4, ZeroIsOff
  <2>5. Http!ChargedToWhomItRunsAs
    BY <2>2, <2>3 DEF Http!ChargedToWhomItRunsAs
  <2> QED
    BY <2>4, <2>5 DEF ChargedToWhomItRunsAs
<1> QED
  BY <1>1, MainInvariant, PTL
=============================================================================

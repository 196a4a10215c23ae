----------------------------- MODULE SlidingLog -----------------------------
(***************************************************************************)
(* What the rate limiter promises, without rings, rebuilds or garbage      *)
(* collection: per key a log of the calls admitted within the last Window, *)
(* and a call is admitted exactly when that log holds fewer than the limit *)
(* of its route.  All it ever forgets of the window is what a refused call *)
(* of a smaller limit has no room for.                                     *)
(***************************************************************************)
EXTENDS Selection

CONSTANTS Key, Route, Limit, Window, MaxTime, MaxCall, NoAnswer

VARIABLES now, log, answer

svars == << now, log, answer >>

Init ==
    /\ now = 1
    /\ log = [k \in Key |-> << >>]
    /\ answer = NoAnswer

Admitted(k, route) == [key |-> k, route |-> route, allowed |-> TRUE, retry |-> 0]
Denied(k, route, retry) == [key |-> k, route |-> route, allowed |-> FALSE, retry |-> retry]

Admit(k, route) ==
    /\ now <= MaxCall
    /\ UNCHANGED now
    /\ answer' = Admitted(k, route)
    /\ Len(log[k]) < Limit[route]
    /\ log' = [log EXCEPT ![k] = Append(@, now)]

Newest(s, n) == SubSeq(s, Len(s) - n + 1, Len(s))

Deny(k, route) ==
    LET kept == Newest(log[k], Limit[route]) IN
    /\ now <= MaxCall
    /\ UNCHANGED now
    /\ Len(log[k]) >= Limit[route]
    /\ answer' = Denied(k, route, (Head(kept) + Window) - now)
    /\ log' = [log EXCEPT ![k] = kept]

\* A call made at t counts up to and including t + Window.
Recent(s, t) == Kept(s, [i \in DOMAIN s |-> t <= s[i] + Window])

Tick ==
    /\ now < MaxTime
    /\ now' = now + 1
    /\ answer' = NoAnswer
    /\ log' = [k \in Key |-> Recent(log[k], now')]

Next == Tick \/ \E k \in Key, route \in Route : Admit(k, route) \/ Deny(k, route)

Spec == Init /\ [][Next]_svars
=============================================================================

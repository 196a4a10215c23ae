---------------------------- MODULE RateLimiter -----------------------------
(***************************************************************************)
(* The sliding-window rate limiter of internal/mcp/ratelimit.go, as the    *)
(* HTTP handler uses it: one Limiter in front of every route, each route   *)
(* with a limit of its own, all routes sharing the keys.  Allow and the    *)
(* garbage collector hold Limiter.mu throughout, so each is one step.      *)
(*                                                                         *)
(* Time is counted in instants; time.Now carries a monotonic reading, so   *)
(* it never goes back.  The two reads of the clock in Allow are one here.  *)
(***************************************************************************)
EXTENDS Selection, FiniteSets

CONSTANTS
    Key,            \* uid:<user> or ip:<address>
    Route,          \* /mcp and /download
    Limit,          \* the calls per window each route allows
    Window,         \* time.Minute
    GcAge,          \* ten minutes
    MaxTime,        \* bound: the clock stops there
    MaxCall,        \* bound: no call comes later
    MaxAdmitted,    \* bound: no call comes once so many are in the history
    NoRing, NoAnswer

\* Handler puts the limiter only in front of a route with a positive limit.
ASSUME RateAssumption ==
    /\ Limit \in [Route -> Nat \ {0}]
    /\ Window \in Nat \ {0}
    /\ GcAge \in Nat
    /\ Window <= GcAge
    /\ MaxTime \in Nat
    /\ MaxCall \in Nat
    /\ MaxAdmitted \in Nat

\* The absence of a ring is none of the rings.
ASSUME NoRingAssumption ==
    \A route \in Route :
        NoRing \notin [timestamps : [0..(Limit[route] - 1) -> Nat],
                      head : 0..(Limit[route] - 1), filled : BOOLEAN, capacity : {Limit[route]}]

VARIABLES
    now,
    windows,        \* map from key to ring
    answer,         \* what the last call of this instant was told
    admitted        \* history: the calls admitted within the last window

vars == << now, windows, answer, admitted >>

-----------------------------------------------------------------------------
(* The ring: a circular buffer of timestamps, 0 where none was written.    *)

NewRing(max) == [ timestamps |-> [i \in 0..(max - 1) |-> 0],
                  head |-> 0,
                  filled |-> FALSE,
                  capacity |-> max ]

\* Mutant of RingAppend: the head runs off the end.
RingAppendUnwrapped(r, t) ==
    [ timestamps |-> [r.timestamps EXCEPT ![r.head] = t],
      head |-> r.head + 1,
      filled |-> r.filled \/ r.head + 1 = r.capacity,
      capacity |-> r.capacity ]

RingAppend(r, t) ==
    LET next == (r.head + 1) % r.capacity IN
    [ timestamps |-> [r.timestamps EXCEPT ![r.head] = t],
      head |-> next,
      filled |-> r.filled \/ next = 0,
      capacity |-> r.capacity ]

Chronological(r) ==
    LET n == IF r.filled THEN r.capacity ELSE r.head
        start == IF r.filled THEN r.head ELSE 0
    IN  [i \in 1..n |-> r.timestamps[(start + i - 1) % r.capacity]]

\* Not before the cutoff, which is t - Window.
LiveTimestamps(r, t) ==
    LET all == Chronological(r) IN
    Kept(all, [i \in DOMAIN all |-> all[i] + Window >= t])

LastTimestamp(r) ==
    IF ~r.filled /\ r.head = 0
      THEN 0
      ELSE r.timestamps[IF r.head = 0 THEN r.capacity - 1 ELSE r.head - 1]

\* A new ring to which the timestamps are appended one by one.
Rebuilt(live, max) ==
    LET ring[n \in 0..Len(live)] ==
            IF n = 0 THEN NewRing(max) ELSE RingAppend(ring[n - 1], live[n])
    IN  ring[Len(live)]

-----------------------------------------------------------------------------

Init ==
    /\ now = 1
    /\ windows = [k \in Key |-> NoRing]
    /\ answer = NoAnswer
    /\ admitted = [k \in Key |-> << >>]

\* Mutant of RingFor: a change of capacity starts afresh.
RingForAfresh(k, max) ==
    IF windows[k] = NoRing \/ windows[k].capacity # max THEN NewRing(max)
    ELSE windows[k]

\* The key's ring with the capacity this call asks for.
RingFor(k, max) ==
    IF windows[k] = NoRing THEN NewRing(max)
    ELSE IF windows[k].capacity # max
      THEN Rebuilt(LiveTimestamps(windows[k], now), max)
    ELSE windows[k]

\* Mutant of Retry: until the newest call falls off.
RetryAfterNewest(live) == (live[Len(live)] + Window) - now

\* The oldest call of the window plus the window; never negative for a live one.
Retry(live) == (Head(live) + Window) - now

Allow(k, route) ==
    LET max == Limit[route]
        ring == RingFor(k, max)
        live == LiveTimestamps(ring, now)
    IN
    /\ now <= MaxCall
    /\ Len(admitted[k]) < MaxAdmitted
    /\ IF Len(live) >= max
         THEN /\ windows' = [windows EXCEPT ![k] = ring]
              /\ answer' = [key |-> k, route |-> route, allowed |-> FALSE,
                            retry |-> Retry(live)]
              /\ UNCHANGED admitted
         ELSE /\ windows' = [windows EXCEPT ![k] = RingAppend(Rebuilt(live, max), now)]
              /\ answer' = [key |-> k, route |-> route, allowed |-> TRUE, retry |-> 0]
              /\ admitted' = [admitted EXCEPT ![k] = Append(@, [at |-> now, route |-> route])]
    /\ UNCHANGED now

\* Mutants of Stale: any bucket of an earlier instant; the comparison reversed.
StaleAtOnce(r) == LastTimestamp(r) < now
StaleReversed(r) == LastTimestamp(r) + GcAge > now

Stale(r) == LastTimestamp(r) + GcAge < now

GC ==
    /\ windows' = [k \in Key |-> IF windows[k] # NoRing /\ Stale(windows[k])
                                   THEN NoRing ELSE windows[k]]
    /\ UNCHANGED << now, answer, admitted >>

Tick ==
    /\ now < MaxTime
    /\ now' = now + 1
    /\ answer' = NoAnswer
    /\ admitted' = [k \in Key |->
          Kept(admitted[k], [i \in DOMAIN admitted[k] |-> admitted[k][i].at + Window >= now'])]
    /\ UNCHANGED windows

Next == Tick \/ GC \/ \E k \in Key, route \in Route : Allow(k, route)

Spec == Init /\ [][Next]_vars

\* Time passes and the collector's ticker keeps firing.
Fairness == WF_vars(Tick) /\ WF_vars(GC)

FairSpec == Spec /\ Fairness

-----------------------------------------------------------------------------
(* Properties.                                                             *)

IsRing(r) ==
    /\ r.capacity \in {Limit[route] : route \in Route}
    /\ r.timestamps \in [0..(r.capacity - 1) -> 0..now]
    /\ r.head \in 0..(r.capacity - 1)
    /\ r.filled \in BOOLEAN

TypeOK ==
    /\ now \in Nat
    /\ \A k \in Key :
          /\ windows[k] # NoRing => IsRing(windows[k])
          /\ admitted[k] \in Seq([at : 0..now, route : Route])
    /\ answer # NoAnswer =>
          answer \in [key : Key, route : Route, allowed : BOOLEAN, retry : 0..Window]

\* The rings implement the sliding log: no wrap-around, rebuild or collected
\* bucket ever forgets a call of the window, save for what a refused call of a
\* smaller limit has no room for, or remembers an older one.
LiveLog(k) ==
    IF windows[k] = NoRing THEN << >> ELSE LiveTimestamps(windows[k], now)

Sliding == INSTANCE SlidingLog WITH log <- [k \in Key |-> LiveLog(k)]

ImplementsSlidingLog == Sliding!Spec

\* The smallest limit holds whatever the other routes do to the shared ring:
\* a call admitted under it is at most its Limit-th in the window, counting
\* the calls of every route.
SmallestLimitHolds ==
    \A route \in Route :
        /\ \A other \in Route : Limit[route] <= Limit[other]
        /\ answer # NoAnswer
        /\ answer.route = route
        /\ answer.allowed
        => Len(admitted[answer.key]) <= Limit[route]

\* Every route's own limit ("MCPRateLimitPerMin caps /mcp calls per key per
\* minute", http.go).  It fails when the limits differ: a denied call of the
\* smaller limit shrinks the ring, and the ring forgets calls of the larger.
EachLimitHolds ==
    \A k \in Key, route \in Route :
        Cardinality({i \in DOMAIN admitted[k] : admitted[k][i].route = route}) <= Limit[route]

\* The retry of a refusal is exact: that much later the key is still full, one
\* instant after it is not, when nobody else uses the key.  The ring the
\* refused call leaves behind tells the same as the answer.
RetryIsExact ==
    answer # NoAnswer /\ ~answer.allowed =>
        LET ring == windows[answer.key]
            then == now + answer.retry
            max == Limit[answer.route]
        IN  /\ Len(LiveTimestamps(ring, then)) >= max
            /\ Len(LiveTimestamps(ring, then + 1)) < max

\* The map does not grow for ever: a bucket nobody uses is dropped.
IdleBucketsDropped == \A k \in Key : windows[k] # NoRing ~> windows[k] = NoRing
=============================================================================

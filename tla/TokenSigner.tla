---------------------------- MODULE TokenSigner -----------------------------
(***************************************************************************)
(* The one-shot download tokens of internal/mcp/tokens.go.                 *)
(*                                                                         *)
(* A token is its claim (user, expiry, nonce) and a MAC.  The HMAC is      *)
(* taken as unforgeable: a presented token has a good MAC exactly when its *)
(* claim was signed.  The key comes from the environment and outlives the  *)
(* process; the consumed nonces do not.                                    *)
(*                                                                         *)
(* Verify is two steps, because another goroutine may run between its look *)
(* at the clock and its LoadOrStore; the sweeper is one step per deletion. *)
(***************************************************************************)
EXTENDS Naturals

CONSTANTS
    User,
    Nonce,
    Request,
    TTL,            \* seconds a token lives (5 minutes in request_export_link)
    MaxStall,       \* seconds a goroutine may be stopped inside Verify
    MaxTime,        \* bound: the clock stops there
    MaxSign         \* bound: no token is signed later

ASSUME TokenAssumption ==
    /\ User # {} /\ Nonce # {}
    /\ TTL \in Nat \ {0}
    /\ MaxStall \in Nat
    /\ MaxTime \in Nat
    /\ MaxSign \in Nat

Time == 0..MaxTime
Never == 0                  \* no entry in the consumed map: expiries are >= 1
Expiry == 1..(MaxSign + TTL)
Claim == [user : User, exp : Expiry, nonce : Nonce]
Start == [user |-> CHOOSE u \in User : TRUE, exp |-> 1, nonce |-> CHOOSE n \in Nonce : TRUE]

VARIABLES
    now,            \* time.Now().Unix()
    signed,         \* the claims signed so far
    consumed,       \* sync.Map: nonce -> expiry
    sweepNow,       \* the time the running sweep compares with
    pc, claim,      \* where each Verify is, and the token it was given
    checked,        \* history: the clock when the expiry was checked
    accepted        \* history: per nonce, the Verify calls of this process
                    \* that returned nil, where 2 stands for two or more

vars == << now, signed, consumed, sweepNow, pc, claim, checked, accepted >>

Answer == {"ok", "malformed", "bad signature", "expired", "reused"}
Label == {"idle", "store"} \cup Answer

TypeOK ==
    /\ now \in Time
    /\ signed \subseteq Claim
    /\ consumed \in [Nonce -> Expiry \cup {Never}]
    /\ sweepNow \in Time
    /\ pc \in [Request -> Label]
    /\ claim \in [Request -> Claim]
    /\ checked \in [Request -> Time]
    /\ accepted \in [Nonce -> 0..2]

Init ==
    /\ now = 0
    /\ signed = {}
    /\ consumed = [n \in Nonce |-> Never]
    /\ sweepNow = 0
    /\ pc = [r \in Request |-> "idle"]
    /\ claim = [r \in Request |-> Start]
    /\ checked = [r \in Request |-> 0]
    /\ accepted = [n \in Nonce |-> 0]

\* Mutant of Sign: the expiry is rounded up to the next second.
SignRoundedUp(u) ==
    /\ now <= MaxSign
    /\ \E n \in Nonce :
          /\ \A c \in signed : c.nonce # n
          /\ signed' = signed \cup {[user |-> u, exp |-> now + TTL + 1, nonce |-> n]}
    /\ UNCHANGED << now, consumed, sweepNow, pc, claim, checked, accepted >>

\* Sixteen random bytes never repeat a nonce.
Sign(u) ==
    /\ now <= MaxSign
    /\ \E n \in Nonce :
          /\ \A c \in signed : c.nonce # n
          /\ signed' = signed \cup {[user |-> u, exp |-> now + TTL, nonce |-> n]}
    /\ UNCHANGED << now, consumed, sweepNow, pc, claim, checked, accepted >>

Expired(c) == now >= c.exp

\* Mutant of VerifyCheck: the MAC is not compared.
VerifyCheckWithoutMac(r, c) ==
    /\ pc[r] = "idle"
    /\ pc' = [pc EXCEPT ![r] = IF Expired(c) THEN "expired" ELSE "store"]
    /\ claim' = [claim EXCEPT ![r] = c]
    /\ checked' = [checked EXCEPT ![r] = now]
    /\ UNCHANGED << now, signed, consumed, sweepNow, accepted >>

\* Verify of what is no token: its parts do not decode, so there is no claim.
VerifyMalformed(r) ==
    /\ pc[r] = "idle"
    /\ pc' = [pc EXCEPT ![r] = "malformed"]
    /\ UNCHANGED << now, signed, consumed, sweepNow, claim, checked, accepted >>

\* Verify up to its LoadOrStore.
VerifyCheck(r, c) ==
    /\ pc[r] = "idle"
    /\ pc' = [pc EXCEPT ![r] = IF c \notin signed THEN "bad signature"
                               ELSE IF Expired(c) THEN "expired"
                               ELSE "store"]
    /\ claim' = [claim EXCEPT ![r] = c]
    /\ checked' = [checked EXCEPT ![r] = now]
    /\ UNCHANGED << now, signed, consumed, sweepNow, accepted >>

\* Mutant of VerifyStore: Store in place of LoadOrStore.
VerifyStoreAlways(r) ==
    LET n == claim[r].nonce IN
    /\ pc[r] = "store"
    /\ pc' = [pc EXCEPT ![r] = "ok"]
    /\ consumed' = [consumed EXCEPT ![n] = claim[r].exp]
    /\ accepted' = [accepted EXCEPT ![n] = IF @ = 0 THEN 1 ELSE 2]
    /\ UNCHANGED << now, signed, sweepNow, claim, checked >>

\* consumed.LoadOrStore(nonceHex, exp)
VerifyStore(r) ==
    LET n == claim[r].nonce IN
    /\ pc[r] = "store"
    /\ IF consumed[n] # Never
         THEN /\ pc' = [pc EXCEPT ![r] = "reused"]
              /\ UNCHANGED << consumed, accepted >>
         ELSE /\ pc' = [pc EXCEPT ![r] = "ok"]
              /\ consumed' = [consumed EXCEPT ![n] = claim[r].exp]
              /\ accepted' = [accepted EXCEPT ![n] = IF @ = 0 THEN 1 ELSE 2]
    /\ UNCHANGED << now, signed, sweepNow, claim, checked >>

Return(r) ==
    /\ pc[r] \in Answer
    /\ pc' = [pc EXCEPT ![r] = "idle"]
    /\ claim' = [claim EXCEPT ![r] = Start]
    /\ checked' = [checked EXCEPT ![r] = 0]
    /\ UNCHANGED << now, signed, consumed, sweepNow, accepted >>

\* Mutant of SweepStart: the clock is read once, before the loop.
SweepStartHoisted == UNCHANGED vars

\* A tick of the sweeper reads the clock once ...
SweepStart ==
    /\ sweepNow' = now
    /\ UNCHANGED << now, signed, consumed, pc, claim, checked, accepted >>

\* Mutant of SweepDelete: one second early.
SweepDeleteEarly(n) ==
    /\ consumed[n] # Never
    /\ consumed[n] <= sweepNow
    /\ consumed' = [consumed EXCEPT ![n] = Never]
    /\ UNCHANGED << now, signed, sweepNow, pc, claim, checked, accepted >>

\* ... and deletes what it finds expired before that time, entry by entry.
SweepDelete(n) ==
    /\ consumed[n] # Never
    /\ consumed[n] < sweepNow
    /\ consumed' = [consumed EXCEPT ![n] = Never]
    /\ UNCHANGED << now, signed, sweepNow, pc, claim, checked, accepted >>

\* The clock moves; no goroutine is stopped inside Verify for longer than
\* MaxStall seconds.
Tick ==
    /\ now < MaxTime
    /\ \A r \in Request : pc[r] = "store" => now < checked[r] + MaxStall
    /\ now' = now + 1
    /\ UNCHANGED << signed, consumed, sweepNow, pc, claim, checked, accepted >>

\* The process is restarted with the same key and an empty map.
Restart ==
    /\ consumed' = [n \in Nonce |-> Never]
    /\ sweepNow' = 0
    /\ pc' = [r \in Request |-> "idle"]
    /\ claim' = [r \in Request |-> Start]
    /\ checked' = [r \in Request |-> 0]
    /\ accepted' = [n \in Nonce |-> 0]
    /\ UNCHANGED << now, signed >>

Verify == \E r \in Request :
    \/ VerifyMalformed(r)
    \/ \E c \in Claim : VerifyCheck(r, c)
    \/ VerifyStore(r)
    \/ Return(r)

Sweep == SweepStart \/ \E n \in Nonce : SweepDelete(n)

Next == Tick \/ (\E u \in User : Sign(u)) \/ Verify \/ Sweep \/ Restart

Spec == Init /\ [][Next]_vars

\* Time passes, Verify runs on, and the sweep loop ticks and ranges for ever.
Fairness ==
    /\ WF_vars(Tick)
    /\ WF_vars(SweepStart)
    /\ \A n \in Nonce : WF_vars(SweepDelete(n))
    /\ \A r \in Request : WF_vars(VerifyStore(r)) /\ WF_vars(Return(r))

FairSpec == Spec /\ Fairness

-----------------------------------------------------------------------------
(* Properties.                                                             *)

\* A token is redeemed at most once ("A successful Verify atomically marks the
\* token consumed; a second Verify of the same token returns ErrTokenReused").
\* It holds of one process, which stops no Verify for two seconds or more: a
\* restarted one accepts again what its predecessor has redeemed.
OneShot == \A n \in Nonce : accepted[n] <= 1

\* What OneShot rests on: a redeemed nonce stays in the map for as long as a
\* Verify that has passed the expiry check can still be on its way to it.
RedeemedStaysConsumed ==
    \A c \in signed :
        accepted[c.nonce] > 0 /\ now <= c.exp => consumed[c.nonce] # Never

\* Verify's verdicts are just, although the clock moves, the sweeper runs and
\* other goroutines redeem between its check and its store: a token is accepted
\* only if signed and in time, "reused" only if some Verify has accepted it,
\* "expired" only once its time has come; and a nonce is marked only for a
\* signed token, with its expiry, so that no forged or expired one uses up
\* somebody's link.
VerdictsAreJust ==
    /\ \A r \in Request :
          /\ pc[r] = "ok" => claim[r] \in signed /\ checked[r] < claim[r].exp
          /\ pc[r] = "reused" => accepted[claim[r].nonce] > 0
          /\ pc[r] = "expired" => now >= claim[r].exp
    /\ \A n \in Nonce : consumed[n] # Never =>
          \E c \in signed : c.nonce = n /\ c.exp = consumed[n]

\* The map does not grow for ever: every consumed nonce is swept.
ConsumedIsSwept == \A n \in Nonce : consumed[n] # Never ~> consumed[n] = Never
=============================================================================

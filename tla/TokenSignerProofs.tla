------------------------- MODULE TokenSignerProofs --------------------------
(***************************************************************************)
(* A token is redeemed at most once, for every number of users, tokens,    *)
(* verifiers and seconds, as long as no goroutine is stopped inside Verify *)
(* for more than a second.                                                 *)
(*                                                                         *)
(* OneShot alone is not inductive: it needs that a redeemed nonce is still *)
(* in the map when a second verifier, past its expiry check, looks it up.  *)
(* The sweeper deletes it only after its expiry, a verifier has checked    *)
(* that the expiry lies ahead, and at most MaxStall seconds have passed.   *)
(***************************************************************************)
EXTENDS TokenSigner, TLAPS

ShortStalls == MaxStall <= 1

\* A nonce names one signed token, and only signed nonces are redeemed.
NoncesAreUnique == \A c, d \in signed : c.nonce = d.nonce => c = d

RedeemedWasSigned ==
    \A n \in Nonce : accepted[n] > 0 => \E c \in signed : c.nonce = n

ConsumedIsExpiry ==
    \A n \in Nonce : consumed[n] # Never =>
        \E c \in signed : c.nonce = n /\ c.exp = consumed[n]

SweepIsPast == sweepNow <= now

\* Where a verifier is between its check and its store.
CheckedInTime ==
    \A r \in Request : pc[r] = "store" =>
        /\ claim[r] \in signed
        /\ checked[r] < claim[r].exp
        /\ now <= checked[r] + MaxStall

TokenInv ==
    /\ TypeOK
    /\ NoncesAreUnique
    /\ RedeemedWasSigned
    /\ ConsumedIsExpiry
    /\ SweepIsPast
    /\ CheckedInTime
    /\ RedeemedStaysConsumed
    /\ OneShot

LEMMA StartIsClaim == Start \in Claim
BY TokenAssumption DEF Start, Claim, Expiry

LEMMA InitTypeOK == Init => TypeOK
BY StartIsClaim, TokenAssumption
   DEF Init, TypeOK, Time, Never, Label

\* The types of the variables, kept by every step.
LEMMA NextTypeOK == TypeOK /\ [Next]_vars => TypeOK'
<1> SUFFICES ASSUME TypeOK, [Next]_vars PROVE TypeOK'
  OBVIOUS
<1> USE DEF TypeOK
<1>1. CASE Tick
  <2>1. now' \in Time
    BY <1>1, TokenAssumption DEF Tick, Time
  <2> QED
    BY <1>1, <2>1 DEF Tick
<1>2. ASSUME NEW u \in User, Sign(u) PROVE TypeOK'
  <2>1. PICK n \in Nonce :
          signed' = signed \cup {[user |-> u, exp |-> now + TTL, nonce |-> n]}
    BY <1>2 DEF Sign
  <2>2. now + TTL \in Expiry
    BY <1>2, TokenAssumption DEF Sign, Time, Expiry
  <2>3. [user |-> u, exp |-> now + TTL, nonce |-> n] \in Claim
    BY <2>2 DEF Claim
  <2> QED
    BY <1>2, <2>1, <2>3 DEF Sign
<1>3. ASSUME NEW r \in Request, NEW c \in Claim, VerifyCheck(r, c) PROVE TypeOK'
  BY <1>3 DEF VerifyCheck, Label, Answer
<1>4. ASSUME NEW r \in Request, VerifyStore(r) PROVE TypeOK'
  <2>1. claim[r].nonce \in Nonce /\ claim[r].exp \in Expiry
    BY DEF Claim
  <2>2. pc' \in [Request -> Label]
    <3>1. \/ pc' = [pc EXCEPT ![r] = "ok"]
          \/ pc' = [pc EXCEPT ![r] = "reused"]
      BY <1>4 DEF VerifyStore
    <3> QED
      BY <3>1 DEF Label, Answer
  <2>3. consumed' \in [Nonce -> Expiry \cup {Never}]
    <3>1. \/ consumed' = consumed
          \/ consumed' = [consumed EXCEPT ![claim[r].nonce] = claim[r].exp]
      BY <1>4 DEF VerifyStore
    <3> QED
      BY <3>1, <2>1
  <2>4. accepted' \in [Nonce -> 0..2]
    <3>1. \/ accepted' = accepted
          \/ accepted' = [accepted EXCEPT ![claim[r].nonce] = IF @ = 0 THEN 1 ELSE 2]
      BY <1>4 DEF VerifyStore
    <3> QED
      BY <3>1
  <2> QED
    BY <1>4, <2>2, <2>3, <2>4 DEF VerifyStore
<1>5. ASSUME NEW r \in Request, Return(r) PROVE TypeOK'
  <2>1. 0 \in Time /\ "idle" \in Label
    BY TokenAssumption DEF Time, Label
  <2> QED
    BY <1>5, <2>1, StartIsClaim DEF Return
<1>6. CASE SweepStart
  BY <1>6 DEF SweepStart
<1>7. ASSUME NEW n \in Nonce, SweepDelete(n) PROVE TypeOK'
  BY <1>7 DEF SweepDelete
<1>8. CASE Restart
  <2>1. 0 \in Time /\ "idle" \in Label /\ Never \in Expiry \cup {Never}
    BY TokenAssumption DEF Time, Label
  <2> QED
    BY <1>8, <2>1, StartIsClaim DEF Restart
<1>9. CASE UNCHANGED vars
  BY <1>9 DEF vars
<1>10. ASSUME NEW r \in Request, VerifyMalformed(r) PROVE TypeOK'
  BY <1>10 DEF VerifyMalformed, Label, Answer
<1> QED
  BY <1>1, <1>2, <1>3, <1>4, <1>5, <1>6, <1>7, <1>8, <1>9, <1>10
  DEF Next, Verify, Sweep

LEMMA InitTokenInv == Init => TokenInv
BY InitTypeOK
   DEF Init, TokenInv, NoncesAreUnique, RedeemedWasSigned, ConsumedIsExpiry,
       SweepIsPast, CheckedInTime, RedeemedStaysConsumed, OneShot

\* A redeemed nonce is in the map for every verifier past its expiry check.
LEMMA InTimeMeansConsumed ==
    ASSUME ShortStalls, TokenInv,
           NEW r \in Request, pc[r] = "store", accepted[claim[r].nonce] > 0
    PROVE  consumed[claim[r].nonce] # Never
<1>1. claim[r] \in signed /\ checked[r] < claim[r].exp /\ now <= checked[r] + MaxStall
  BY DEF TokenInv, CheckedInTime
<1>2. now \in Nat /\ checked[r] \in Nat /\ claim[r].exp \in Nat /\ MaxStall \in Nat
  BY TokenAssumption DEF TokenInv, TypeOK, Time, Claim, Expiry
<1>3. now <= claim[r].exp
  BY <1>1, <1>2 DEF ShortStalls
<1> QED
  BY <1>1, <1>3 DEF TokenInv, RedeemedStaysConsumed

LEMMA NextTokenInv ==
    ASSUME ShortStalls, TokenInv, [Next]_vars PROVE TokenInv'
<1>0. TypeOK'
  BY NextTypeOK DEF TokenInv
<1> USE TokenAssumption
<1> USE DEF TokenInv, NoncesAreUnique, RedeemedWasSigned, ConsumedIsExpiry,
            SweepIsPast, CheckedInTime, RedeemedStaysConsumed, OneShot
<1>ty. /\ now \in Nat /\ now' \in Nat /\ sweepNow \in Nat
       /\ \A c \in signed : c \in Claim /\ c.exp \in Nat /\ c.exp # Never /\ c.nonce \in Nonce
       /\ \A r \in Request : checked[r] \in Nat /\ claim[r] \in Claim
                             /\ claim[r].nonce \in Nonce
       /\ \A n \in Nonce : accepted[n] \in Nat /\ consumed[n] \in Nat
  BY <1>0 DEF TypeOK, Time, Claim, Expiry, Never
<1>1. CASE Tick
  BY <1>0, <1>1, <1>ty DEF Tick
<1>2. ASSUME NEW u \in User, Sign(u) PROVE TokenInv'
  <2>1. PICK n \in Nonce :
          /\ \A c \in signed : c.nonce # n
          /\ signed' = signed \cup {[user |-> u, exp |-> now + TTL, nonce |-> n]}
    BY <1>2 DEF Sign
  <2>2. accepted[n] = 0
    BY <2>1, <1>ty
  <2>3. UNCHANGED << now, consumed, sweepNow, pc, claim, checked, accepted >>
    BY <1>2 DEF Sign
  <2>4. NoncesAreUnique' /\ RedeemedStaysConsumed'
    BY <2>1, <2>2, <2>3
  <2> QED
    BY <1>0, <2>1, <2>3, <2>4
<1>3. ASSUME NEW r \in Request, NEW c \in Claim, VerifyCheck(r, c) PROVE TokenInv'
  <2>1. UNCHANGED << now, signed, consumed, sweepNow, accepted >>
    BY <1>3 DEF VerifyCheck
  <2>2. CheckedInTime'
    <3> SUFFICES ASSUME NEW q \in Request, pc'[q] = "store"
                 PROVE  /\ claim'[q] \in signed'
                        /\ checked'[q] < claim'[q].exp
                        /\ now' <= checked'[q] + MaxStall
      OBVIOUS
    <3>1. CASE q = r
      <4>1. c \in signed /\ ~Expired(c) /\ claim'[r] = c /\ checked'[r] = now
        BY <1>3, <3>1 DEF VerifyCheck, TypeOK
      <4> QED
        BY <4>1, <3>1, <2>1, <1>ty DEF Expired
    <3>2. CASE q # r
      BY <1>3, <3>2, <2>1 DEF VerifyCheck, TypeOK
    <3> QED
      BY <3>1, <3>2
  <2> QED
    BY <1>0, <2>1, <2>2
<1>4. ASSUME NEW r \in Request, VerifyStore(r) PROVE TokenInv'
  <2> DEFINE n == claim[r].nonce
  <2>1. pc[r] = "store" /\ claim[r] \in signed /\ n \in Nonce
    BY <1>4, <1>ty DEF VerifyStore
  <2>2. UNCHANGED << now, signed, sweepNow, claim, checked >>
    BY <1>4 DEF VerifyStore
  <2>3. CheckedInTime'
    BY <1>4, <2>2 DEF VerifyStore, TypeOK
  <2>4. CASE consumed[n] # Never
    <3>1. UNCHANGED << consumed, accepted >>
      BY <1>4, <2>4 DEF VerifyStore
    <3> QED
      BY <1>0, <2>2, <2>3, <3>1
  <2>5. CASE consumed[n] = Never
    <3>1. /\ consumed' = [consumed EXCEPT ![n] = claim[r].exp]
          /\ accepted' = [accepted EXCEPT ![n] = IF @ = 0 THEN 1 ELSE 2]
      BY <1>4, <2>5 DEF VerifyStore
    <3>2. accepted[n] = 0
      BY <2>1, <2>5, <1>ty, InTimeMeansConsumed
    <3>3. accepted'[n] = 1 /\ consumed'[n] = claim[r].exp
      BY <3>1, <3>2, <2>1 DEF TypeOK
    <3>4. \A m \in Nonce : m # n => accepted'[m] = accepted[m] /\ consumed'[m] = consumed[m]
      BY <3>1 DEF TypeOK
    <3>5. OneShot' /\ RedeemedWasSigned' /\ ConsumedIsExpiry'
      BY <3>3, <3>4, <2>1, <2>2
    <3>6. RedeemedStaysConsumed'
      BY <3>3, <3>4, <2>1, <2>2, <1>ty
    <3> QED
      BY <1>0, <2>2, <2>3, <3>5, <3>6
  <2> QED
    BY <2>4, <2>5
<1>5. ASSUME NEW r \in Request, Return(r) PROVE TokenInv'
  BY <1>0, <1>5 DEF Return, TypeOK
<1>6. CASE SweepStart
  BY <1>0, <1>6, <1>ty DEF SweepStart
<1>7. ASSUME NEW n \in Nonce, SweepDelete(n) PROVE TokenInv'
  <2>1. UNCHANGED << now, signed, sweepNow, pc, claim, checked, accepted >>
    BY <1>7 DEF SweepDelete
  <2>2. /\ consumed[n] # Never /\ consumed[n] < sweepNow
        /\ consumed'[n] = Never
        /\ \A m \in Nonce : m # n => consumed'[m] = consumed[m]
    BY <1>7 DEF SweepDelete, TypeOK
  <2>3. ConsumedIsExpiry'
    BY <2>1, <2>2
  <2>4. \A c \in signed : c.nonce = n => c.exp < now
    BY <2>2, <1>ty
  <2>5. RedeemedStaysConsumed'
    BY <2>1, <2>2, <2>4, <1>ty
  <2> QED
    BY <1>0, <2>1, <2>3, <2>5
<1>8. CASE Restart
  BY <1>0, <1>8, <1>ty DEF Restart
<1>9. CASE UNCHANGED vars
  BY <1>9, <1>0 DEF vars
<1>10. ASSUME NEW r \in Request, VerifyMalformed(r) PROVE TokenInv'
  BY <1>0, <1>10 DEF VerifyMalformed, TypeOK
<1> QED
  BY <1>1, <1>2, <1>3, <1>4, <1>5, <1>6, <1>7, <1>8, <1>9, <1>10
  DEF Next, Verify, Sweep

\* Every variable of the token signer keeps its type, whatever the stalls.
THEOREM TokenTypeOK == Spec => []TypeOK
<1>1. Init => TypeOK
  BY InitTypeOK
<1>2. TypeOK /\ [Next]_vars => TypeOK'
  BY NextTypeOK
<1> QED
  BY <1>1, <1>2, PTL DEF Spec

LEMMA TokenInvariant == ASSUME ShortStalls PROVE Spec => []TokenInv
<1>1. Init => TokenInv
  BY InitTokenInv
<1>2. TokenInv /\ [Next]_vars => TokenInv'
  BY NextTokenInv
<1> QED
  BY <1>1, <1>2, PTL DEF Spec

\* tokens.go: "a second Verify of the same token returns ErrTokenReused".  It
\* does, as long as no Verify is stopped for more than a second between its
\* expiry check and its LoadOrStore.
THEOREM TokensAreOneShot == ASSUME ShortStalls PROVE Spec => []OneShot
<1>1. TokenInv => OneShot
  BY DEF TokenInv
<1> QED
  BY <1>1, TokenInvariant, PTL

\* The sweeper never forgets a nonce that a verifier can still present.
THEOREM RedeemedNoncesStay == ASSUME ShortStalls PROVE Spec => []RedeemedStaysConsumed
<1>1. TokenInv => RedeemedStaysConsumed
  BY DEF TokenInv
<1> QED
  BY <1>1, TokenInvariant, PTL
-----------------------------------------------------------------------------
(* The verdicts, which need no bound on the stalls: within one process the *)
(* clock, the signed claims and the count of acceptances only grow.        *)

\* A nonce is in the map only because a Verify of this process accepted it.
ConsumedWasAccepted == \A n \in Nonce : consumed[n] # Never => accepted[n] > 0

\* What a Verify knows since its check.
CheckedClaims ==
    \A r \in Request :
        /\ pc[r] \in {"store", "ok"} => claim[r] \in signed /\ checked[r] < claim[r].exp
        /\ pc[r] = "reused" => accepted[claim[r].nonce] > 0
        /\ pc[r] = "expired" => now >= claim[r].exp

VerdictInv == TypeOK /\ ConsumedIsExpiry /\ ConsumedWasAccepted /\ CheckedClaims

LEMMA InitVerdictInv == Init => VerdictInv
BY InitTypeOK DEF Init, VerdictInv, ConsumedIsExpiry, ConsumedWasAccepted, CheckedClaims

LEMMA NextVerdictInv == VerdictInv /\ [Next]_vars => VerdictInv'
<1> SUFFICES ASSUME VerdictInv, [Next]_vars PROVE VerdictInv'
  OBVIOUS
<1>0. TypeOK'
  BY NextTypeOK DEF VerdictInv
<1> USE DEF VerdictInv, ConsumedIsExpiry, ConsumedWasAccepted, CheckedClaims
<1>ty. /\ now \in Nat /\ sweepNow \in Nat
       /\ \A c \in Claim : c.exp \in Nat /\ c.exp # Never /\ c.nonce \in Nonce
       /\ \A r \in Request : checked[r] \in Nat /\ claim[r] \in Claim
       /\ \A n \in Nonce : accepted[n] \in Nat /\ consumed[n] \in Nat
  BY TokenAssumption DEF TypeOK, Time, Claim, Expiry, Never
<1>1. CASE Tick
  BY <1>0, <1>1, <1>ty DEF Tick
<1>2. ASSUME NEW u \in User, Sign(u) PROVE VerdictInv'
  <2>1. /\ signed \subseteq signed'
        /\ UNCHANGED << now, consumed, sweepNow, pc, claim, checked, accepted >>
    BY <1>2 DEF Sign
  <2> QED
    BY <1>0, <2>1
<1>3. ASSUME NEW r \in Request, NEW c \in Claim, VerifyCheck(r, c) PROVE VerdictInv'
  <2>1. UNCHANGED << now, signed, consumed, sweepNow, accepted >>
    BY <1>3 DEF VerifyCheck
  <2>2. CheckedClaims'
    <3> SUFFICES ASSUME NEW q \in Request
                 PROVE  /\ pc'[q] \in {"store", "ok"} =>
                              claim'[q] \in signed' /\ checked'[q] < claim'[q].exp
                        /\ pc'[q] = "reused" => accepted'[claim'[q].nonce] > 0
                        /\ pc'[q] = "expired" => now' >= claim'[q].exp
      OBVIOUS
    <3>1. CASE q = r
      <4>1. /\ claim'[r] = c /\ checked'[r] = now
            /\ pc'[r] = IF c \notin signed THEN "bad signature"
                        ELSE IF Expired(c) THEN "expired" ELSE "store"
        BY <1>3 DEF VerifyCheck, TypeOK
      <4>2. CASE pc'[r] = "store"
        <5>1. c \in signed /\ ~Expired(c)
          BY <1>3, <4>2 DEF VerifyCheck, TypeOK
        <5>2. now < c.exp
          BY <5>1, <1>ty DEF Expired
        <5> QED
          BY <4>1, <4>2, <3>1, <2>1, <5>1, <5>2
      <4>3. CASE pc'[r] = "expired"
        <5>1. now >= c.exp
          BY <1>3, <4>3 DEF VerifyCheck, TypeOK, Expired
        <5> QED
          BY <4>1, <4>3, <3>1, <2>1, <5>1
      <4>4. CASE pc'[r] = "bad signature"
        BY <4>4, <3>1
      <4> QED
        BY <4>1, <4>2, <4>3, <4>4
    <3>2. CASE q # r
      BY <1>3, <3>2, <2>1 DEF VerifyCheck, TypeOK
    <3> QED
      BY <3>1, <3>2
  <2> QED
    BY <1>0, <2>1, <2>2
<1>4. ASSUME NEW r \in Request, VerifyStore(r) PROVE VerdictInv'
  <2> DEFINE n == claim[r].nonce
  <2>1. pc[r] = "store" /\ claim[r] \in signed /\ n \in Nonce
    BY <1>4, <1>ty DEF VerifyStore
  <2>2. UNCHANGED << now, signed, sweepNow, claim, checked >>
    BY <1>4 DEF VerifyStore
  <2>3. CASE consumed[n] # Never
    <3>1. UNCHANGED << consumed, accepted >> /\ pc' = [pc EXCEPT ![r] = "reused"]
      BY <1>4, <2>3 DEF VerifyStore
    <3>2. accepted[n] > 0
      BY <2>1, <2>3
    <3> QED
      BY <1>0, <2>1, <2>2, <3>1, <3>2 DEF TypeOK
  <2>4. CASE consumed[n] = Never
    <3>1. /\ pc' = [pc EXCEPT ![r] = "ok"]
          /\ consumed' = [consumed EXCEPT ![n] = claim[r].exp]
          /\ accepted' = [accepted EXCEPT ![n] = IF @ = 0 THEN 1 ELSE 2]
      BY <1>4, <2>4 DEF VerifyStore
    <3>2. /\ accepted'[n] > 0 /\ consumed'[n] = claim[r].exp
          /\ \A m \in Nonce : m # n => accepted'[m] = accepted[m] /\ consumed'[m] = consumed[m]
      BY <3>1, <2>1, <1>ty DEF TypeOK
    <3>3. CheckedClaims'
      BY <3>1, <3>2, <2>1, <2>2, <1>ty DEF TypeOK
    <3> QED
      BY <1>0, <3>2, <3>3, <2>1, <2>2
  <2> QED
    BY <2>3, <2>4
<1>5. ASSUME NEW r \in Request, Return(r) PROVE VerdictInv'
  BY <1>0, <1>5 DEF Return, TypeOK
<1>6. CASE SweepStart
  BY <1>0, <1>6 DEF SweepStart
<1>7. ASSUME NEW n \in Nonce, SweepDelete(n) PROVE VerdictInv'
  BY <1>0, <1>7 DEF SweepDelete, TypeOK
<1>8. CASE Restart
  BY <1>0, <1>8 DEF Restart
<1>9. CASE UNCHANGED vars
  BY <1>9, <1>0 DEF vars
<1>10. ASSUME NEW r \in Request, VerifyMalformed(r) PROVE VerdictInv'
  BY <1>0, <1>10 DEF VerifyMalformed, TypeOK
<1> QED
  BY <1>1, <1>2, <1>3, <1>4, <1>5, <1>6, <1>7, <1>8, <1>9, <1>10
  DEF Next, Verify, Sweep

\* However the clock, the sweeper, other verifiers and restarts come between
\* Verify's check and its store: it accepts only what was signed and in time,
\* and it uses up no nonce for anything else.
THEOREM VerdictsJust == Spec => []VerdictsAreJust
<1>1. Init => VerdictInv
  BY InitVerdictInv
<1>2. VerdictInv /\ [Next]_vars => VerdictInv'
  BY NextVerdictInv
<1>3. VerdictInv => VerdictsAreJust
  BY DEF VerdictInv, ConsumedIsExpiry, CheckedClaims, VerdictsAreJust
<1> QED
  BY <1>1, <1>2, <1>3, PTL DEF Spec
=============================================================================

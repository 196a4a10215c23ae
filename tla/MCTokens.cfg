SPECIFICATION FairSpec
CONSTANTS
    User = {u1}
    Nonce = {n1, n2}
    Request = {r1, r2}
    TTL = 2
    MaxStall = 1
    MaxTime = 4
    MaxSign = 1
INVARIANTS TypeOK OneShot RedeemedStaysConsumed VerdictsAreJust
PROPERTIES ConsumedIsSwept

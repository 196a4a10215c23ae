SPECIFICATION Spec
CONSTANTS
    Key = {k1, k2, k3, k4}
    Val = {v1, v2}
    Nothing = Nothing
    CacheCap = 2
    MaxUses = 7
SYMMETRY Symmetry
INVARIANTS ListAndMapAgree ServesLatestPut KeepsRecentlyUsed

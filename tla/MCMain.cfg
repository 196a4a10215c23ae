SPECIFICATION Spec
CONSTANTS
    ReqId = {i1, i2}
    NoId = NoId
    NoResponse = NoResponse
    Panic = Panic
    Sent <- MCSent
    Malformed = Malformed
    MaxSent = 3
    User = {u1, u2}
    NoHeader = NoHeader
    BadHeader = BadHeader
    Address = {a1}
    Conn = {c1, c2}
    Offered <- MCOffered
    NoCall = NoCall
    Anon = Anon
    NoKey = NoKey
    Env <- MCEnv
    Unset = Unset
    NotANumber = NotANumber
    DefaultMCPLimit = 2
    DefaultDownloadLimit = 1
CHECK_DEADLOCK FALSE
INVARIANTS TypeOK AnsweredInOrder ChargedToWhomItRunsAs
PROPERTIES LoopEnds

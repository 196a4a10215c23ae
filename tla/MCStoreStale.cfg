SPECIFICATION CrashFree
CONSTANTS
    User = {u1}
    Anon = Anon
    NoPath = {}
    HasShared = FALSE
    Request = {r1, r2}
    NoRequest = NoRequest
    torn = torn
    braces = braces
    full = full
    corpus = corpus
    Text <- MCText
    Torn = torn
    Doc <- MCDoc
    EmptyDoc = EmptyDoc
    ParseError = ParseError
    Parse <- MCParse
    Marshal <- MCMarshal
    TempName = {n1}
    NoTemp = NoTemp
    NoFile = NoFile
    NoVal = NoVal
    CacheCap = 2
INVARIANTS CacheInvalidated

SPECIFICATION HSpec
CONSTANTS
    User = {u1}
    Anon = Anon
    NoPath = {}
    HasShared = FALSE
    Request = {r1, r2}
    NoRequest = NoRequest
    torn = torn
    braces = braces
    full = full
    corpus = corpus
    Text <- MCText
    Torn = torn
    Doc <- MCDoc
    EmptyDoc = EmptyDoc
    ParseError = ParseError
    Parse <- MCParse
    Marshal <- MCMarshal
    TempName = {n1}
    NoTemp = NoTemp
    NoFile = NoFile
    NoVal = NoVal
    CacheCap = 1
SYMMETRY Symmetry
INVARIANTS TypeOK FilesWhole TempFileIsOwn OneWriterPerUser AckedWriteVisible StaleOnlyByRace
PROPERTIES ImplementsCorpusFile

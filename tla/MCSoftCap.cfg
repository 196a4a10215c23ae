SPECIFICATION Spec
CONSTANTS
    Text <- MCText
    Empty = ""
    Unnamed = "Nobody"
    Main = "main"
    Key <- MCKey
    NoParam = NoParam
    Has <- MCHas
    Under <- MCUnder
    AsciiLower <- MCAsciiLower
    Lower <- MCLower
    Opaque <- MCOpaque
    ParseError = ParseError
    Absent = Absent
    Null = Null
    Bad = Bad
    memo = memo
    File <- MCFile
    Query <- MCQuery
    Targets <- MCTargets
    Tokens = {0, 4, 8, 16}
    DefaultTokens = 3
    IntMax = 31
    HeadSize = 4
    ProfileSize = 5
    NoCall = NoCall
    NoIndex = NoIndex
INVARIANTS SoftCap

SPECIFICATION Spec
CONSTANTS
    User = {u1, u2}
    Anon = Anon
    Content = {c1, c2, bad}
    Export = {c1, c2}
    Token = {t1, t2}
    Request = {r1, r2}
    NoCorpus = NoCorpus
    NoToken = NoToken
    NoContent = NoContent
SYMMETRY Symmetry
INVARIANTS TypeOK LinkHasData DownloadIsOwnAndOnce ImportReportIsOwn
PROPERTIES KeepsWhenUndisturbed

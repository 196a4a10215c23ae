SPECIFICATION Spec
CONSTANTS
    User = {u1}
    Anon = Anon
    Content = {c1, c2, bad}
    Export = {c1, c2}
    Token = {t1}
    Request = {r1, r2}
    NoCorpus = NoCorpus
    NoToken = NoToken
    NoContent = NoContent
PROPERTIES KeepsUnlessOverwrite

SPECIFICATION FairSpec
CONSTANTS
    Handlers = {h1, h2, h3, h4}
    Paths = {k1, k2}
    Nil = Nil
INVARIANTS
    TypeOK
    SameStream
    CountsUsers
PROPERTIES
    AllLeave

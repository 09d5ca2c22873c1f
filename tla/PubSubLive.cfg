SPECIFICATION FairSpec
CONSTANTS
    Pubs = {p1, p2}
    Subs = {s1}
    Nil = Nil
    Hdrs = {}
    None = None
    Media <- VideoOnly
    MaxReads = 2
PROPERTIES
    CatchesUp
    ClosedSubLeaves

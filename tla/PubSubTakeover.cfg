SPECIFICATION Spec
CONSTANTS
    Pubs = {p1, p2, p3}
    Subs = {s1, s2}
    Nil = Nil
    Hdrs = {}
    None = None
    Media <- VideoOnly
    MaxReads = 3
CONSTRAINT Scenario
SYMMETRY Symmetry
INVARIANTS
    TypeOK
    NoLostWakeup
    ReplacedPubStops
PROPERTIES
    FeedSpec

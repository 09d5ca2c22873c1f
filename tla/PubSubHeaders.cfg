SPECIFICATION Spec
CONSTANTS
    Pubs = {p1, p2}
    Subs = {s1}
    Nil = Nil
    Hdrs = {h1, h2}
    None = None
    Media <- AllMedia
    MaxReads = 3
SYMMETRY Symmetry
PROPERTIES
    ConfigInForce

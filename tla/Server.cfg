SPECIFICATION ServerSpec
CONSTANTS
    Handlers = {h1, h2, h3}
    Urls <- MCUrls
    Paths <- MCPaths
    Nil = Nil
    MaxPkts = 1
SYMMETRY Symmetry
INVARIANTS
    NothingFromThePast
    OnePublisher

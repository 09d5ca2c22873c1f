SPECIFICATION Spec
CONSTANTS
    NetCap = 2
    BufCap = 1
    MaxPkts = 1
    Refusals = {TRUE, FALSE}
INVARIANTS
    RefusedFails

SPECIFICATION Spec
CONSTANTS
    Ext = 3
    TimeMod = 8
    AckMod = 12
    AckSize = 5
    ChunkSize = 1
    MaxCsid = 2
    MaxMsgSize = 3
    Csids = {2, 4, 6}
    Times = {6}
    Lens = {3, 4}
    Sizes = {2}
    Parts <- TwoParts
    Rude = TRUE
    MaxMsgs = 3
INVARIANTS
    Reassembled
    RefusesOnlyRude
    PingsAnswered
PROPERTIES
    AckInTime
CONSTRAINT Reading

SPECIFICATION Spec
CONSTANTS
    Ext = 3
    TimeMod = 8
    AckMod = 12
    AckSize = 5
    ChunkSize = 1
    MaxCsid = 2
    MaxMsgSize = 2
    Csids = {4, 6}
    Times = {1, 2, 6}
    Lens = {0, 2, 3}
    Sizes = {}
    Parts <- NoParts
    Rude = FALSE
    MaxMsgs = 3
INVARIANTS
    Reassembled
    InStep
    Complete

SPECIFICATION Spec
CONSTANTS
    Ext = 3
    TimeMod = 8
    AckMod = 12
    AckSize = 5
    ChunkSize = 1
    MaxCsid = 3
    MaxMsgSize = 3
    Csids = {4, 6}
    Times = {1, 3, 5}
    Lens = {0, 1, 3, 4}
    TagHdrs = {0, 1}
    Sizes = {2}
    MaxMsgs = 3
INVARIANTS
    TypeOK
    InStep
    Reassembled
    Complete

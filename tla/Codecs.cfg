SPECIFICATION CodecsSpec
CONSTANTS
    ByteMod = 4
    ByteBits = 8
    Word = 24
    Nil = Nil
    ConfigSets <- MCConfigSets
    FrameUnits <- MCFrameUnits
    Buffers <- MCBuffers
    UnitLists <- MCUnitLists
    SPSs <- MCSPSs
    SetLists <- MCSetLists
    AudioConfigs <- MCAudioConfigs
    Payloads <- MCPayloads
    Vals <- MCVals
    ValLists <- MCValLists
    FieldGroups <- MCFieldGroups
    Tails <- MCTails
    Codes <- MCCodes
    Ints <- MCInts
    Offsets <- MCOffsets
    Vectors <- MCVectors
INVARIANTS
    NALUsSurvive
    ConfigsSurvive
    ValuesSurvive
    FieldsSurvive

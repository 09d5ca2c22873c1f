SPECIFICATION Spec
CONSTANTS
    LoMod = 4
    HiMod = 2
    CTimeMod = 4
    Packets <- MCPackets
    Foreign <- MCForeign
    MaxTags = 5
    MaxOthers = 2
INVARIANTS
    TypeOK
    Demuxed
    SkipsTwoGops

    

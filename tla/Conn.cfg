SPECIFICATION FairSpec
CONSTANTS
    NetCap = 2
    BufCap = 1
    MaxPkts = 5
    Refusals = {TRUE, FALSE}
INVARIANTS
    TypeOK
    PreparedAgree
    DropsOnlyAcks
PROPERTIES
    InOrder
    RequestArrives
    AnswerArrives
    Delivers
    HangUpNoticed

SPECIFICATION FairSpec
CONSTANTS
    Workers = {w1, w2}
    Clis = {p1, p2}
    Keys = {k1}
    Notices = {n1, n2}
    EvidenceKeys = {e1}
    EvidenceKey <- MCEvidenceKey
    w1 = w1
    w2 = w2
    p1 = p1
    p2 = p2
    k1 = k1
    n1 = n1
    n2 = n2
    e1 = e1
    Nothing = Nothing
    Senders <- MCSenders
    Texts <- MCTexts
    Messages <- MCMessages
    Kind <- MCKind
    MaxAttempts = 2
    MaxDeliveries = 2
    MaxWork = 3
INVARIANTS
    RepliesAreTruthful
    ConfirmedByOneHandler
    LossIsCounted
    NotifiedOnce
    CardsAreBacked
PROPERTIES
    EveryEventEnds
CHECK_DEADLOCK FALSE

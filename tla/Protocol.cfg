SPECIFICATION Spec

CONSTANTS
    PacketSize = 2
    LargeSize = 5
    SecretLimit = 2
    Secrets <- AllSecrets
    Programs <- SomePrograms
    MaxChunks = 2
    OthersStop = TRUE

INVARIANTS
    OnlyAuthorised
    CutOffForReason

PROPERTIES
    ExchangesMessages
    ConnectionsEnd

CHECK_DEADLOCK FALSE

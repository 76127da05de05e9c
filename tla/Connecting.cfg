\* Two clients ask a server of one or two slots; a first request is sent twice at most.
SPECIFICATION PeerSpec
CONSTANTS
    Guids = {g1, g2}
    Sizes = {1, 2}
    sendConnectionAttemptCount = 1
INVARIANT PeerTypeOK
INVARIANT OneSlotPerClient
INVARIANT NeverAlreadyConnected
PROPERTY BansFollowDrops
PROPERTY ImplementsConnections
PROPERTY EveryAttemptIsAnswered
PROPERTY HalfOpenSlotsAreFreed

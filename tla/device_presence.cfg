SPECIFICATION FairSpec
CONSTANTS
    Conns = {c1, c2}
    None = None
INVARIANT TypeOK
INVARIANT SlotHeldByLiveHandler
INVARIANT AtMostOneStray
PROPERTY CleanupSparesSuccessor
PROPERTY GoneGoesOffline
PROPERTY OpenReachesDevice
CHECK_DEADLOCK FALSE

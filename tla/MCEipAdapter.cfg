\* Three peers for two slots, two sessions a socket, five handles in all.
CONSTANTS
    s1 = s1
    s2 = s2
    s3 = s3
    Socket <- MCSocket
    MaxConnections = 2
    MaxSessions = 2
    MaxHandle = 5
SPECIFICATION FairSpec
INVARIANTS
    TypeOK
    SlotAccounting
    SessionsOwned
    CurrentOwned
    InFlightValid
    PoolBounded
PROPERTIES
    SilentReaderReleased
    RejectedReleased

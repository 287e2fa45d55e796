SPECIFICATION FairSpec
CONSTANTS
    l1 = l1
    l2 = l2
    s1 = s1
    s2 = s2
    Lidar <- MCLidar
    Setting <- MCSetting
    Listed <- MCListed
    Wanted <- MCWanted
    Packet <- MCPacket
    Size = 2
    Laps = 2
    NoPacket = 0
    HalfPacket = 99
    NoLidar = NoLidar
    MaxChanges = 2
    MaxTimeouts = 1
INVARIANTS TypeOK SlotsApart SamplingConfigured
PROPERTIES QueuesAreFifos StoredPublished PacketEndsThread ConfiguredSamples
CHECK_DEADLOCK FALSE

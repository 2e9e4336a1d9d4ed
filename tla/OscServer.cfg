\* Three other datagrams, of every kind, between the bridge's polls.
SPECIFICATION FairSpec
CONSTANTS
    tablet = tablet
    mac = mac
    Radix = 4
    Undecodable = 130
    Host = {tablet}
    BridgeHost = mac
    Handlers <- SomeHandlers
    Requests <- SomeRequests
    Poll <- GetCues
    Noise <- SomeNoise
    MaxSent = 3
    MaxWaiting = 3
CHECK_DEADLOCK FALSE
PROPERTIES
    InboxSpec
    AllRead
    ReportsReturn

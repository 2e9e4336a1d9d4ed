\* Every kind of device, three sockets, two installs; no symmetry, since liveness is
\* checked.
SPECIFICATION FairSpec
CONSTANTS
    s1 = s1
    s2 = s2
    s3 = s3
    x = x
    y = y
    r1 = r1
    r2 = r2
    Socket = {s1, s2, s3}
    ClientId = {x, y}
    RequestId = {r1, r2}
    NoSocket = NoSocket
    NoClientId = NoClientId
    NoRequestId = NoRequestId
    Hello <- AnyHello
    RECLAIM_GRACE = 1
    REQUEST_TIMEOUT = 2
INVARIANTS
    TypeOK
    RolesConsistent
    HoldOwnerAbsent
    TimersMatchPromises
    HeldRequestOutlivesHold
PROPERTIES
    SlotSpec
    NoSilentPromotion
    SlotHeldForOwner
    HeldRequestHonoured
    RequestSettled
    ControlReturns

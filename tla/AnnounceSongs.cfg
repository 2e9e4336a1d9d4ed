\* At most one stalled socket.
SPECIFICATION LoopSpec
CONSTANTS
    s1 = s1
    s2 = s2
    s3 = s3
    x = x
    y = y
    r1 = r1
    r2 = r2
    Socket = {s1, s2, s3}
    ClientId = {x, y}
    RequestId = {r1, r2}
    NoSocket = NoSocket
    NoClientId = NoClientId
    NoRequestId = NoRequestId
    Hello <- HandoffHello
    RECLAIM_GRACE = 1
    REQUEST_TIMEOUT = 2
    MaxEvents = 6
    MaxStalled = 1
SYMMETRY Symmetry
CHECK_DEADLOCK FALSE
INVARIANTS
    SongsTold

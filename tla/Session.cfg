\* A host and two tabs of one guest.
SPECIFICATION Spec
CONSTANTS
    h1 = h1
    c1 = c1
    c2 = c2
    host = host
    guest = guest
    HostConns <- MCHosts
    GuestConns <- MCGuestConns
    Ids <- MCIds
    OwnerOf <- MCOwnerOf
    Targets <- MCTargets
    Rooms = {r1, r2}
    NoRoom = NoRoom
    MaxQueue = 1
SYMMETRY Symmetry
INVARIANTS
    TypeOK
    PresenceExact
    BarredStaysOut
    KickReachesAll
PROPERTIES
    OccupiedRoomStays
    MutedUntilUnmuted
CHECK_DEADLOCK FALSE

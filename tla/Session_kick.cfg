\* A kick while another tab of the same guest is in its handshake.
SPECIFICATION Spec
CONSTANTS
    h1 = h1
    c1 = c1
    c2 = c2
    host = host
    guest = guest
    HostConns <- MCHosts
    GuestConns <- MCGuestConns
    Ids <- MCIds
    OwnerOf <- MCOwnerOf
    Targets <- MCTargets
    Rooms = {r1, r2}
    NoRoom = NoRoom
    MaxQueue = 1
SYMMETRY Symmetry
INVARIANTS
    KickIsFinal
CHECK_DEADLOCK FALSE

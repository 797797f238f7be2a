SPECIFICATION Spec
CONSTANTS
    alice = alice
    bob = bob
    a = a
    b = b
    c = c
    x = x
    p1 = p1
    p2 = p2
    Unborn = Unborn
    Gone = Gone
    NoRequest = NoRequest
    Users = {alice, bob}
    Handlers = {h1, h2, h3}
    Tracks = {a, b, x}
    Playlists = {p1, p2}
    MaxPosition = 3
    TrackOwner <- MCTrackOwner
    InitOwner <- MCInitOwner
    InitOrder <- MCInitTwo
    Requests <- MembershipRequests
SYMMETRY Interchangeable
INVARIANTS
    TypeOK
    LockProtocol
    OwnedMembership
PROPERTY RefinesMembership

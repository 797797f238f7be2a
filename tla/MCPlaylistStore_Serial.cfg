SPECIFICATION Spec
CONSTANTS
    alice = alice
    bob = bob
    a = a
    b = b
    c = c
    x = x
    p1 = p1
    p2 = p2
    Unborn = Unborn
    Gone = Gone
    NoRequest = NoRequest
    Users = {alice, bob}
    Handlers = {h1}
    Tracks = {a, b, c}
    Playlists = {p1}
    MaxPosition = 4
    TrackOwner <- MCTrackOwner
    InitOwner <- MCInitOwner
    InitOrder <- MCInitThree
    Requests <- SerialRequests
PROPERTY RefinesOrder

SPECIFICATION ClientSpec
CONSTANTS
    me = me
    other = other
    short = short
    long = long
    a = a
    b = b
    c = c
    first = first
    second = second
    Parts = {"upload"}
    Users = {me}
    Me = me
    Uploads <- MCNames
    LibraryUploads <- MCUploads
    Queries = {short, long}
    Containing <- MCContaining
    Limit = 1
    PickedFiles <- MCNumberedFiles
    Ids = {1, 2}
    Unknown <- MCUnknown
    Half = 8
    Unreadable = Unreadable
    Malformed = Malformed
    Null = Null
    LibraryUsers = {me, other}
    LibraryIds = {1, 2, 3}
    Texts <- MCTexts
    Numbers = {3}
    MaxFocus = 3
    MaxBatch = 2
    MaxChanges = 3
    MaxBatches = 2
    MaxEdits = 1
    Queues <- MCQueues
    PlaylistTracks <- MCTracks
    NoTrack = NoTrack
    Calls <- MCCalls
    MaxPresses = 4
    MaxFrames = 3
INVARIANT ReadsFileNames
CHECK_DEADLOCK FALSE

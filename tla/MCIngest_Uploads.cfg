SPECIFICATION FairSpec
CONSTANTS
    unlucky = unlucky
    failing = failing
    plain = plain
    Uploads = {unlucky, failing, plain}
    Crashes = TRUE
    Bodies <- MCBodies
    HasArtwork <- MCHasArtwork
    Faults <- MCFaults
INVARIANTS
    Consistent
    CreatedIsPlayable
    FailedLeavesNothing
PROPERTIES
    SavedUploadsEnd
    ShutdownEnds

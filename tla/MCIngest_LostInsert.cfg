SPECIFICATION Spec
CONSTANTS
    unlucky = unlucky
    failing = failing
    plain = plain
    Uploads = {unlucky}
    Crashes = FALSE
    Bodies <- MCBodies
    HasArtwork <- MCHasArtwork
    Faults <- MCFaults
INVARIANT LibraryConsistent

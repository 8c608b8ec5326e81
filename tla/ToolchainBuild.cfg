SPECIFICATION FairSpec
CONSTANTS
    Variants <- MCVariants
    Threaded <- MCThreaded
    MaxRev = 2
    MaxFaults = 1
INVARIANTS BuiltVariantsAreWhole OnlyCutMovesLeavePartialArtifacts AssembledSurfaceIsCurrent ReleasesAreOfOneRevision
PROPERTY EventuallyReleased

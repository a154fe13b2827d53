CONSTANTS
    Names = {1, 2}
    Numbers = {1, 2, 3}
    Platforms = {1, 2}
    Ruby = 2
    Prerelease = {2}
    Alike = {}
    MaxSpecs = 4
    MaxDependencies = 2
    Encoded <- Bounds
    Lengths <- LengthsAtBounds
SPECIFICATION Spec
INVARIANTS
    FindsNothingElse
    FindsTheLastOfAName
    MergeIsLatest
    IntsAreRead
    SpecsAreRead
    TornIsRefused
    ClientsReadLists
    DependenciesAreRead
CHECK_DEADLOCK FALSE

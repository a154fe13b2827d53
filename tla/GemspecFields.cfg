CONSTANTS
    Names = {1}
    Numbers = {1}
    Platforms = {1}
    Ruby = 1
    Prerelease = {}
    Alike = {}
    MaxSpecs = 1
    MaxDependencies = 1
    Encoded <- Bounds
    Lengths <- LengthsAtBounds
SPECIFICATION Spec
INVARIANT EveryFieldIsCounted
CHECK_DEADLOCK FALSE

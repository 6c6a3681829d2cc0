\* Histories of any length, two versions of each tree, one failure or interruption.
CONSTANTS
    Options <- Usual
    MaxVersion = 2
    MaxFails = 1
SPECIFICATION Spec
INVARIANTS FullBuildComplete PartsFresh UpdateOfImagesBeside

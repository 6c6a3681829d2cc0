\* Every short list given by hand, and the list of every board configuration.
CONSTANTS
    Bases <- MCBases
    StartOffset = 8192
    Lists <- MCLists
    Boards <- MCBoards
SPECIFICATION Spec
INVARIANTS TypeOK NoOverlap NoGap RoundTrip BoardTable
\* The generator ends.
CHECK_DEADLOCK FALSE

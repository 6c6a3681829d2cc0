\* All small sparse images, with an alignment unit of three blocks.
CONSTANTS
    Align = 3
    Inputs <- MCInputs
SPECIFICATION FairSpec
INVARIANTS TypeOK Faithful Accounting Aligned NeverMoreChunks Complete
PROPERTY Terminates
CHECK_DEADLOCK FALSE

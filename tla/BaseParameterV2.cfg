\* Two runs of the tool over two connectors, with one failing call.
CONSTANTS
    p1 = p1
    p2 = p2
    none = none
    hdmi = hdmi
    high = high
    preset = preset
    junk = junk
    v1 = v1
    v2 = v2
    unfilled = unfilled
    Procs = {p1, p2}
    Connector = {none, hdmi}
    NoConnector = none
    Value <- MCValue
    HighSubsampling = high
    Zero = high
    Commands <- MCCommands
    Factory <- MCFactory
    Memory <- MCMemory
    Unfilled = unfilled
    MaxRuns = 2
    MaxErrors = 1
SPECIFICATION Spec
SYMMETRY Symmetry
CHECK_DEADLOCK FALSE
INVARIANTS TypeOK BcshPrefix OthersKept NothingInvented ResetStays NoneUndone
PROPERTY ImplementsStore

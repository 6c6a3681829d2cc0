\* Two runs that overlap, a failing system call, a kill and a power loss.
CONSTANTS
    p1 = p1
    p2 = p2
    zero = zero
    high = high
    preset0 = preset0
    preset1 = preset1
    lut0 = lut0
    lut1 = lut1
    v1 = v1
    v2 = v2
    Procs = {p1, p2}
    Value <- MCValue
    Zero = zero
    HighSubsampling = high
    Commands <- ConcurrentCommands
    Factory <- MCFactory
    DispSize = 2
    BaseOffset = 3
    HalfSize = 5
    MaxRuns = 2
    MaxErrors = 1
    MaxCrashes = 1
    MaxKills = 1
SPECIFICATION Spec
CHECK_DEADLOCK FALSE
INVARIANTS TypeOK BackupPristine LastWriterWins GivenOrPreset

\* Settings for display 1 are not read back.
CONSTANTS
    p1 = p1
    p2 = p2
    zero = zero
    high = high
    preset0 = preset0
    preset1 = preset1
    lut0 = lut0
    lut1 = lut1
    v1 = v1
    v2 = v2
    Procs = {p1}
    Value <- MCValue
    Zero = zero
    HighSubsampling = high
    Commands <- SecondDisplay
    Factory <- MCFactory
    DispSize = 2
    BaseOffset = 3
    HalfSize = 5
    MaxRuns = 1
    MaxErrors = 0
    MaxCrashes = 0
    MaxKills = 0
SPECIFICATION Spec
CHECK_DEADLOCK FALSE
INVARIANT ReadBack

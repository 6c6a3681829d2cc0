------------------------- MODULE MCBaseParameterV1 -------------------------
(***************************************************************************)
(* Instances of BaseParameterV1 for TLC.                                   *)
(***************************************************************************)
EXTENDS BaseParameterV1, TLC

CONSTANTS p1, p2, zero, high, preset0, preset1, lut0, lut1, v1, v2

MCValue == {zero, high, preset0, preset1, lut0, lut1, v1, v2}

Filled(v, flags) ==
    [resolution |-> v, format |-> v, feature |-> flags,
     scan |-> v, hwc |-> v, bcsh |-> v]

\* Both displays preset: settings and table of display 0, the gap before
\* BASE_OFFSET, settings and table of display 1.
MCFactory ==
    0 :> Filled(preset0, Flag) @@ 1 :> Filled(lut0, {}) @@ 2 :> Blank
        @@ 3 :> Filled(preset1, {}) @@ 4 :> Filled(lut1, {})

With(changes) == [o \in DOMAIN NoCommand |->
                     IF o \in DOMAIN changes THEN changes[o] ELSE NoCommand[o]]

\* One run after another: every option, the combinations main() orders, and
\* the other display.  -R never goes with -u here: see ResetThenResolution.
SequentialCommands ==
    {With([bcsh |-> v1]),
     With([bcsh |-> v2, dpy |-> 1]),
     With([scan |-> v1, color |-> "Auto", res |-> "auto"]),
     With([fb |-> Short, color |-> v2]),
     With([reset |-> TRUE]),
     With([reset |-> TRUE, backup |-> TRUE]),
     With([backup |-> TRUE, res |-> v1])}

\* Runs that overlap.
ConcurrentCommands ==
    {With([bcsh |-> v1, scan |-> v1]),
     With([bcsh |-> v2, res |-> v2]),
     With([fb |-> v1, color |-> "Auto", dpy |-> 1]),
     With([reset |-> TRUE]),
     With([backup |-> TRUE])}

\* The second display alone.
SecondDisplay == {With([bcsh |-> v1, dpy |-> 1])}

\* A setting, then a reset that also sets the resolution.
ResetThenResolution ==
    {With([bcsh |-> v1]), With([reset |-> TRUE, res |-> "auto"])}
=============================================================================

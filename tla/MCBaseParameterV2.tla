------------------------- MODULE MCBaseParameterV2 -------------------------
(***************************************************************************)
(* Instance of BaseParameterV2 for TLC.                                    *)
(***************************************************************************)
EXTENDS BaseParameterV2, TLC

CONSTANTS p1, p2, none, hdmi, high, preset, junk, v1, v2, unfilled

MCValue == {high, preset, junk, v1, v2}

MCFactory ==
    [k \in {none, hdmi} |->
        [brightness |-> preset, contrast |-> preset, saturation |-> preset,
         hue |-> preset, scan |-> preset, fb |-> preset, format |-> preset,
         resolution |-> preset, feature |-> IF k = hdmi THEN Flag ELSE {}]]

\* A record that nobody has ever stored.
MCMemory ==
    {[brightness |-> junk, contrast |-> junk, saturation |-> junk, hue |-> junk,
      scan |-> junk, fb |-> junk, format |-> junk, resolution |-> junk,
      feature |-> {}]}

With(changes) == [o \in DOMAIN NoCommand |->
                     IF o \in DOMAIN changes THEN changes[o] ELSE NoCommand[o]]

\* Runs that set the same groups of one connector; one that may meet them
\* there, its id not being given; a reset; and a backup without -C.
MCCommands ==
    {With([connector |-> hdmi, color |-> v1, res |-> v1]),
     With([connector |-> hdmi, scan |-> v2, color |-> v2, res |-> v2]),
     With([connector |-> Short, fb |-> v1, color |-> "Auto", res |-> "auto"]),
     With([connector |-> hdmi, reset |-> TRUE, res |-> v2]),
     With([bcsh |-> v2, backup |-> TRUE])}

Symmetry == Permutations({p1, p2})
=============================================================================

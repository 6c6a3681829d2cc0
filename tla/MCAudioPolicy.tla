--------------------------- MODULE MCAudioPolicy ---------------------------
(***************************************************************************)
(* Instance of AudioPolicy for TLC: both bitstream devices, an input, an   *)
(* address the settings use and one the audio service uses.                *)
(***************************************************************************)
EXTENDS AudioPolicy
CONSTANTS service, preferred

MCOutput == {Hdmi, Spdif}
MCInput == {"BUILTIN_MIC"}
=============================================================================

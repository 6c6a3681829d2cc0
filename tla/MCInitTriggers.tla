--------------------------- MODULE MCInitTriggers ---------------------------
(***************************************************************************)
(* Instance of InitTriggers for TLC: paths are strings, as property values;*)
(* two requests and a change of a setting, or four changes.                *)
(***************************************************************************)
EXTENDS InitTriggers

MCPath == {"/data/img", "/dev/block"}

MCBounds == {<<2, 1>>, <<0, 4>>}
=============================================================================

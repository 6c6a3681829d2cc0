---------------------------- MODULE MCImageBuild ----------------------------
(***************************************************************************)
(* Instance of ImageBuild for TLC: whole builds, each part alone, with an  *)
(* OTA package and with update.img.                                        *)
(***************************************************************************)
EXTENDS ImageBuild, TLC

Usual == {{"U", "K", "A", "u"}, {"U", "K", "A", "o", "u"}, {"U", "u"},
          {"K"}, {"K", "A"}, {"K", "o", "u"}, {"A", "o"}, {}}
=============================================================================

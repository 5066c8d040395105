---------------------------- MODULE MCAssetSync -----------------------------
(***************************************************************************)
(* Two syncs of one set that Apple caps at two assets.  The files a and b  *)
(* were exported again as a2 with the name and size of a.                  *)
(***************************************************************************)
EXTENDS AssetSync

CONSTANTS s1, s2, a, a2, b

MCLook == [f \in {a, a2, b} |-> IF f = b THEN "b" ELSE "a"]
MCExports == {<<a2>>, <<b, a>>}
MCPages == {<<>>, <<a>>, <<a, b>>}
=============================================================================

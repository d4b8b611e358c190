--------------------------- MODULE MCConfigReload ---------------------------
(* Small instances of ConfigReload: a patch, a second patch or key update,  *)
(* two edits by hand, one crash.                                            *)
EXTENDS ConfigReload

CONSTANTS p1, p2, k1

OnePatch == {p1}
TwoPatches == {p1, p2}
OneKey == {k1}
NoKeys == {}
=============================================================================

--------------------------- MODULE MCArenaBrowser ---------------------------
(* Two scenarios, one edit of one fixture, and one request of the buttons   *)
(* beside the demo's own: enough for an old answer of either kind to arrive *)
(* after a newer candidate, and for one check to overtake another.          *)
EXTENDS ArenaBrowser, TLC

CONSTANTS tenant, path, c1
=============================================================================

--------------------------- MODULE MCCompactIndex ----------------------------
(***************************************************************************)
(* Instances of CompactIndex for TLC.                                      *)
(***************************************************************************)
EXTENDS CompactIndex

CONSTANTS u1, u2, y1, y2, b1
=============================================================================

--------------------------- MODULE MCMirrorCache ----------------------------
(***************************************************************************)
(* Instances of MirrorCache for TLC.                                       *)
(***************************************************************************)
EXTENDS MirrorCache, TLC

CONSTANTS g1, g2, g3, s1, s2

\* Requests for the gem are interchangeable: no action and no property of
\* the runs that use this names one.
Interchangeable == Permutations(GemRequests)
=============================================================================

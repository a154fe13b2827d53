-------------------------- MODULE MCGemRepository ---------------------------
(***************************************************************************)
(* Instances of GemRepository for TLC.                                     *)
(***************************************************************************)
EXTENDS GemRepositoryInvariants, TLC

CONSTANTS u1, u2, u3, y1, y2, b1, b2

\* Requests of one kind are interchangeable: no action and no property of
\* the runs that use this names one.
Interchangeable == Permutations(Uploads) \cup Permutations(Yanks)

\* foo 11.0 and foo1 1.0: the names' ranks are 1 and 2, the numbers' 3 and 1.
TwoAlike ==
    LET a == [name |-> 1, number |-> 3, platform |-> Ruby]
        b == [name |-> 2, number |-> 1, platform |-> Ruby]
    IN {<<a, b>>, <<b, a>>}
=============================================================================

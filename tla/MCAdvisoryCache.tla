-------------------------- MODULE MCAdvisoryCache ---------------------------
(***************************************************************************)
(* Instances of AdvisoryCache for TLC.                                     *)
(***************************************************************************)
EXTENDS AdvisoryCache, TLC

CONSTANTS a, b, v1, v2, bad, r1

\* Two advisories of one gem, of which the second is patched earlier and is
\* worse, and one of another gem, with a score of the old kind only.
ThreeFiles ==
    << [gem |-> a, v3 |-> 65, v2 |-> 0, patched |-> {}, unaffected |-> {v1}],
       [gem |-> a, v3 |-> 98, v2 |-> 0, patched |-> {v2}, unaffected |-> {}],
       [gem |-> b, v3 |-> 0, v2 |-> 75, patched |-> {v2}, unaffected |-> {}] >>

\* The check with a low and with a high maximum, and the two kinds of filter.
ConfigChoices ==
    { [enabled |-> TRUE, filter |-> "off", maxSeverity |-> "medium"],
      [enabled |-> TRUE, filter |-> "deny", maxSeverity |-> "low"],
      [enabled |-> TRUE, filter |-> "off", maxSeverity |-> "high"],
      [enabled |-> FALSE, filter |-> "allow", maxSeverity |-> "high"] }

MatchedFiles == {[gem |-> b, number |-> v1, platform |-> FALSE]}
=============================================================================

------------------------------ MODULE SpecList ------------------------------
(***************************************************************************)
(* Gem specs and the pure functions of internal/spec/spec.go over them.    *)
(*                                                                         *)
(* A spec is reduced to what the server keys its indexes by: the name, the *)
(* version number and the platform.  Each is a natural number standing for *)
(* the RANK of the string in byte order, because the code compares the     *)
(* strings themselves (spec.go:334 and 358, indexer.go:363): a number that *)
(* is "greater" here is the one Go's < calls greater.                      *)
(***************************************************************************)
EXTENDS Integers, Sequences, FiniteSets

CONSTANTS Names,        \* ranks of the gem names
          Numbers,      \* ranks of the version strings
          Platforms,    \* ranks of the platform strings in the walk's order
          Ruby,         \* the platform "ruby"
          Prerelease,   \* the numbers whose version string holds a letter
          Alike         \* pairs of gems of which name, version and platform
                        \* run together to one string: foo 11.0 and foo1 1.0

\* "a-1-java.gem" is walked before "a-1.gem" ('-' < '.'), so the file of the
\* ruby platform, which has no suffix, comes after every other platform's.
ASSUME SpecListAssumption ==
    /\ Names \subseteq Nat /\ Names # {}
    /\ Numbers \subseteq Nat /\ Numbers # {}
    /\ Platforms \subseteq Nat
    /\ Ruby \in Platforms
    /\ \A p \in Platforms : p <= Ruby
    /\ Prerelease \subseteq Numbers

Gem == [name : Names, number : Numbers, platform : Platforms]

\* Running together to one string is an equivalence.
ASSUME AlikeAssumption ==
    \A p \in Alike :
        /\ p \in Gem \X Gem /\ p[1] # p[2]
        /\ <<p[2], p[1]>> \in Alike
        /\ \A q \in Alike :
              p[2] = q[1] /\ p[1] # q[2] => <<p[1], q[2]>> \in Alike

\* The code takes g and h for one where it compares the strings run together.
SameId(g, h) == g = h \/ <<g, h>> \in Alike

\* No other gem, of any name or of this one, is taken for this one.
Unlike(g) == \A h \in Gem : SameId(g, h) => h = g
UnlikeVersion(g) == \A h \in Gem : SameId(g, h) /\ h.name = g.name => h = g

\* The gem that a file name without platform suffix stands for.
RubyVariant(g) == [g EXCEPT !.platform = Ruby]

(* The order in which filepath.WalkDir lists the gem files of a namespace, *)
(* for versions of which none is a prefix of another ("1" and "1.1"), and  *)
(* names of which none is another with a dash and a digit ("a" and "a-1b"). *)
Before(g, h) ==
    \/ g.name < h.name
    \/ g.name = h.name /\ g.number < h.number
    \/ g.name = h.name /\ g.number = h.number /\ g.platform < h.platform

(* The specs of a set of gem files, in the order gemList returns them. *)
WalkOrder(S) ==
    CHOOSE list \in [1 .. Cardinality(S) -> S] :
        \A i, j \in DOMAIN list : i < j => Before(list[i], list[j])

-----------------------------------------------------------------------------
(* PartitionSpecs: prereleases, releases, and per name the release with    *)
(* the greatest version string.  A later spec replaces an earlier one only *)
(* when strictly greater, so of equal versions the first one walked stays. *)
PrereleasesOf(S) == {g \in S : g.number \in Prerelease}
ReleasesOf(S) == {g \in S : g.number \notin Prerelease}
LatestOf(S) ==
    {g \in ReleasesOf(S) :
        \A h \in ReleasesOf(S) : h.name = g.name =>
            h.number < g.number \/ (h.number = g.number /\ ~Before(h, g))}

\* The names and numbers of a set of specs.
VersionsIn(S) == {<<g.name, g.number>> : g \in S}

(* updateSpecsIndex on the other two indexes: of the entries with the same  *)
(* name, version and platform run together the first stays.  Those on file  *)
(* come first, and where two of them are alike the list is one of a walk:   *)
(* this function writes no such list.                                       *)
MergeSpecs(old, new) ==
    {g \in old : \A h \in old : SameId(g, h) => ~Before(h, g)}
    \cup {h \in new : \A g \in old : ~SameId(h, g)}

\* Mutant of MergeLatest: the version uploaded last replaces the other.
MergeLatestLast(old, new) ==
    {g \in old : \A h \in new : h.name # g.name} \cup new

(* updateSpecsIndex on the latest index: the entry on file is replaced only *)
(* by a strictly greater version of the same name.                          *)
MergeLatest(old, new) ==
    {g \in old : \A h \in new : h.name = g.name => ~(g.number < h.number)}
    \cup {h \in new : \A g \in old : g.name = h.name => g.number < h.number}

-----------------------------------------------------------------------------
(* The parts of a list, from and to an index, that the search may be in.   *)
Part(specs) == (0 .. Len(specs)) \X (-1 .. Len(specs) - 1)

\* Mutant of NameIndex: the loop ends when one spec is left.
NameIndexEarly(specs, name) ==
    LET search[part \in Part(specs)] ==
            LET l == part[1]
                h == part[2]
                mid == (l + h) \div 2
            IN  IF l >= h THEN -1
                ELSE IF specs[mid + 1].name = name THEN mid
                ELSE IF specs[mid + 1].name < name THEN search[<<mid + 1, h>>]
                ELSE search[<<l, mid - 1>>]
    IN  search[<<0, Len(specs) - 1>>]

(* The binary search of FindIndexOf: an index (from 0, as in the code) of  *)
(* SOME spec with the name, or -1.                                         *)
NameIndex(specs, name) ==
    LET search[part \in Part(specs)] ==
            LET l == part[1]
                h == part[2]
                mid == (l + h) \div 2
            IN  IF l > h THEN -1
                ELSE IF specs[mid + 1].name = name THEN mid
                ELSE IF specs[mid + 1].name < name THEN search[<<mid + 1, h>>]
                ELSE search[<<l, mid - 1>>]
    IN  search[<<0, Len(specs) - 1>>]

\* Mutant of FindIndexOf: the platform is not compared.
FindIndexOfVersion(specs, s) ==
    LET idx == NameIndex(specs, s.name)
        hits == {i \in idx .. Len(specs) - 1 :
                    specs[i + 1].name = s.name /\ specs[i + 1].number = s.number}
    IN  IF idx = -1 \/ hits = {} THEN -1 ELSE CHOOSE i \in hits : TRUE

(* FindIndexOf scans forward from there, over the same name, to the spec. *)
FindIndexOf(specs, s) ==
    LET idx == NameIndex(specs, s.name)
        hits == {i \in idx .. Len(specs) - 1 :
                    /\ specs[i + 1] = s
                    /\ \A j \in idx .. i - 1 :
                          specs[j + 1].name = s.name /\ specs[j + 1] # s}
    IN  IF idx = -1 \/ hits = {} THEN -1 ELSE CHOOSE i \in hits : TRUE
=============================================================================

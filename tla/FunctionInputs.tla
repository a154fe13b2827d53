--------------------------- MODULE FunctionInputs ---------------------------
(***************************************************************************)
(* The pure functions of SpecList and Marshal against their reference      *)
(* definitions.  A state is one input: a set of gem files, a gem's         *)
(* metadata with some fields left out, or an integer.  A set of gem files  *)
(* is also an index: what DumpSpecs writes for it, LoadSpecs reads.        *)
(***************************************************************************)
EXTENDS SpecList, Marshal

CONSTANTS MaxSpecs,         \* bound: gem files in the walk
          MaxDependencies,  \* bound: dependencies of a gem
          Encoded,          \* the integers that are written
          Lengths           \* lengths of names, numbers and platforms

\* Lengths and counts that encInt has a case for: no list of specs, and no text
\* of a spec, is as long as 2^30.
Countable == {n \in Nat : n <= 1073741823}

ASSUME EncodedAssumption ==
    /\ Encoded \subseteq Int /\ \A i \in Encoded : Encodes(i)
    /\ MaxSpecs \in Countable
    /\ \A rank \in Names \cup Numbers \cup Platforms : Lengths[rank] \in Countable

\* How long the symbols are that encSymbol spells in an index.
ASSUME SymbolAssumption == Len("E") = 1 /\ Len("Gem::Version") = 12

VARIABLES stored, meta, number
vars == <<stored, meta, number>>

Whole == [absent |-> {}, dependencies |-> <<>>]

Init == stored = {} /\ meta = Whole /\ number = 0

AddFile ==
    /\ meta = Whole /\ number = 0
    /\ Cardinality(stored) < MaxSpecs
    /\ \E g \in Gem : stored' = stored \cup {g}
    /\ UNCHANGED <<meta, number>>

LeaveOut ==
    /\ stored = {} /\ number = 0
    /\ \E field \in Required \cup Optional :
          meta' = [meta EXCEPT !.absent = @ \cup {field}]
    /\ CanDump(meta')
    /\ UNCHANGED <<stored, number>>

\* A dependency with one constraint, or with two as in "~> 1.2, >= 1.2.3".
AddDependency ==
    /\ stored = {} /\ number = 0
    /\ Len(meta.dependencies) < MaxDependencies
    /\ \E n \in 1 .. 2, pre \in BOOLEAN :
          meta' = [meta EXCEPT !.dependencies = Append(@,
                    [name |-> Literal("rack"), type |-> "runtime",
                     prerelease |-> pre,
                     constraints |-> [i \in 1 .. n |->
                        [constraint |-> Literal("~>"),
                         version |-> Literal("1.2")]]])]
    /\ UNCHANGED <<stored, number>>

Encode ==
    /\ stored = {} /\ meta = Whole
    /\ number' \in Encoded
    /\ UNCHANGED <<stored, meta>>

Next == AddFile \/ LeaveOut \/ AddDependency \/ Encode

Spec == Init /\ [][Next]_vars

-----------------------------------------------------------------------------
Walk == WalkOrder(stored)

\* FindIndexOf answers with an index of the spec asked for, or with -1: a yank
\* never deletes the entry of another gem (indexer.go:552-556).
FindsNothingElse ==
    \A s \in Gem : LET i == FindIndexOf(Walk, s) IN
        i # -1 => i \in 0 .. Len(Walk) - 1 /\ Walk[i + 1] = s

\* It finds the version of each name that is walked last, so any version that
\* is the only one of its name: the binary search ends on one of the name.
FindsTheLastOfAName ==
    \A s \in stored :
        (\A t \in stored : t.name = s.name => ~Before(s, t)) =>
            FindIndexOf(Walk, s) # -1

\* PartitionSpecs and the merge of updateSpecsIndex agree: adding a gem that
\* was not there to the latest index of the others gives, up to the platform,
\* the latest index of them all, with one entry for each released name.
MergeIsLatest ==
    /\ \A g, h \in LatestOf(stored) : g.name = h.name => g = h
    /\ \A g \in stored :
          VersionsIn(MergeLatest(LatestOf(stored \ {g}), LatestOf({g})))
              = VersionsIn(LatestOf(stored))

\* An integer encInt writes is the one readInt reads, to the last of its bytes,
\* whatever its size (marshal.go:39-82 and 672-700).
IntsAreRead ==
    ReadInt(EncInt(number), 1) = [n |-> number, at |-> Len(EncInt(number)) + 1]

-----------------------------------------------------------------------------
(* The list DumpSpecs is given for the walk, with texts for the ranks.     *)
TextOf(rank) == [of |-> rank, length |-> Lengths[rank]]
Tuples == [i \in DOMAIN Walk |->
              [name |-> TextOf(Walk[i].name), number |-> TextOf(Walk[i].number),
               platform |-> TextOf(Walk[i].platform)]]

\* What DumpSpecs writes is read back by LoadSpecs, to the last byte: the index
\* that an upload or a yank changes is the one that was written before, though
\* the first spec spells its symbols and the others link to them.
SpecsAreRead ==
    \A dump \in {DumpSpecs(Tuples)} : \A loaded \in {LoadSpecs(dump)} :
        loaded.ok /\ loaded.at = Len(dump) + 1 /\ loaded.specs = Tuples

\* An index file cut short (by a kill or a lost write) is never taken for an
\* index of fewer specs: LoadSpecs panics, or, when the file ends before or in
\* the count of the specs, takes it for an empty one.
TornIsRefused ==
    \A dump \in {DumpSpecs(Tuples)} : \A cut \in 0 .. Len(dump) - 1 :
        \A loaded \in {LoadSpecs(SubSeq(dump, 1, cut))} :
            loaded.ok => /\ cut < Len(EncArray(NewWriter, Len(Tuples)).out)
                         /\ loaded.specs = <<>>
=============================================================================

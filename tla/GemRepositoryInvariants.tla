---------------------- MODULE GemRepositoryInvariants -----------------------
(***************************************************************************)
(* The inductive invariants behind the safety properties of GemRepository, *)
(* in named parts.  TLC checks them on the instances, GemRepositoryProofs  *)
(* proves them for all.                                                    *)
(***************************************************************************)
EXTENDS GemRepository

(* Who is where: one handler between Lock and Unlock, none while the        *)
(* server does not serve, and each kind of handler at its own steps.        *)
MutexInv ==
    /\ \A r \in Requests : pc[r] \in Critical <=> lock = r
    /\ server # "up" => \A r \in Requests : pc[r] \in Done \cup {"new"}
    /\ \A u \in Uploads : pc[u] \in {"new"} \cup UploadSteps \cup Done
    /\ \A y \in Yanks : pc[y] \in {"new"} \cup YankSteps \cup Done

(* No gem file is ever removed, so what was once read or built from the     *)
(* stored gems, wherever it waits to be written, is still stored.           *)
StorageInv ==
    /\ \A g \in Gem : files[<<"root", g>>] = NoFile
    /\ \A u \in Uploads : pc[u] \in UploadSteps => gem[u] \in Stored
    /\ \A q \in Requests : \A r \in seen[q] : r.gem \in Stored
    /\ \A q \in Requests : listed[q] \subseteq Stored
    /\ \A i \in Index : tmp[i] # Missing => tmp[i] \subseteq Stored
    /\ acked \subseteq Stored
    /\ ListedIsServable

(* The names of which some version was asked to be yanked. *)
Disturbed(name) == \E w \in withdrawn : w.name = name

(* Under a name nobody yanks from, the rows that an upload read are current *)
(* until it writes them, and what it wrote, or found there, stays.          *)
PublishInv ==
    /\ \A q \in Requests : pc[q] \in {"read", "deleting"} =>
          \A r \in seen[q] : r.gem.name = gem[q].name
    /\ \A y \in Yanks : pc[y] \in YankSteps => gem[y] \in withdrawn
    /\ \A u \in Uploads : pc[u] = "read" /\ ~Disturbed(gem[u].name) =>
          seen[u] = RowsOf(gem[u].name)
    /\ \A u \in Uploads :
          pc[u] \in {"stored", "describing", "described", "moving"}
          /\ ~Disturbed(gem[u].name) /\ UnlikeVersion(gem[u])
          => \E r \in rows : r.gem = gem[u]
    /\ AckedIsPublished

(* The file that is removed, or truncated, and not yet replaced. *)
InHand(f) ==
    /\ place = "emptied"
    /\ \/ \E u \in Uploads : pc[u] = "moving" /\ at <= 6 /\ f = MoveOrder[at]
       \/ \E y \in Yanks : pc[y] = "rewriting" /\ at <= 3
                           /\ f = <<RewriteOrder[at], "plain">>

(* While the process has not been killed, the first start makes all the     *)
(* indexes, and from then on each is whole unless in somebody's hand.       *)
WholeInv ==
    /\ server \in {"down", "clearing", "staging"} =>
          /\ \A f \in IndexFile : dest[f] = Missing
          /\ at = 1 /\ place = "filled"
    /\ server \in {"clearing", "staging", "installing"} =>
          \A i \in Index : tmp[i] # Missing
    /\ server = "installing" =>
          /\ \A j \in 1 .. 6 : j < at => Whole(MoveOrder[j])
          /\ place = "emptied" => at <= 6
    /\ server # "up" => acked = {}
    /\ server = "up" => \A f \in IndexFile : Whole(f) \/ InHand(f)
    /\ server = "up" => \/ \E r \in Requests : pc[r] \in {"moving", "rewriting"}
                        \/ at = 1 /\ place = "filled"
    /\ \A u \in Uploads : pc[u] = "moving" /\ place = "emptied" =>
          at <= 6 /\ tmp[MoveOrder[at][1]] # Missing
    /\ \A y \in Yanks : pc[y] = "rewriting" =>
          at <= 4 /\ (place = "emptied" => at <= 3)

(* What is to be in the indexes. *)
Kept == acked \ withdrawn

(* A yank's walk and rewriting miss none of it.                             *)
ListedInv ==
    \A y \in Yanks : pc[y] \in {"walking", "rewriting"} => Kept \subseteq listed[y]

(* The gems uploaded and not yanked are in every whole index, and in what   *)
(* is about to become one: the temporary indexes and the listed gems.  A    *)
(* merge may drop one that is taken for another.                            *)
Lasting == {g \in Kept : Unlike(g)}

KeptInv ==
    /\ \A g \in Lasting, c \in {"plain", "gz"} :
          Whole(<<IndexOf(g), c>>) => g \in dest[<<IndexOf(g), c>>]
    /\ ListedInv
    /\ \A u \in Uploads : pc[u] = "moving" =>
          /\ \A g \in Lasting : tmp[IndexOf(g)] # Missing => g \in tmp[IndexOf(g)]
          /\ tmp[IndexOf(gem[u])] # Missing
          /\ Unlike(gem[u]) =>
                /\ gem[u] \in tmp[IndexOf(gem[u])]
                /\ \A j \in 1 .. 6 :
                      j < at /\ MoveOrder[j][1] = IndexOf(gem[u]) =>
                          gem[u] \in dest[MoveOrder[j]]

IndexInv == crashes = 0 => WholeInv /\ KeptInv

(* While one index is moved into place, its plain file comes first: until   *)
(* the compressed one follows, the plain one says what was built.           *)
PlainAt == [specs |-> 1, latest |-> 3, prerelease |-> 5]
Replacing(i) == Moving /\ tmp[i] # Missing
PlainRemoved(i) == Replacing(i) /\ at = PlainAt[i] /\ place = "emptied"
PlainMoved(i) == Replacing(i) /\ at = PlainAt[i] + 1

AgreeInv ==
    \A i \in Index :
        /\ PlainMoved(i) => dest[<<i, "plain">>] = tmp[i]
        /\ \/ PlainRemoved(i) \/ PlainMoved(i)
           \/ dest[<<i, "gz">>] = dest[<<i, "plain">>]

(* A compressed index is missing only between its removal and the move of   *)
(* the new one, or in a server that does not serve yet: a start that finds  *)
(* one missing puts all in place, wherever the process was killed.          *)
CompressedInv ==
    /\ server # "installing"
       /\ (\A r \in Requests : pc[r] \notin {"moving", "rewriting"}) =>
          at = 1 /\ place = "filled"
    /\ \A y \in Yanks : pc[y] = "rewriting" =>
          at <= 4 /\ (place = "emptied" => at <= 3)
    /\ server \in {"clearing", "staging", "installing"} =>
          \A i \in Index : tmp[i] # Missing
    /\ Moving /\ place = "emptied" =>
          at <= 6 /\ tmp[MoveOrder[at][1]] # Missing
    /\ server = "installing" => \A j \in 1 .. 6 : j < at => Whole(MoveOrder[j])
    /\ \A i \in Index :
          /\ dest[<<i, "gz">>] # Truncated
          /\ server = "up" =>
                \/ Whole(<<i, "gz">>)
                \/ Moving /\ place = "emptied" /\ MoveOrder[at] = <<i, "gz">>

(* A gemspec without its bytes has an upload that is about to write them,   *)
(* and whatever is in an index, or about to be, has a whole one.            *)
Described(S) == \A g \in S : gemspecs[g] = "whole"

GemspecInv ==
    /\ \A g \in Gem : gemspecs[g] = "empty" =>
          \E u \in Uploads : pc[u] = "describing" /\ gem[u] = g
    /\ \A u \in Uploads : pc[u] = "describing" => gemspecs[gem[u]] = "empty"
    /\ \A u \in Uploads : pc[u] \in {"described", "moving"} =>
          gemspecs[gem[u]] = "whole"
    /\ \A f \in IndexFile : Whole(f) => Described(dest[f])
    /\ \A i \in Index : tmp[i] # Missing =>
          IF server \in {"clearing", "staging"}
          THEN tmp[i] \subseteq Present ELSE Described(tmp[i])

UnyankedInv == crashes = 0 /\ withdrawn = {} => WholeInv /\ AgreeInv /\ GemspecInv

(* With yanks, an acknowledged gem keeps its gemspec if it is spared.       *)
SparedInv ==
    \A g \in Gem : Spared(g) =>
        /\ gemspecs[g] = "empty" =>
              \E u \in Uploads : pc[u] = "describing" /\ gem[u] = g
        /\ \A u \in Uploads : pc[u] = "describing" /\ gem[u] = g =>
              gemspecs[g] = "empty"
        /\ \A u \in Uploads : pc[u] \in {"described", "moving"} /\ gem[u] = g =>
              gemspecs[g] = "whole"
        /\ g \in acked => gemspecs[g] = "whole"

DescribedInv == crashes = 0 => WholeInv /\ SparedInv

(* The releases that the latest index has to match, and how it does.        *)
KeptReleases == {g \in Kept : g.number \notin Prerelease}
Matches(S, g) == \E h \in S : h.name = g.name /\ h.number >= g.number

(* The latest index, and what is about to become it, matches every release  *)
(* that is acknowledged and not yanked.                                     *)
LatestInv ==
    /\ \A g \in KeptReleases, c \in {"plain", "gz"} :
          Whole(<<"latest", c>>) => Matches(dest[<<"latest", c>>], g)
    /\ \A u \in Uploads : pc[u] = "moving" =>
          /\ tmp["latest"] # Missing =>
                \A g \in KeptReleases : Matches(tmp["latest"], g)
          /\ gem[u].number \notin Prerelease =>
                /\ tmp["latest"] # Missing
                /\ Matches(tmp["latest"], gem[u])
                /\ \A j \in 1 .. 6 : j < at /\ MoveOrder[j][1] = "latest" =>
                      Matches(dest[MoveOrder[j]], gem[u])

(* There are only so many gems: some number is the greatest.                *)
BoundInv == \E n \in Nat : \A g \in Stored : g.number <= n

NewestInv == crashes = 0 => WholeInv /\ ListedInv /\ LatestInv

(* What an upload saves was delivered: the content it read back, too.       *)
RegistryInv ==
    /\ \A g \in Stored : [gem |-> g, checksum |-> files[StorePath(g)]] \in delivered
    /\ \A u \in Uploads : pc[u] \in Critical =>
          [gem |-> gem[u], checksum |-> build[u]] \in delivered
=============================================================================

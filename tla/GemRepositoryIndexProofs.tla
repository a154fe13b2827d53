---------------------- MODULE GemRepositoryIndexProofs ----------------------
(***************************************************************************)
(* Theorems about the index files of GemRepository: the latest index, the  *)
(* compressed indexes, and the quick gemspecs of what the indexes list.    *)
(***************************************************************************)
EXTENDS GemRepositoryProofs, SpecListProofs

-----------------------------------------------------------------------------
(* What an upload makes of the latest index.                               *)

\* Partitioned alone, a gem is in the latest index unless it is a prerelease.
LEMMA LatestOfOne ==
    ASSUME NEW g \in Gem
    PROVE  LatestOf({g}) = IF g.number \in Prerelease THEN {} ELSE {g}
  <1>1. ~Before(g, g)
    <2>1. g.name \in Nat /\ g.number \in Nat /\ g.platform \in Nat
      BY SpecListAssumption DEF Gem
    <2> QED
      BY <2>1 DEF Before
  <1> QED
    BY <1>1 DEF LatestOf, ReleasesOf

\* Merging a gem into a latest index matches the gem, and whatever the index
\* matched before (updateSpecsIndex).
LEMMA MergeMatches ==
    ASSUME NEW old, old \subseteq Gem, NEW g \in Gem
    PROVE  /\ Matches(MergeLatest(old, {g}), g)
           /\ \A k \in Gem : Matches(old, k) => Matches(MergeLatest(old, {g}), k)
  <1> DEFINE merged == MergeLatest(old, {g})
  <1>0. \A k \in Gem : k.number \in Nat
    BY SpecListAssumption DEF Gem
  <1>1. ASSUME NEW h \in old, ~(h.name = g.name /\ h.number < g.number)
        PROVE  h \in merged
    BY <1>1 DEF MergeLatest
  <1>2. Matches(merged, g)
    <2>1. CASE \E h \in old : h.name = g.name /\ ~(h.number < g.number)
      <3>1. PICK h \in old : h.name = g.name /\ ~(h.number < g.number)
        BY <2>1
      <3>2. h \in merged /\ h.number >= g.number
        BY <1>0, <1>1, <3>1
      <3> QED
        BY <3>1, <3>2 DEF Matches
    <2>2. CASE ~ \E h \in old : h.name = g.name /\ ~(h.number < g.number)
      <3>1. g \in merged
        BY <2>2 DEF MergeLatest
      <3> QED
        BY <1>0, <3>1 DEF Matches
    <2> QED
      BY <2>1, <2>2
  <1>3. ASSUME NEW k \in Gem, Matches(old, k) PROVE Matches(merged, k)
    <2>1. PICK h \in old : h.name = k.name /\ h.number >= k.number
      BY <1>3 DEF Matches
    <2>2. CASE h.name = g.name /\ h.number < g.number
      <3>1. PICK x \in merged : x.name = g.name /\ x.number >= g.number
        BY <1>2 DEF Matches
      <3>2. x \in Gem
        BY DEF MergeLatest
      <3>3. x.name = k.name /\ x.number >= k.number
        BY <1>0, <2>1, <2>2, <3>1, <3>2
      <3> QED
        BY <3>3 DEF Matches
    <2>3. CASE ~(h.name = g.name /\ h.number < g.number)
      BY <1>1, <2>1, <2>3 DEF Matches
    <2> QED
      BY <2>2, <2>3
  <1> QED
    BY <1>2, <1>3

-----------------------------------------------------------------------------
(* What a yank lists, and how many gems there are.                         *)

\* What a yank writes back lists all that is acknowledged: its walk starts with
\* every stored gem, it takes out one that was asked to be yanked, and nothing
\* is acknowledged while it holds the mutex.
LEMMA ListedStep ==
    ASSUME TypeOK, MutexInv, StorageInv, PublishInv, ListedInv, [Next]_vars
    PROVE  ListedInv'
  <1> SUFFICES ASSUME NEW y \in Yanks, pc'[y] \in {"walking", "rewriting"}
               PROVE  Kept' \subseteq listed'[y]
    BY DEF ListedInv
  <1>0. y \in Requests /\ y \notin Uploads
    BY RepositoryAssumption DEF Requests
  <1>1. withdrawn \subseteq withdrawn'
    BY Writers DEF ReceiveYank
  <1>2. ASSUME pc[y] \in {"walking", "rewriting"}
        PROVE  Kept \subseteq listed[y] /\ Kept' \subseteq Kept
    <2>1. ~ \E u \in Uploads : FinishUpdate(u)
      BY <1>0, <1>2, MutualExclusion DEF FinishUpdate, Critical, Requests
    <2> QED
      BY <1>1, <1>2, <2>1, Writers DEF ListedInv, Kept
  <1>3. CASE Yank(y)
    <2>1. CASE BeginRemove(y)
      <3>1. listed' = [listed EXCEPT ![y] = Present] /\ acked' = acked
        BY <2>1 DEF BeginRemove, history
      <3>2. acked \subseteq Present
        BY PresentIsStored DEF StorageInv
      <3> QED
        BY <1>0, <3>1, <3>2 DEF TypeOK, Kept
    <2>2. CASE FindInIndex(y)
      <3>1. PICK late \in SUBSET (Present \ listed[y]) :
               LET found == listed[y] \cup late
                   specs == WalkOrder(found)
                   i == FindIndexOf(specs, gem[y])
               IN  IF i = -1
                   THEN /\ lock' = Free
                        /\ GoTo(y, "failed")
                        /\ UNCHANGED listed
                   ELSE /\ listed' = [listed EXCEPT ![y] = found \ {specs[i + 1]}]
                        /\ GoTo(y, "rewriting")
                        /\ UNCHANGED lock
        BY <2>2 DEF FindInIndex
      <3> DEFINE found == listed[y] \cup late
                 i == FindIndexOf(WalkOrder(found), gem[y])
      <3>2. i # -1
        BY <1>0, <3>1 DEF GoTo, TypeOK
      <3>3. WalkOrder(found)[i + 1] = gem[y]
        BY <3>2, FindIndexOfFinds
      <3>4. listed' = [listed EXCEPT ![y] = found \ {gem[y]}]
        BY <3>1, <3>2, <3>3
      <3>5. pc[y] = "walking" /\ gem[y] \in withdrawn
        BY <2>2 DEF FindInIndex, PublishInv, YankSteps
      <3>6. Kept' \subseteq listed[y] /\ gem[y] \notin Kept'
        BY <1>1, <1>2, <3>5 DEF Kept
      <3> QED
        BY <1>0, <3>4, <3>6 DEF TypeOK
    <2>3. CASE TruncateIndex(y) \/ RewriteIndex(y)
      <3>1. listed' = listed /\ pc[y] = "rewriting"
        BY <2>3 DEF TruncateIndex, RewriteIndex, handlers
      <3> QED
        BY <1>2, <3>1
    <2> QED
      BY <1>3, <2>1, <2>2, <2>3, YankCourse DEF Done
  <1>4. CASE pc'[y] = pc[y] /\ listed'[y] = listed[y]
    BY <1>2, <1>4
  <1>5. CASE Die
    BY <1>0, <1>5, DieHandlers DEF Done
  <1> QED
    BY <1>0, <1>3, <1>4, <1>5, OwnSteps

\* A step stores one gem more at the most, so the numbers stay bounded.
LEMMA BoundStep ==
    ASSUME TypeOK, BoundInv, [Next]_vars
    PROVE  BoundInv'
  <1>0. \A g \in Gem : g.number \in Nat
    BY SpecListAssumption DEF Gem
  <1>1. PICK n \in Nat : \A g \in Stored : g.number <= n
    BY DEF BoundInv
  <1>2. ASSUME Stored' \subseteq Stored PROVE BoundInv'
    BY <1>1, <1>2 DEF BoundInv
  <1>3. ASSUME NEW u \in Uploads, SaveUpload(u) PROVE BoundInv'
    <2>1. PICK g \in Gem, b \in Builds : files' = [files EXCEPT ![StorePath(g)] = b]
      BY <1>3 DEF SaveUpload
    <2>2. Stored' \subseteq Stored \cup {g}
      BY <2>1 DEF Stored, StorePath, TypeOK
    <2> DEFINE m == IF g.number <= n THEN n ELSE g.number
    <2>3. m \in Nat /\ n <= m /\ g.number <= m
      BY <1>0
    <2> HIDE DEF m
    <2>4. \A k \in Stored' : k.number <= m
      <3>1. \A k \in Stored : k.number \in Nat
        BY <1>0 DEF Stored
      <3> QED
        BY <1>1, <2>2, <2>3, <3>1
    <2> QED
      BY <2>3, <2>4 DEF BoundInv
  <1>4. ASSUME NEW y \in Yanks, RemoveGemFile(y) PROVE Stored' \subseteq Stored
    BY <1>4 DEF RemoveGemFile, Stored, YankPath, StorePath, TypeOK
  <1>5. UNCHANGED files => Stored' \subseteq Stored
    BY DEF Stored
  <1> QED
    BY <1>2, <1>3, <1>4, <1>5, Writers

-----------------------------------------------------------------------------
(* The latest index has nothing older than what is acknowledged.           *)

\* A handler's step that touches no index, and ends where it moves none, keeps
\* what the latest index matches.
LEMMA LatestQuiet ==
    ASSUME TypeOK, LatestInv, UNCHANGED <<dest, tmp, at, acked>>,
           withdrawn \subseteq withdrawn',
           NEW r \in Requests, NEW label, GoTo(r, label), label # "moving",
           \A q \in Requests : q # r => gem'[q] = gem[q]
    PROVE  LatestInv'
  <1>1. KeptReleases' \subseteq KeptReleases
    BY DEF KeptReleases, Kept
  <1>2. \A f : Whole(f)' <=> Whole(f)
    BY DEF Whole
  <1>3. ASSUME NEW u \in Uploads, pc'[u] = "moving"
        PROVE  pc[u] = "moving" /\ gem'[u] = gem[u]
    BY <1>3 DEF GoTo, TypeOK, Requests
  <1>4. \A S, g : Matches(S, g)' <=> Matches(S, g)
    BY DEF Matches
  <1>5. \A g \in KeptReleases', c \in {"plain", "gz"} :
           Whole(<<"latest", c>>)' => Matches(dest'[<<"latest", c>>], g)
    BY <1>1, <1>2 DEF LatestInv
  <1>6. ASSUME NEW u \in Uploads, pc'[u] = "moving"
        PROVE  /\ tmp'["latest"] # Missing =>
                     \A g \in KeptReleases' : Matches(tmp'["latest"], g)
               /\ gem'[u].number \notin Prerelease =>
                     /\ tmp'["latest"] # Missing
                     /\ Matches(tmp'["latest"], gem'[u])
                     /\ \A j \in 1 .. 6 : j < at' /\ MoveOrder[j][1] = "latest" =>
                           Matches(dest'[MoveOrder[j]], gem'[u])
    BY <1>1, <1>3, <1>6 DEF LatestInv
  <1> QED
    BY <1>5, <1>6 DEF LatestInv, Matches

\* Before anything is acknowledged there is nothing to match.
LEMMA LatestIdle ==
    ASSUME acked' = {}, \A r \in Requests : pc'[r] # "moving"
    PROVE  LatestInv'
  <1>1. KeptReleases' = {}
    BY DEF KeptReleases, Kept
  <1> QED
    BY <1>1 DEF LatestInv, Requests

\* A step that changes one index file keeps what the others match.
LEMMA LatestElsewhere ==
    ASSUME LatestInv, NEW f, \A h : h # f => dest'[h] = dest[h],
           f[1] = "latest" /\ dest'[f] \notin {Missing, Truncated} =>
              \A g \in KeptReleases : Matches(dest'[f], g)
    PROVE  \A g \in KeptReleases, c \in {"plain", "gz"} :
              Whole(<<"latest", c>>)' => Matches(dest'[<<"latest", c>>], g)
  <1> SUFFICES ASSUME NEW g \in KeptReleases, NEW c \in {"plain", "gz"},
                      dest'[<<"latest", c>>] \notin {Missing, Truncated}
               PROVE  Matches(dest'[<<"latest", c>>], g)
    BY DEF Whole
  <1>1. CASE f = <<"latest", c>>
    BY <1>1
  <1>2. CASE f # <<"latest", c>>
    BY <1>2 DEF LatestInv, Whole
  <1> QED
    BY <1>1, <1>2

\* An upload's steps keep what the latest index matches.
LEMMA LatestUpload ==
    ASSUME TypeOK, MutexInv, WholeInv, LatestInv, NEW u \in Uploads, Upload(u)
    PROVE  LatestInv'
  <1>0. u \in Requests /\ gem[u] \in Gem
    BY DEF Requests, TypeOK
  <1>1. CASE SaveUpload(u)
    <2>1. \A q \in Requests : q # u => gem'[q] = gem[q]
      BY <1>1 DEF SaveUpload, TypeOK
    <2> QED
      BY <1>0, <1>1, <2>1, LatestQuiet DEF SaveUpload, work
  <1>2. CASE BeginUpdate(u)
    BY <1>0, <1>2, LatestQuiet DEF BeginUpdate, work, disk, history
  <1>3. CASE ReadVersions(u)
    BY <1>0, <1>3, LatestQuiet DEF ReadVersions, work, disk, history
  <1>4. CASE PutVersions(u)
    BY <1>0, <1>4, LatestQuiet DEF PutVersions, work, disk, history
  <1>5. CASE CreateGemspec(u)
    BY <1>0, <1>5, LatestQuiet DEF CreateGemspec, work, history
  <1>6. CASE WriteGemspec(u)
    BY <1>0, <1>6, LatestQuiet DEF WriteGemspec, work, history
  <1>7. CASE UpdateSpecsIndexes(u)
    <2> DEFINE new == Partition({gem[u]})["latest"]
               old == dest[<<"latest", "plain">>]
    <2>1. /\ tmp'["latest"] = UpdatedIndex("latest", new) /\ at' = 1
          /\ pc' = [pc EXCEPT ![u] = "moving"] /\ pc[u] = "described"
          /\ UNCHANGED <<dest, gem, acked, withdrawn>>
      BY <1>7 DEF UpdateSpecsIndexes, GoTo, disk, history, Index
    <2>2. KeptReleases' = KeptReleases /\ (\A f : Whole(f)' <=> Whole(f))
      BY <2>1 DEF KeptReleases, Kept, Whole
    <2>3. \A q \in Uploads : pc'[q] = "moving" => q = u
      <3>1. \A q \in Uploads : pc[q] # "moving"
        BY <1>0, <2>1, MutualExclusion DEF Critical, Requests
      <3> QED
        BY <2>1, <3>1 DEF TypeOK, Requests
    <2>4. Whole(<<"latest", "plain">>) /\ old \in SUBSET Gem
      <3>1. <<"latest", "plain">> \in IndexFile
        BY DEF Index, IndexFile
      <3>2. Whole(<<"latest", "plain">>)
        BY <1>0, <2>1, <3>1, WholeInside DEF Critical
      <3> QED
        BY <3>1, <3>2 DEF Whole, TypeOK
    <2>5. new = IF gem[u].number \in Prerelease THEN {} ELSE {gem[u]}
      BY <1>0, LatestOfOne DEF Partition
    <2>6. CASE gem[u].number \in Prerelease
      <3>1. tmp'["latest"] = Missing /\ gem'[u] = gem[u]
        BY <2>1, <2>5, <2>6 DEF UpdatedIndex
      <3> QED
        BY <2>1, <2>2, <2>3, <2>6, <3>1 DEF LatestInv, Matches
    <2>7. CASE gem[u].number \notin Prerelease
      <3> DEFINE merged == MergeLatest(old, {gem[u]})
      <3>1. tmp'["latest"] = merged /\ gem'[u] = gem[u]
        BY <2>1, <2>4, <2>5, <2>7, RepositoryAssumption DEF UpdatedIndex
      <3>2. merged # Missing
        <4>1. merged \in SUBSET Gem
          BY <1>0, <2>4 DEF MergeLatest
        <4> QED
          BY <4>1, RepositoryAssumption
      <3>3. Matches(merged, gem[u])
        BY <1>0, <2>4, MergeMatches
      <3>4. \A g \in KeptReleases : Matches(merged, g)
        <4>1. \A g \in KeptReleases : g \in Gem /\ Matches(old, g)
          BY <2>4 DEF LatestInv, KeptReleases, Kept, TypeOK
        <4> QED
          BY <1>0, <2>4, <4>1, MergeMatches
      <3>5. \A j \in 1 .. 6 : ~(j < at')
        BY <2>1
      <3>6. \A g \in KeptReleases', c \in {"plain", "gz"} :
               Whole(<<"latest", c>>)' => Matches(dest'[<<"latest", c>>], g)
        BY <2>1, <2>2 DEF LatestInv
      <3> HIDE DEF merged
      <3> QED
        BY <2>2, <2>3, <3>1, <3>2, <3>3, <3>4, <3>5, <3>6 DEF LatestInv, Matches
    <2> QED
      BY <2>6, <2>7
  <1>8. CASE FinishUpdate(u)
    <2>1. /\ pc[u] = "moving" /\ at = 7 /\ pc' = [pc EXCEPT ![u] = "answered"]
          /\ acked' = acked \cup {gem[u]}
          /\ UNCHANGED <<dest, gem, withdrawn>>
      BY <1>8 DEF FinishUpdate, GoTo, disk
    <2>2. \A q \in Requests : pc'[q] # "moving"
      <3>1. \A q \in Requests : pc[q] = "moving" => q = u
        BY <1>0, <2>1, MutualExclusion DEF Critical
      <3> QED
        BY <1>0, <2>1, <3>1 DEF TypeOK
    <2>3. ASSUME NEW c \in {"plain", "gz"}, gem[u].number \notin Prerelease
          PROVE  Matches(dest[<<"latest", c>>], gem[u])
      <3>1. <<"latest", c>> \in IndexFile
        BY DEF Index, IndexFile
      <3>2. PICK j \in 1 .. 6 : MoveOrder[j] = <<"latest", c>>
        BY <3>1, MoveOrderLists
      <3>3. j < at /\ MoveOrder[j][1] = "latest"
        BY <2>1, <3>2
      <3> QED
        BY <2>1, <2>3, <3>2, <3>3 DEF LatestInv
    <2>4. \A g \in KeptReleases' :
             g \in KeptReleases \/ (g = gem[u] /\ gem[u].number \notin Prerelease)
      BY <2>1 DEF KeptReleases, Kept
    <2>5. \A f : Whole(f)' <=> Whole(f)
      BY <2>1 DEF Whole
    <2>6. \A g \in KeptReleases', c \in {"plain", "gz"} :
             Whole(<<"latest", c>>)' => Matches(dest'[<<"latest", c>>], g)
      BY <2>1, <2>3, <2>4, <2>5 DEF LatestInv
    <2> QED
      BY <2>2, <2>6 DEF LatestInv, Matches, Requests
  <1> QED
    BY <1>1, <1>2, <1>3, <1>4, <1>5, <1>6, <1>7, <1>8, NoPanic DEF Upload

\* A yank's steps keep what the latest index matches: what it writes is the
\* latest of gems that include all that is acknowledged.
LEMMA LatestYank ==
    ASSUME TypeOK, MutexInv, StorageInv, BoundInv, ListedInv, LatestInv,
           NEW y \in Yanks, Yank(y)
    PROVE  LatestInv'
  <1>0. y \in Requests /\ y \notin Uploads
    BY RepositoryAssumption DEF Requests
  <1>1. CASE ReceiveYank(y)
    <2>1. withdrawn \subseteq withdrawn' /\ \A q \in Requests : q # y => gem'[q] = gem[q]
      BY <1>1 DEF ReceiveYank, TypeOK
    <2> QED
      BY <1>0, <1>1, <2>1, LatestQuiet DEF ReceiveYank, work, disk
  <1>2. CASE BeginRemove(y)
    BY <1>0, <1>2, LatestQuiet DEF BeginRemove, work, disk, history
  <1>3. CASE FindInIndex(y)
    <2>1. GoTo(y, "failed") \/ GoTo(y, "rewriting")
      BY <1>3 DEF FindInIndex
    <2> QED
      BY <1>0, <1>3, <2>1, LatestQuiet DEF FindInIndex, work, disk, history
  <1>4. ASSUME pc[y] = "rewriting" PROVE \A u \in Uploads : pc[u] # "moving"
    BY <1>0, <1>4, MutualExclusion DEF Critical, Requests
  <1>5. CASE TruncateIndex(y)
    <2> DEFINE f == <<RewriteOrder[at], "plain">>
    <2>1. /\ pc[y] = "rewriting" /\ dest' = [dest EXCEPT ![f] = Truncated]
          /\ f \in IndexFile
          /\ UNCHANGED <<pc, acked, withdrawn>>
      BY <1>5, OrderTypes DEF TruncateIndex, handlers, history, TypeOK, IndexFile
    <2>2. KeptReleases' = KeptReleases
      BY <2>1 DEF KeptReleases, Kept
    <2>3. dest'[f] = Truncated /\ (\A h : h # f => dest'[h] = dest[h])
      BY <2>1 DEF TypeOK
    <2>4. \A g \in KeptReleases, c \in {"plain", "gz"} :
             Whole(<<"latest", c>>)' => Matches(dest'[<<"latest", c>>], g)
      BY <2>3, LatestElsewhere
    <2> QED
      BY <1>4, <2>1, <2>2, <2>4 DEF LatestInv, Matches
  <1>6. CASE RewriteIndex(y)
    <2> DEFINE f == <<RewriteOrder[at], "plain">>
               new == Partition(listed[y])[RewriteOrder[at]]
    <2>1. /\ pc[y] = "rewriting" /\ dest' = [dest EXCEPT ![f] = new]
          /\ f \in IndexFile
          /\ UNCHANGED <<pc, acked, withdrawn>>
      BY <1>6, OrderTypes DEF RewriteIndex, handlers, history, TypeOK, IndexFile
    <2>2. KeptReleases' = KeptReleases
      BY <2>1 DEF KeptReleases, Kept
    <2>3. dest'[f] = new /\ (\A h : h # f => dest'[h] = dest[h])
      BY <2>1 DEF TypeOK
    <2>4. ASSUME NEW g \in KeptReleases, RewriteOrder[at] = "latest"
          PROVE  Matches(new, g)
      <3>1. g \in ReleasesOf(listed[y])
        BY <2>1 DEF ListedInv, KeptReleases, ReleasesOf
      <3>2. listed[y] \subseteq Gem /\ listed[y] \subseteq Stored
        BY <1>0 DEF TypeOK, StorageInv
      <3>3. PICK n \in Nat : \A h \in Stored : h.number <= n
        BY DEF BoundInv
      <3>4. \A h \in listed[y] : h.number <= n
        BY <3>2, <3>3
      <3>5. \E h \in LatestOf(listed[y]) : h.name = g.name /\ h.number >= g.number
        BY <3>1, <3>2, <3>4, LatestMatches
      <3> QED
        BY <2>4, <3>5 DEF Matches, Partition
    <2>5. \A g \in KeptReleases, c \in {"plain", "gz"} :
             Whole(<<"latest", c>>)' => Matches(dest'[<<"latest", c>>], g)
      <3>1. f[1] = "latest" => \A g \in KeptReleases : Matches(dest'[f], g)
        BY <2>3, <2>4
      <3> QED
        BY <2>3, <3>1, LatestElsewhere
    <2> QED
      BY <1>4, <2>1, <2>2, <2>5 DEF LatestInv, Matches
  <1>7. CASE FinishRemove(y)
    <2>1. /\ pc[y] = "rewriting" /\ pc' = [pc EXCEPT ![y] = "unindexed"]
          /\ UNCHANGED <<dest, acked, withdrawn>>
      BY <1>7 DEF FinishRemove, GoTo, disk, history
    <2>2. \A u \in Uploads : pc'[u] # "moving"
      BY <1>0, <1>4, <2>1 DEF TypeOK, Requests
    <2>3. KeptReleases' = KeptReleases /\ (\A f : Whole(f)' <=> Whole(f))
      BY <2>1 DEF KeptReleases, Kept, Whole
    <2> QED
      BY <2>1, <2>2, <2>3 DEF LatestInv, Matches
  <1>8. CASE RemoveGemFile(y)
    BY <1>0, <1>8, LatestQuiet DEF RemoveGemFile, work, history
  <1>9. CASE RemoveGemspec(y)
    BY <1>0, <1>9, LatestQuiet DEF RemoveGemspec, work, history
  <1>10. CASE ReadForDelete(y)
    BY <1>0, <1>10, LatestQuiet DEF ReadForDelete, work, disk, history
  <1>11. CASE PutRemaining(y)
    <2>1. GoTo(y, "notFound") \/ GoTo(y, "answered")
      BY <1>11 DEF PutRemaining
    <2> QED
      BY <1>0, <1>11, <2>1, LatestQuiet DEF PutRemaining, work, disk
  <1> QED
    BY <1>1, <1>2, <1>3, <1>5, <1>6, <1>7, <1>8, <1>9, <1>10, <1>11 DEF Yank

\* Moving the files into place keeps what the latest index matches, and makes
\* it match the gem of the upload that moves them.
LEMMA LatestMove ==
    ASSUME TypeOK, MutexInv, WholeInv, LatestInv, MoveIndexes
    PROVE  LatestInv'
  <1>1. UNCHANGED <<tmp, server, pc, gem, acked, withdrawn>> /\ at \in 1 .. 6
    BY DEF MoveIndexes, RemoveOldIndex, MoveNewIndex, SkipIndex, handlers,
           history, TypeOK
  <1>2. MoveOrder[at] \in IndexFile /\ MoveOrder[at][1] \in Index
    BY <1>1, OrderTypes
  <1>3. KeptReleases' = KeptReleases
    BY <1>1 DEF KeptReleases, Kept
  <1>4. CASE server = "installing"
    <2>1. acked' = {}
      BY <1>1, <1>4 DEF WholeInv
    <2>2. \A r \in Requests : pc'[r] # "moving"
      BY <1>1, <1>4 DEF MutexInv, Done
    <2> QED
      BY <2>1, <2>2, LatestIdle
  <1>5. CASE \E r \in Requests : pc[r] = "moving"
    <2>1. PICK u \in Uploads : pc[u] = "moving"
      BY <1>5, Kinds
    <2>2. \A q \in Uploads : pc'[q] = "moving" => q = u
      BY <1>1, <2>1, MutualExclusion DEF Critical, Requests
    <2>3. /\ tmp["latest"] # Missing =>
                \A g \in KeptReleases : Matches(tmp["latest"], g)
          /\ gem[u].number \notin Prerelease =>
                /\ tmp["latest"] # Missing
                /\ Matches(tmp["latest"], gem[u])
                /\ \A j \in 1 .. 6 : j < at /\ MoveOrder[j][1] = "latest" =>
                      Matches(dest[MoveOrder[j]], gem[u])
      BY <2>1 DEF LatestInv
    <2>4. SUFFICES
            /\ \A g \in KeptReleases, c \in {"plain", "gz"} :
                  Whole(<<"latest", c>>)' => Matches(dest'[<<"latest", c>>], g)
            /\ gem[u].number \notin Prerelease =>
                  \A j \in 1 .. 6 : j < at' /\ MoveOrder[j][1] = "latest" =>
                     Matches(dest'[MoveOrder[j]], gem[u])
      BY <1>1, <1>3, <2>2, <2>3 DEF LatestInv, Matches
    <2>5. CASE RemoveOldIndex
      <3>1. dest' = [dest EXCEPT ![MoveOrder[at]] = Missing] /\ at' = at
        BY <2>5 DEF RemoveOldIndex
      <3>2. /\ dest'[MoveOrder[at]] = Missing
            /\ \A h : h # MoveOrder[at] => dest'[h] = dest[h]
        BY <1>2, <3>1 DEF TypeOK
      <3>3. \A g \in KeptReleases, c \in {"plain", "gz"} :
               Whole(<<"latest", c>>)' => Matches(dest'[<<"latest", c>>], g)
        BY <3>2, LatestElsewhere
      <3>4. ASSUME gem[u].number \notin Prerelease,
                   NEW j \in 1 .. 6, j < at', MoveOrder[j][1] = "latest"
            PROVE  Matches(dest'[MoveOrder[j]], gem[u])
        <4>1. MoveOrder[j] # MoveOrder[at]
          BY <1>1, <3>1, <3>4, MoveOrderLists
        <4> QED
          BY <2>3, <3>1, <3>2, <3>4, <4>1
      <3> QED
        BY <3>3, <3>4
    <2>6. CASE MoveNewIndex
      <3>1. /\ dest' = [dest EXCEPT ![MoveOrder[at]] = tmp[MoveOrder[at][1]]]
            /\ at' = at + 1 /\ place = "emptied"
        BY <2>6 DEF MoveNewIndex
      <3>2. /\ dest'[MoveOrder[at]] = tmp[MoveOrder[at][1]]
            /\ \A h : h # MoveOrder[at] => dest'[h] = dest[h]
        BY <1>2, <3>1 DEF TypeOK
      <3>3. tmp[MoveOrder[at][1]] # Missing
        BY <2>1, <3>1 DEF WholeInv
      <3>4. MoveOrder[at][1] = "latest" =>
               \A g \in KeptReleases : Matches(dest'[MoveOrder[at]], g)
        BY <2>3, <3>2, <3>3
      <3>5. \A g \in KeptReleases, c \in {"plain", "gz"} :
               Whole(<<"latest", c>>)' => Matches(dest'[<<"latest", c>>], g)
        BY <3>2, <3>4, LatestElsewhere
      <3>6. ASSUME gem[u].number \notin Prerelease,
                   NEW j \in 1 .. 6, j < at', MoveOrder[j][1] = "latest"
            PROVE  Matches(dest'[MoveOrder[j]], gem[u])
        <4>1. CASE j = at
          BY <2>3, <3>2, <3>6, <4>1
        <4>2. CASE j # at
          <5>1. MoveOrder[j] # MoveOrder[at] /\ j < at
            BY <1>1, <3>1, <3>6, <4>2, MoveOrderLists
          <5> QED
            BY <2>3, <3>2, <3>6, <5>1
        <4> QED
          BY <4>1, <4>2
      <3> QED
        BY <3>5, <3>6
    <2>7. CASE SkipIndex
      <3>1. tmp[MoveOrder[at][1]] = Missing /\ at' = at + 1 /\ dest' = dest
        BY <2>7 DEF SkipIndex, disk
      <3>2. ASSUME gem[u].number \notin Prerelease,
                   NEW j \in 1 .. 6, j < at', MoveOrder[j][1] = "latest"
            PROVE  Matches(dest'[MoveOrder[j]], gem[u])
        <4>1. j # at
          BY <2>3, <3>1, <3>2
        <4>2. j < at
          BY <1>1, <3>1, <3>2, <4>1
        <4> QED
          BY <2>3, <3>1, <3>2, <4>2
      <3>3. \A g \in KeptReleases, c \in {"plain", "gz"} :
               Whole(<<"latest", c>>)' => Matches(dest'[<<"latest", c>>], g)
        BY <3>1 DEF LatestInv, Whole
      <3> QED
        BY <3>2, <3>3
    <2> QED
      BY <2>5, <2>6, <2>7 DEF MoveIndexes
  <1> QED
    BY <1>4, <1>5 DEF MoveIndexes, RemoveOldIndex, MoveNewIndex, SkipIndex, Moving

\* Nothing is acknowledged before the first start has ended.
LEMMA LatestStart ==
    ASSUME MutexInv, WholeInv, Start
    PROVE  LatestInv'
  <1>1. UNCHANGED <<pc, acked>> /\ server # "up"
    BY DEF Start, GenerateIndex, ClearGemspecs, InstallGemspecs, FinishInstall,
           handlers, history
  <1> QED
    BY <1>1, LatestIdle DEF MutexInv, WholeInv, Done

\* Every step keeps NewestInv, whether the process is killed or not.
LEMMA NewestStep ==
    ASSUME TypeOK, MutexInv, StorageInv, PublishInv, BoundInv, NewestInv,
           [Next]_vars
    PROVE  NewestInv'
  <1> SUFFICES ASSUME crashes' = 0 PROVE WholeInv' /\ ListedInv' /\ LatestInv'
    BY DEF NewestInv
  <1>1. crashes = 0 /\ ~Crash
    BY NotKilled
  <1>2. WholeInv /\ ListedInv /\ LatestInv
    BY <1>1 DEF NewestInv
  <1>3. WholeInv' /\ ListedInv'
    BY <1>1, <1>2, WholeStep, ListedStep
  <1>4. LatestInv'
    <2>1. CASE UNCHANGED vars
      <3>1. UNCHANGED <<dest, tmp, at, acked, withdrawn, gem, pc>>
        BY <2>1 DEF vars, disk, work, handlers, history
      <3> QED
        BY <1>2, <3>1 DEF LatestInv, KeptReleases, Kept, Whole, Matches
    <2> QED
      BY <1>1, <1>2, <2>1, LatestUpload, LatestYank, LatestMove, LatestStart
         DEF Next
  <1> QED
    BY <1>3, <1>4

\* The first state: nothing is stored, and no handler runs.
LEMMA InitQuiet == Init => MutexInv /\ PublishInv /\ StorageInv /\ Stored = {}
  <1>1. Init => MutexInv /\ PublishInv
    BY RepositoryAssumption
       DEF Init, MutexInv, PublishInv, AckedIsPublished, Critical, YankSteps,
           UploadSteps, Done, Requests
  <1>2. Init => StorageInv /\ Stored = {}
    BY RepositoryAssumption
       DEF Init, StorageInv, ListedIsServable, Whole, NoTmp, UploadSteps, Path,
           IndexFile, Requests, Stored, StorePath
  <1> QED
    BY <1>1, <1>2

\* The latest index lists, for every acknowledged release that nobody yanked, its
\* name with a version that is not less, for any number of uploads and yanks,
\* unless the process is killed.
THEOREM LatestNoOlder == Spec => []LatestIsNoOlder
  <1> DEFINE Inv == /\ TypeOK /\ MutexInv /\ StorageInv /\ PublishInv
                    /\ BoundInv /\ NewestInv
  <1>1. Init => Inv
    <2>1. Init => BoundInv
      BY InitQuiet DEF BoundInv
    <2>2. Init => WholeInv /\ ListedInv /\ LatestInv
      BY DEF Init, WholeInv, ListedInv, LatestInv, KeptReleases, Kept, Requests
    <2> QED
      BY <2>1, <2>2, InitQuiet, InitType DEF NewestInv
  <1>2. Inv /\ [Next]_vars => Inv'
    BY TypeStep, MutexStep, StorageStep, PublishStep, BoundStep, NewestStep
  <1>3. Inv => LatestIsNoOlder
    BY DEF LatestIsNoOlder, NewestInv, LatestInv, KeptReleases, Kept, Matches
  <1> QED
    BY <1>1, <1>2, <1>3, PTL DEF Spec

-----------------------------------------------------------------------------
(* While nobody yanks: the compressed indexes say what the plain ones say. *)

\* No request to yank was received, and no handler of one runs.
LEMMA NoYank ==
    ASSUME TypeOK, PublishInv, [Next]_vars, withdrawn' = {}
    PROVE  /\ withdrawn = {}
           /\ \A y \in Yanks : ~Yank(y)
  <1>1. withdrawn \subseteq withdrawn' /\ \A y \in Yanks : ~ReceiveYank(y)
    BY Writers DEF ReceiveYank
  <1>2. \A y \in Yanks : pc[y] \notin YankSteps
    BY <1>1 DEF PublishInv
  <1> QED
    BY <1>1, <1>2, YankCourse DEF YankSteps

\* Each index has two positions in MoveOrder, the plain file's first.
LEMMA MoveOrderPairs ==
    /\ \A i \in Index : PlainAt[i] \in 1 .. 5
    /\ \A i, j \in Index :
          i # j => PlainAt[i] # PlainAt[j] /\ PlainAt[i] + 1 # PlainAt[j]
    /\ \A k \in 1 .. 6 : \E i \in Index :
          \/ k = PlainAt[i] /\ MoveOrder[k] = <<i, "plain">>
          \/ k = PlainAt[i] + 1 /\ MoveOrder[k] = <<i, "gz">>
  <1>1. /\ PlainAt["specs"] = 1 /\ PlainAt["latest"] = 3
        /\ PlainAt["prerelease"] = 5
    BY DEF PlainAt
  <1>2. /\ MoveOrder[1] = <<"specs", "plain">> /\ MoveOrder[2] = <<"specs", "gz">>
        /\ MoveOrder[3] = <<"latest", "plain">> /\ MoveOrder[4] = <<"latest", "gz">>
        /\ MoveOrder[5] = <<"prerelease", "plain">>
        /\ MoveOrder[6] = <<"prerelease", "gz">>
    BY DEF MoveOrder
  <1>3. \A k \in 1 .. 6 : k = 1 \/ k = 2 \/ k = 3 \/ k = 4 \/ k = 5 \/ k = 6
    OBVIOUS
  <1>4. \A k \in 1 .. 6 : \E i \in Index :
           \/ k = PlainAt[i] /\ MoveOrder[k] = <<i, "plain">>
           \/ k = PlainAt[i] + 1 /\ MoveOrder[k] = <<i, "gz">>
    BY <1>1, <1>2, <1>3 DEF Index
  <1> QED
    BY <1>1, <1>4 DEF Index

\* A step that moves no index file, and after which none is half moved, keeps
\* the two forms of each index alike.
LEMMA AgreeSettled ==
    ASSUME AgreeInv, UNCHANGED dest,
           \A i \in Index : ~PlainRemoved(i) /\ ~PlainMoved(i) /\ ~PlainMoved(i)'
    PROVE  AgreeInv'
  BY DEF AgreeInv

\* A handler's step before or after its work on the index files.
LEMMA AgreeQuiet ==
    ASSUME TypeOK, AgreeInv, UNCHANGED <<dest, tmp, at, place, server>>,
           NEW r \in Requests, NEW label, GoTo(r, label),
           pc[r] # "moving", label # "moving"
    PROVE  AgreeInv'
  <1>1. Moving' <=> Moving
    BY DEF Moving, GoTo, TypeOK
  <1> QED
    BY <1>1 DEF AgreeInv, PlainRemoved, PlainMoved, Replacing

\* Who moves index files: the start, or one upload in the mutex.
LEMMA MovingSince ==
    ASSUME MutexInv, NEW r \in Requests, pc[r] \in Critical, pc[r] # "moving"
    PROVE  ~Moving
  <1>1. server = "up"
    BY Kinds
  <1>2. \A q \in Requests : pc[q] # "moving"
    BY MutualExclusion DEF Critical
  <1> QED
    BY <1>1, <1>2 DEF Moving

\* An upload's steps keep the two forms of each index alike.
LEMMA AgreeUpload ==
    ASSUME TypeOK, MutexInv, WholeInv, AgreeInv, NEW u \in Uploads, Upload(u)
    PROVE  AgreeInv'
  <1>0. u \in Requests
    BY DEF Requests
  <1>1. CASE SaveUpload(u)
    BY <1>0, <1>1, AgreeQuiet DEF SaveUpload, work
  <1>2. CASE BeginUpdate(u)
    BY <1>0, <1>2, AgreeQuiet DEF BeginUpdate, work, disk
  <1>3. CASE ReadVersions(u)
    BY <1>0, <1>3, AgreeQuiet DEF ReadVersions, work, disk
  <1>4. CASE PutVersions(u)
    BY <1>0, <1>4, AgreeQuiet DEF PutVersions, work, disk
  <1>5. CASE CreateGemspec(u)
    BY <1>0, <1>5, AgreeQuiet DEF CreateGemspec, work
  <1>6. CASE WriteGemspec(u)
    BY <1>0, <1>6, AgreeQuiet DEF WriteGemspec, work
  <1>7. CASE UpdateSpecsIndexes(u)
    <2>1. ~Moving
      BY <1>0, <1>7, MovingSince DEF UpdateSpecsIndexes, Critical
    <2>2. dest' = dest /\ at' = 1
      BY <1>7 DEF UpdateSpecsIndexes, disk
    <2>3. \A i \in Index : PlainAt[i] + 1 # 1
      BY MoveOrderPairs
    <2> QED
      BY <2>1, <2>2, <2>3, AgreeSettled DEF PlainRemoved, PlainMoved, Replacing
  <1>8. CASE FinishUpdate(u)
    <2>1. dest' = dest /\ tmp' = NoTmp /\ at = 7
      BY <1>8 DEF FinishUpdate, disk
    <2>2. \A i \in Index : PlainAt[i] # 7 /\ PlainAt[i] + 1 # 7
      BY MoveOrderPairs
    <2> QED
      BY <2>1, <2>2, AgreeSettled DEF PlainRemoved, PlainMoved, Replacing, NoTmp
  <1> QED
    BY <1>1, <1>2, <1>3, <1>4, <1>5, <1>6, <1>7, <1>8, NoPanic DEF Upload

\* Moving the files into place replaces the plain form of an index and then the
\* compressed one by the same list.
LEMMA AgreeMove ==
    ASSUME TypeOK, MutexInv, WholeInv, AgreeInv, MoveIndexes
    PROVE  AgreeInv'
  <1>1. UNCHANGED <<tmp, server, pc>> /\ at \in 1 .. 6 /\ Moving
    BY DEF MoveIndexes, RemoveOldIndex, MoveNewIndex, SkipIndex, handlers, TypeOK
  <1>2. Moving' <=> Moving
    BY <1>1 DEF Moving
  <1>3. PICK i \in Index : \/ at = PlainAt[i] /\ MoveOrder[at] = <<i, "plain">>
                           \/ at = PlainAt[i] + 1 /\ MoveOrder[at] = <<i, "gz">>
    BY <1>1, MoveOrderPairs
  <1>4. \A j \in Index : PlainAt[j] \in Int
    BY MoveOrderPairs
  <1>5. \A j \in Index : j # i => /\ ~PlainRemoved(j) /\ ~PlainMoved(j)
                                  /\ dest[<<j, "gz">>] = dest[<<j, "plain">>]
                                  /\ at + 1 # PlainAt[j] + 1
    <2>1. \A j \in Index : j # i => at # PlainAt[j] /\ at # PlainAt[j] + 1
      BY <1>3, <1>4, MoveOrderPairs
    <2> QED
      BY <1>3, <1>4, <2>1 DEF AgreeInv, PlainRemoved, PlainMoved
  <1>6. MoveOrder[at] \in IndexFile /\ MoveOrder[at][1] = i
    BY <1>3 DEF IndexFile
  <1>7. SUFFICES /\ PlainMoved(i)' => dest'[<<i, "plain">>] = tmp[i]
                 /\ \/ PlainRemoved(i)' \/ PlainMoved(i)'
                    \/ dest'[<<i, "gz">>] = dest'[<<i, "plain">>]
                 /\ \A f : f[1] # i => dest'[f] = dest[f]
                 /\ at' = at \/ at' = at + 1
    <2>1. ASSUME NEW j \in Index, j # i
          PROVE  ~PlainMoved(j)' /\ dest'[<<j, "gz">>] = dest'[<<j, "plain">>]
      <3>1. ~PlainMoved(j)'
        <4>1. at' # PlainAt[j] + 1
          BY <1>3, <1>4, <1>5, <1>7, <2>1, MoveOrderPairs
        <4> QED
          BY <4>1 DEF PlainMoved
      <3> QED
        BY <1>5, <1>7, <2>1, <3>1
    <2> QED
      BY <1>1, <1>7, <2>1 DEF AgreeInv
  <1>8. CASE RemoveOldIndex
    <2>1. /\ at' = at /\ place' = "emptied" /\ tmp[i] # Missing
          /\ dest' = [dest EXCEPT ![MoveOrder[at]] = Missing] /\ place = "filled"
      BY <1>6, <1>8 DEF RemoveOldIndex
    <2>2. Replacing(i) /\ Replacing(i)'
      BY <1>1, <1>2, <2>1 DEF Replacing
    <2>3. \A f : f # MoveOrder[at] => dest'[f] = dest[f]
      BY <1>6, <2>1 DEF TypeOK
    <2>4. CASE at = PlainAt[i] /\ MoveOrder[at] = <<i, "plain">>
      <3>1. PlainRemoved(i)' /\ ~PlainMoved(i)'
        BY <1>4, <2>1, <2>2, <2>4 DEF PlainRemoved, PlainMoved
      <3> QED
        BY <1>6, <2>1, <2>3, <3>1
    <2>5. CASE at = PlainAt[i] + 1 /\ MoveOrder[at] = <<i, "gz">>
      <3>1. PlainMoved(i) /\ PlainMoved(i)'
        BY <2>1, <2>2, <2>5 DEF PlainMoved
      <3>2. dest'[<<i, "plain">>] = tmp[i]
        BY <2>3, <2>5, <3>1 DEF AgreeInv
      <3> QED
        BY <1>6, <2>1, <2>3, <3>1, <3>2
    <2> QED
      BY <1>3, <2>4, <2>5
  <1>9. CASE MoveNewIndex
    <2>1. /\ at' = at + 1 /\ place = "emptied"
          /\ dest' = [dest EXCEPT ![MoveOrder[at]] = tmp[i]]
      BY <1>6, <1>9 DEF MoveNewIndex
    <2>2. tmp[i] # Missing
      <3>1. CASE server = "installing"
        BY <3>1 DEF WholeInv
      <3>2. CASE \E r \in Requests : pc[r] = "moving"
        BY <1>6, <2>1, <3>2, Kinds DEF WholeInv
      <3> QED
        BY <1>1, <3>1, <3>2 DEF Moving
    <2>3. dest'[MoveOrder[at]] = tmp[i] /\ \A f : f # MoveOrder[at] => dest'[f] = dest[f]
      BY <1>6, <2>1 DEF TypeOK
    <2>4. Replacing(i) /\ Replacing(i)'
      BY <1>1, <1>2, <2>2 DEF Replacing
    <2>5. CASE at = PlainAt[i] /\ MoveOrder[at] = <<i, "plain">>
      <3>1. PlainMoved(i)'
        BY <2>1, <2>4, <2>5 DEF PlainMoved
      <3> QED
        BY <2>1, <2>3, <2>5, <3>1
    <2>6. CASE at = PlainAt[i] + 1 /\ MoveOrder[at] = <<i, "gz">>
      <3>1. PlainMoved(i) /\ ~PlainMoved(i)'
        BY <1>4, <2>1, <2>4, <2>6 DEF PlainMoved
      <3>2. dest'[<<i, "plain">>] = tmp[i]
        BY <2>3, <2>6, <3>1 DEF AgreeInv
      <3> QED
        BY <2>1, <2>3, <2>6, <3>1, <3>2
    <2> QED
      BY <1>3, <2>5, <2>6
  <1>10. CASE SkipIndex
    <2>1. /\ at' = at + 1 /\ dest' = dest /\ tmp[i] = Missing
      BY <1>6, <1>10 DEF SkipIndex, disk
    <2> QED
      BY <1>1, <2>1 DEF AgreeInv, PlainRemoved, PlainMoved, Replacing
  <1> QED
    BY <1>8, <1>9, <1>10 DEF MoveIndexes

\* The first start makes both forms of each index.
LEMMA AgreeStart ==
    ASSUME TypeOK, MutexInv, WholeInv, AgreeInv, Start
    PROVE  AgreeInv'
  <1>0. UNCHANGED pc /\ \A r \in Requests : pc[r] # "moving"
    BY DEF Start, GenerateIndex, ClearGemspecs, InstallGemspecs, FinishInstall,
           handlers, MutexInv, Done
  <1>1. CASE GenerateIndex \/ ClearGemspecs \/ InstallGemspecs
    <2>1. server \in {"down", "clearing", "staging"} /\ UNCHANGED <<dest, at>>
      BY <1>1 DEF GenerateIndex, ClearGemspecs, InstallGemspecs, disk, work
    <2>2. at = 1 /\ ~Moving
      BY <1>0, <2>1 DEF WholeInv, Moving
    <2>3. \A i \in Index : PlainAt[i] + 1 # 1
      BY MoveOrderPairs
    <2> QED
      BY <2>1, <2>2, <2>3, AgreeSettled DEF PlainRemoved, PlainMoved, Replacing
  <1>2. CASE FinishInstall
    <2>1. dest' = dest /\ tmp' = NoTmp /\ at = 7
      BY <1>2 DEF FinishInstall, disk
    <2>2. \A i \in Index : PlainAt[i] # 7 /\ PlainAt[i] + 1 # 7
      BY MoveOrderPairs
    <2> QED
      BY <2>1, <2>2, AgreeSettled DEF PlainRemoved, PlainMoved, Replacing, NoTmp
  <1> QED
    BY <1>1, <1>2 DEF Start

-----------------------------------------------------------------------------
(* While nobody yanks: what is in an index has its gemspec.                *)

\* A handler's step that touches neither gemspecs nor indexes, and is not at the
\* gemspec or past it, before or after.
LEMMA GemspecQuiet ==
    ASSUME TypeOK, GemspecInv, UNCHANGED <<gemspecs, dest, tmp>>,
           server = "up", server' = "up",
           NEW r \in Requests, NEW label, GoTo(r, label),
           pc[r] \notin {"describing", "described", "moving"},
           label \notin {"describing", "described", "moving"},
           \A q \in Requests : q # r => gem'[q] = gem[q]
    PROVE  GemspecInv'
  <1>1. \A q \in Requests :
           /\ pc[q] \in {"describing", "described", "moving"} =>
                 pc'[q] = pc[q] /\ gem'[q] = gem[q]
           /\ pc'[q] \in {"describing", "described", "moving"} =>
                 pc'[q] = pc[q] /\ gem'[q] = gem[q]
    BY DEF GoTo, TypeOK
  <1>2. \A f \in IndexFile : Whole(f)' => \A g \in dest'[f] : gemspecs'[g] = "whole"
    BY DEF GemspecInv, Whole, Described
  <1>3. \A i \in Index : tmp'[i] # Missing =>
           \A g \in tmp'[i] : gemspecs'[g] = "whole"
    BY DEF GemspecInv, Described
  <1>4. \A g \in Gem : gemspecs'[g] = "empty" =>
           \E u \in Uploads : pc'[u] = "describing" /\ gem'[u] = g
    BY <1>1 DEF GemspecInv, Requests
  <1>5. \A u \in Uploads :
           /\ pc'[u] = "describing" => gemspecs'[gem'[u]] = "empty"
           /\ pc'[u] \in {"described", "moving"} => gemspecs'[gem'[u]] = "whole"
    BY <1>1 DEF GemspecInv, Requests
  <1> QED
    BY <1>2, <1>3, <1>4, <1>5 DEF GemspecInv, Described

\* Where whole gemspecs stay whole, a set of gems that has them keeps them.
LEMMA DescribedStays ==
    ASSUME NEW S, S \subseteq Gem, Described(S),
           \A g \in Gem : gemspecs[g] = "whole" => gemspecs'[g] = "whole"
    PROVE  \A g \in S : gemspecs'[g] = "whole"
  BY DEF Described

\* An upload writes a gem's gemspec before the gem gets into an index.
LEMMA GemspecUpload ==
    ASSUME TypeOK, MutexInv, WholeInv, GemspecInv, NEW u \in Uploads, Upload(u)
    PROVE  GemspecInv'
  <1>0. u \in Requests /\ gem[u] \in Gem
    BY DEF Requests, TypeOK
  <1>1. CASE SaveUpload(u)
    <2>1. \A q \in Requests : q # u => gem'[q] = gem[q]
      BY <1>1 DEF SaveUpload, TypeOK
    <2> QED
      BY <1>0, <1>1, <2>1, GemspecQuiet DEF SaveUpload, work
  <1>2. ASSUME UNCHANGED <<gemspecs, dest, tmp, server, gem>>,
               pc[u] \in {"saved", "mapped", "read"},
               NEW label \in {"mapped", "read", "stored", "failed"}, GoTo(u, label)
        PROVE  GemspecInv'
    <2>1. server = "up"
      BY <1>0, <1>2 DEF MutexInv, Done
    <2> QED
      BY <1>0, <1>2, <2>1, GemspecQuiet
  <1>3. CASE BeginUpdate(u)
    BY <1>2, <1>3 DEF BeginUpdate, work, disk
  <1>4. CASE ReadVersions(u)
    BY <1>2, <1>4 DEF ReadVersions, work, disk
  <1>5. CASE PutVersions(u)
    BY <1>2, <1>5 DEF PutVersions, work, disk
  <1>6. ASSUME pc[u] \in Critical
        PROVE  server = "up" /\ \A q \in Requests : pc[q] \in Critical => q = u
    BY <1>0, <1>6, Kinds, MutualExclusion
  <1>7. CASE CreateGemspec(u)
    <2>1. /\ pc[u] = "stored" /\ UNCHANGED <<dest, tmp, server, gem>>
      BY <1>7 DEF CreateGemspec, work
    <2>2. /\ server = "up"
          /\ \A q \in Uploads : pc[q] \notin {"describing", "described", "moving"}
      BY <1>6, <2>1 DEF Critical, Requests
    <2>3. \A g \in Gem : gemspecs[g] # "empty"
      BY <2>2 DEF GemspecInv
    <2>4. CASE gemspecs[gem[u]] = "absent"
      <3>1. /\ gemspecs' = [gemspecs EXCEPT ![gem[u]] = "empty"]
            /\ pc' = [pc EXCEPT ![u] = "describing"]
        BY <1>7, <2>4 DEF CreateGemspec, GoTo
      <3>2. gemspecs'[gem[u]] = "empty"
            /\ \A g \in Gem : g # gem[u] => gemspecs'[g] = gemspecs[g]
        BY <1>0, <3>1 DEF TypeOK
      <3>3. \A g \in Gem : gemspecs[g] = "whole" => gemspecs'[g] = "whole"
        BY <2>4, <3>2
      <3>4. \A q \in Uploads :
               pc'[q] \in {"describing", "described", "moving"} => q = u
        BY <2>2, <3>1 DEF TypeOK, Requests
      <3>5. pc'[u] = "describing"
        BY <1>0, <3>1 DEF TypeOK
      <3>6. \A f \in IndexFile : Whole(f)' => \A g \in dest'[f] : gemspecs'[g] = "whole"
        BY <2>1, <3>3, DescribedStays DEF GemspecInv, Whole, TypeOK
      <3>7. \A i \in Index : tmp'[i] # Missing =>
               \A g \in tmp'[i] : gemspecs'[g] = "whole"
        BY <2>1, <2>2, <3>3, DescribedStays DEF GemspecInv, TypeOK
      <3> QED
        BY <2>1, <2>2, <2>3, <3>2, <3>4, <3>5, <3>6, <3>7 DEF GemspecInv, Described
    <2>5. CASE gemspecs[gem[u]] # "absent"
      <3>1. gemspecs' = gemspecs /\ pc' = [pc EXCEPT ![u] = "described"]
        BY <1>7, <2>5 DEF CreateGemspec, GoTo
      <3>2. gemspecs[gem[u]] = "whole"
        BY <1>0, <2>3, <2>5 DEF TypeOK
      <3>3. \A q \in Uploads :
               /\ pc'[q] # "describing"
               /\ pc'[q] \in {"described", "moving"} => q = u
        BY <2>2, <3>1 DEF TypeOK, Requests
      <3> QED
        BY <2>1, <2>2, <2>3, <3>1, <3>2, <3>3 DEF GemspecInv, Described, Whole
    <2> QED
      BY <2>4, <2>5
  <1>8. CASE WriteGemspec(u)
    <2>1. /\ pc[u] = "describing" /\ UNCHANGED <<dest, tmp, server, gem>>
          /\ pc' = [pc EXCEPT ![u] = "described"]
          /\ gemspecs' = [gemspecs EXCEPT ![gem[u]] =
                             IF @ = "absent" THEN "absent" ELSE "whole"]
      BY <1>8 DEF WriteGemspec, GoTo, work
    <2>2. server = "up" /\ \A q \in Requests : pc[q] \in Critical => q = u
      BY <1>6, <2>1 DEF Critical
    <2>3. gemspecs[gem[u]] = "empty"
      BY <2>1 DEF GemspecInv
    <2>4. gemspecs'[gem[u]] = "whole"
          /\ \A g \in Gem : g # gem[u] => gemspecs'[g] = gemspecs[g]
      BY <1>0, <2>1, <2>3 DEF TypeOK
    <2>5. \A g \in Gem : gemspecs'[g] # "empty"
      BY <2>2, <2>4 DEF GemspecInv, Critical, Requests
    <2>6. \A q \in Uploads :
             /\ pc'[q] # "describing"
             /\ pc'[q] \in {"described", "moving"} => q = u
      BY <1>0, <2>1, <2>2 DEF TypeOK, Critical, Requests
    <2>7. \A g \in Gem : gemspecs[g] = "whole" => gemspecs'[g] = "whole"
      BY <2>4
    <2>8. \A f \in IndexFile : Whole(f)' => \A g \in dest'[f] : gemspecs'[g] = "whole"
      BY <2>1, <2>7, DescribedStays DEF GemspecInv, Whole, TypeOK
    <2>9. \A i \in Index : tmp'[i] # Missing =>
             \A g \in tmp'[i] : gemspecs'[g] = "whole"
      BY <2>1, <2>2, <2>7, DescribedStays DEF GemspecInv, TypeOK
    <2> QED
      BY <2>1, <2>2, <2>4, <2>5, <2>6, <2>8, <2>9 DEF GemspecInv, Described
  <1>9. CASE UpdateSpecsIndexes(u)
    <2> DEFINE new == Partition({gem[u]})
    <2>1. /\ pc[u] = "described" /\ UNCHANGED <<dest, gemspecs, server, gem>>
          /\ tmp' = [i \in Index |-> UpdatedIndex(i, new[i])]
          /\ pc' = [pc EXCEPT ![u] = "moving"]
      BY <1>9 DEF UpdateSpecsIndexes, GoTo, disk
    <2>2. server = "up" /\ \A q \in Requests : pc[q] \in Critical => q = u
      BY <1>6, <2>1 DEF Critical
    <2>3. gemspecs[gem[u]] = "whole"
      BY <2>1 DEF GemspecInv
    <2>4. \A q \in Uploads :
             /\ pc'[q] # "describing"
             /\ pc'[q] \in {"described", "moving"} => q = u
      BY <1>0, <2>1, <2>2 DEF TypeOK, Critical, Requests
    <2>5. \A g \in Gem : gemspecs[g] # "empty"
      BY <2>1, <2>2 DEF GemspecInv, Critical, Requests
    <2>6. ASSUME NEW i \in Index, tmp'[i] # Missing PROVE Described(tmp'[i])
      <3>1. tmp'[i] = UpdatedIndex(i, new[i])
        BY <2>1
      <3>2. /\ dest[<<i, "plain">>] \notin {Missing, Truncated}
            /\ tmp'[i] \subseteq dest[<<i, "plain">>] \cup new[i]
        BY <2>6, <3>1, UpdatedIndexType
      <3>3. new[i] \subseteq {gem[u]}
        BY PartitionType
      <3>4. Described(dest[<<i, "plain">>])
        BY <3>2 DEF GemspecInv, Whole, IndexFile
      <3> QED
        BY <2>3, <3>2, <3>3, <3>4 DEF Described
    <2> HIDE DEF new
    <2> QED
      BY <2>1, <2>2, <2>3, <2>4, <2>5, <2>6 DEF GemspecInv, Described, Whole
  <1>10. CASE FinishUpdate(u)
    <2>1. /\ pc[u] = "moving" /\ UNCHANGED <<dest, gemspecs, server, gem>>
          /\ tmp' = NoTmp /\ pc' = [pc EXCEPT ![u] = "answered"]
      BY <1>10 DEF FinishUpdate, GoTo, disk
    <2>2. \A q \in Requests : pc[q] \in Critical => q = u
      BY <1>6, <2>1 DEF Critical
    <2>3. \A q \in Uploads : pc'[q] \notin {"describing", "described", "moving"}
      BY <1>0, <2>1, <2>2 DEF TypeOK, Critical, Requests
    <2>4. \A g \in Gem : gemspecs[g] # "empty"
      BY <2>1, <2>2 DEF GemspecInv, Critical, Requests
    <2> QED
      BY <2>1, <2>3, <2>4 DEF GemspecInv, Described, Whole, NoTmp
  <1> QED
    BY <1>1, <1>3, <1>4, <1>5, <1>7, <1>8, <1>9, <1>10, NoPanic DEF Upload

\* What is moved into place was described when it was built.
LEMMA GemspecMove ==
    ASSUME TypeOK, MutexInv, GemspecInv, MoveIndexes
    PROVE  GemspecInv'
  <1>1. /\ UNCHANGED <<files, gemspecs, tmp, server, pc, gem>> /\ Moving
        /\ at \in 1 .. 6
    BY DEF MoveIndexes, RemoveOldIndex, MoveNewIndex, SkipIndex, handlers, disk,
           TypeOK
  <1>2. MoveOrder[at] \in IndexFile /\ MoveOrder[at][1] \in Index
    BY <1>1, OrderTypes
  <1>3. server \notin {"clearing", "staging"}
    BY <1>1, Kinds DEF Moving, Critical
  <1>4. \A f \in IndexFile :
           Whole(f)' => \/ Whole(f) /\ dest'[f] = dest[f]
                        \/ tmp[f[1]] # Missing /\ dest'[f] = tmp[f[1]]
    BY <1>2 DEF MoveIndexes, RemoveOldIndex, MoveNewIndex, SkipIndex, disk, Whole,
                TypeOK
  <1>5. \A f \in IndexFile : f[1] \in Index
    BY DEF IndexFile
  <1>6. \A f \in IndexFile : Whole(f)' => Described(dest'[f])
    BY <1>3, <1>4, <1>5 DEF GemspecInv
  <1> QED
    BY <1>1, <1>6 DEF GemspecInv, Described, Present

\* The first start writes the gemspecs of all the gems there are, and then the
\* indexes of the same gems.
LEMMA GemspecStart ==
    ASSUME TypeOK, MutexInv, WholeInv, GemspecInv, Start
    PROVE  GemspecInv'
  <1>0. UNCHANGED <<pc, gem, dest, files>> /\ server # "up"
    BY DEF Start, GenerateIndex, ClearGemspecs, InstallGemspecs, FinishInstall,
           handlers, disk
  <1>1. \A u \in Uploads : pc[u] \notin {"describing", "described", "moving"}
    BY <1>0 DEF MutexInv, Requests, Done
  <1>2. \A g \in Gem : gemspecs[g] # "empty"
    BY <1>1 DEF GemspecInv
  <1>3. Present' = Present
    BY <1>0 DEF Present
  <1>4. server \in {"down", "clearing", "staging"} =>
           \A f \in IndexFile : dest[f] = Missing
    BY DEF WholeInv
  <1>5. CASE GenerateIndex
    <2>1. UNCHANGED gemspecs /\ server = "down" /\ \A i \in Index : <<i, "gz">> \in IndexFile
      BY <1>5 DEF GenerateIndex, disk, IndexFile
    <2>2. tmp' = Partition(Present) /\ server' = "clearing"
      <3>1. \E i \in Index : dest[<<i, "gz">>] = Missing
        BY <1>4, <2>1 DEF Index
      <3> QED
        BY <1>5, <3>1 DEF GenerateIndex
    <2>3. \A i \in Index : tmp'[i] \subseteq Present
      BY <2>2, PartitionType
    <2> QED
      BY <1>0, <1>1, <1>2, <1>3, <1>4, <2>1, <2>2, <2>3 DEF GemspecInv, Whole
  <1>6. CASE ClearGemspecs
    <2>1. /\ server = "clearing" /\ server' = "staging" /\ UNCHANGED tmp
          /\ gemspecs' = [g \in Gem |-> "absent"]
      BY <1>6 DEF ClearGemspecs, work
    <2> QED
      BY <1>0, <1>1, <1>3, <1>4, <2>1 DEF GemspecInv, Whole
  <1>7. CASE InstallGemspecs
    <2>1. /\ server = "staging" /\ server' = "installing" /\ UNCHANGED tmp
          /\ gemspecs' = [g \in Gem |-> IF g \in Present THEN "whole" ELSE "absent"]
      BY <1>7 DEF InstallGemspecs, work
    <2>2. Present \subseteq Gem
      BY DEF Present
    <2>3. \A i \in Index : tmp'[i] # Missing => \A g \in tmp'[i] : gemspecs'[g] = "whole"
      BY <2>1, <2>2 DEF GemspecInv
    <2> QED
      BY <1>0, <1>1, <1>4, <2>1, <2>3 DEF GemspecInv, Whole, Described
  <1>8. CASE FinishInstall
    <2>1. tmp' = NoTmp /\ UNCHANGED gemspecs
      BY <1>8 DEF FinishInstall, disk
    <2> QED
      BY <1>0, <1>1, <1>2, <2>1 DEF GemspecInv, Whole, Described, NoTmp
  <1> QED
    BY <1>5, <1>6, <1>7, <1>8 DEF Start

\* Every step keeps UnyankedInv, whether the process is killed or not.
LEMMA UnyankedStep ==
    ASSUME TypeOK, MutexInv, PublishInv, UnyankedInv, [Next]_vars
    PROVE  UnyankedInv'
  <1> SUFFICES ASSUME crashes' = 0, withdrawn' = {}
               PROVE  WholeInv' /\ AgreeInv' /\ GemspecInv'
    BY DEF UnyankedInv
  <1>1. crashes = 0 /\ ~Crash /\ withdrawn = {} /\ \A y \in Yanks : ~Yank(y)
    BY NotKilled, NoYank
  <1>2. WholeInv /\ AgreeInv /\ GemspecInv
    BY <1>1 DEF UnyankedInv
  <1>3. WholeInv'
    BY <1>1, <1>2, WholeStep
  <1>4. AgreeInv' /\ GemspecInv'
    <2>1. CASE UNCHANGED vars
      <3>1. UNCHANGED <<files, gemspecs, dest, tmp, at, place, server, gem, pc>>
        BY <2>1 DEF vars, disk, work, handlers
      <3> QED
        BY <1>2, <3>1 DEF AgreeInv, GemspecInv, PlainRemoved, PlainMoved, Replacing,
                          Moving, Described, Whole, Present
    <2>2. ASSUME NEW u \in Uploads, Upload(u) PROVE AgreeInv' /\ GemspecInv'
      BY <1>2, <2>2, AgreeUpload, GemspecUpload
    <2>3. CASE MoveIndexes
      BY <1>2, <2>3, AgreeMove, GemspecMove
    <2>4. CASE Start
      BY <1>2, <2>4, AgreeStart, GemspecStart
    <2> QED
      BY <1>1, <2>1, <2>2, <2>3, <2>4 DEF Next
  <1> QED
    BY <1>3, <1>4

\* The invariant behind the two theorems below.
LEMMA UnyankedInvariant == Spec => [](TypeOK /\ MutexInv /\ UnyankedInv)
  <1>1. Init => UnyankedInv
    <2>1. Init => WholeInv
      BY DEF Init, WholeInv, Requests
    <2>2. Init => AgreeInv
      BY DEF Init, AgreeInv, PlainMoved, Replacing, NoTmp, Moving, IndexFile
    <2>3. Init => GemspecInv
      BY DEF Init, GemspecInv, Whole, NoTmp, Requests
    <2> QED
      BY <2>1, <2>2, <2>3 DEF UnyankedInv
  <1>2. TypeOK /\ MutexInv /\ PublishInv /\ UnyankedInv /\ [Next]_vars
          => (TypeOK /\ MutexInv /\ PublishInv /\ UnyankedInv)'
    BY TypeStep, MutexStep, PublishStep, UnyankedStep
  <1> QED
    BY <1>1, <1>2, InitType, InitQuiet, PTL DEF Spec

\* With nobody in the mutex the compressed indexes, which clients get, say what
\* the plain ones say, for any number of uploads, unless the process is killed or
\* a yank comes.
THEOREM CompressedAgree == Spec => []CompressedAgrees
  <1>1. MutexInv /\ UnyankedInv => CompressedAgrees
    <2> SUFFICES ASSUME MutexInv, UnyankedInv, server = "up", lock = Free,
                        crashes = 0, withdrawn = {}
                 PROVE  \A i \in Index : dest[<<i, "gz">>] = dest[<<i, "plain">>]
      BY DEF CompressedAgrees
    <2>1. ~Moving
      BY RepositoryAssumption DEF Moving, MutexInv, Critical
    <2> QED
      BY <2>1 DEF UnyankedInv, AgreeInv, PlainRemoved, PlainMoved, Replacing
  <1> QED
    BY <1>1, UnyankedInvariant, PTL

-----------------------------------------------------------------------------
(* With yanks: an acknowledged gem keeps its gemspec if it is spared.      *)

\* A step that touches no gemspec, and brings no upload to its gemspec or on
\* from there.
LEMMA SparedQuiet ==
    ASSUME SparedInv, UNCHANGED <<gemspecs, acked>>, withdrawn \subseteq withdrawn',
           \A u \in Uploads :
              {pc[u], pc'[u]} \cap {"describing", "described", "moving"} # {} =>
                 pc'[u] = pc[u] /\ gem'[u] = gem[u]
    PROVE  SparedInv'
  <1> SUFFICES ASSUME NEW g \in Gem, Spared(g)'
               PROVE  /\ gemspecs'[g] = "empty" =>
                            \E u \in Uploads : pc'[u] = "describing" /\ gem'[u] = g
                      /\ \A u \in Uploads : pc'[u] = "describing" /\ gem'[u] = g =>
                            gemspecs'[g] = "empty"
                      /\ \A u \in Uploads :
                            pc'[u] \in {"described", "moving"} /\ gem'[u] = g =>
                               gemspecs'[g] = "whole"
                      /\ g \in acked' => gemspecs'[g] = "whole"
    BY DEF SparedInv
  <1>1. Spared(g)
    BY DEF Spared
  <1>2. \A u \in Uploads :
           /\ pc[u] \in {"describing", "described", "moving"} =>
                 pc'[u] = pc[u] /\ gem'[u] = gem[u]
           /\ pc'[u] \in {"describing", "described", "moving"} =>
                 pc'[u] = pc[u] /\ gem'[u] = gem[u]
    OBVIOUS
  <1> QED
    BY <1>1, <1>2 DEF SparedInv

\* An upload at its gemspec is alone there: it writes what it created, takes what
\* is whole as it is, and answers with a whole one.
LEMMA SparedUpload ==
    ASSUME TypeOK, MutexInv, WholeInv, SparedInv, NEW u \in Uploads, Upload(u)
    PROVE  SparedInv'
  <1>0. u \in Requests /\ gem[u] \in Gem
    BY DEF Requests, TypeOK
  <1>1. ASSUME pc[u] \in Critical
        PROVE  \A q \in Uploads : pc[q] \in Critical => q = u
    BY <1>0, <1>1, MutualExclusion DEF Requests
  <1>2. CASE pc[u] \in {"new", "saved", "mapped", "read"}
    <2>1. /\ UNCHANGED <<gemspecs, acked, withdrawn>>
          /\ pc'[u] \in {"saved", "mapped", "read", "stored", "failed"}
      BY <1>0, <1>2, NoPanic
         DEF Upload, SaveUpload, BeginUpdate, ReadVersions, PutVersions,
             CreateGemspec, WriteGemspec, UpdateSpecsIndexes, FinishUpdate, disk,
             history, GoTo, TypeOK
    <2>2. \A q \in Uploads : q # u => pc'[q] = pc[q] /\ gem'[q] = gem[q]
      BY <1>2, NoPanic
         DEF Upload, SaveUpload, BeginUpdate, ReadVersions, PutVersions,
             CreateGemspec, WriteGemspec, UpdateSpecsIndexes, FinishUpdate,
             GoTo, TypeOK, Requests
    <2> QED
      BY <1>2, <2>1, <2>2, SparedQuiet
  <1>3. CASE CreateGemspec(u)
    <2>1. pc[u] = "stored" /\ UNCHANGED <<gem, acked, withdrawn>>
      BY <1>3 DEF CreateGemspec, history
    <2>2. \A q \in Uploads : pc[q] \notin {"describing", "described", "moving"}
      BY <1>1, <2>1 DEF Critical
    <2>3. \A g \in Gem : Spared(g) => gemspecs[g] # "empty"
      BY <2>2 DEF SparedInv
    <2>4. CASE gemspecs[gem[u]] = "absent"
      <3>1. /\ gemspecs' = [gemspecs EXCEPT ![gem[u]] = "empty"]
            /\ pc' = [pc EXCEPT ![u] = "describing"]
        BY <1>3, <2>4 DEF CreateGemspec, GoTo
      <3>2. gemspecs'[gem[u]] = "empty"
            /\ \A g \in Gem : g # gem[u] => gemspecs'[g] = gemspecs[g]
        BY <1>0, <3>1 DEF TypeOK
      <3>3. \A q \in Uploads :
               pc'[q] \in {"describing", "described", "moving"} => q = u
        BY <2>2, <3>1 DEF TypeOK, Requests
      <3>4. pc'[u] = "describing"
        BY <1>0, <3>1 DEF TypeOK
      <3>5. Spared(gem[u]) => gem[u] \notin acked
        BY <1>0, <2>4 DEF SparedInv
      <3> QED
        BY <2>1, <2>3, <3>2, <3>3, <3>4, <3>5 DEF SparedInv, Spared
    <2>5. CASE gemspecs[gem[u]] # "absent"
      <3>1. gemspecs' = gemspecs /\ pc' = [pc EXCEPT ![u] = "described"]
        BY <1>3, <2>5 DEF CreateGemspec, GoTo
      <3>2. Spared(gem[u]) => gemspecs[gem[u]] = "whole"
        BY <1>0, <2>3, <2>5 DEF TypeOK
      <3>3. \A q \in Uploads :
               /\ pc'[q] # "describing"
               /\ pc'[q] \in {"described", "moving"} => q = u
        BY <2>2, <3>1 DEF TypeOK, Requests
      <3> QED
        BY <2>1, <2>3, <3>1, <3>2, <3>3 DEF SparedInv, Spared
    <2> QED
      BY <2>4, <2>5
  <1>4. CASE WriteGemspec(u)
    <2>1. /\ pc[u] = "describing" /\ UNCHANGED <<gem, acked, withdrawn>>
          /\ pc' = [pc EXCEPT ![u] = "described"]
          /\ gemspecs' = [gemspecs EXCEPT ![gem[u]] =
                             IF @ = "absent" THEN "absent" ELSE "whole"]
      BY <1>4 DEF WriteGemspec, GoTo, history
    <2>2. Spared(gem[u]) => gemspecs[gem[u]] = "empty"
      BY <1>0, <2>1 DEF SparedInv
    <2>3. /\ Spared(gem[u]) => gemspecs'[gem[u]] = "whole"
          /\ \A g \in Gem : g # gem[u] => gemspecs'[g] = gemspecs[g]
      BY <1>0, <2>1, <2>2 DEF TypeOK
    <2>4. \A q \in Uploads :
             /\ pc'[q] # "describing"
             /\ pc'[q] \in {"described", "moving"} => q = u
             /\ pc[q] = "describing" => q = u
      BY <1>1, <2>1 DEF TypeOK, Critical, Requests
    <2> QED
      BY <2>1, <2>3, <2>4 DEF SparedInv, Spared
  <1>5. CASE UpdateSpecsIndexes(u)
    <2>1. /\ pc[u] = "described" /\ UNCHANGED <<gemspecs, gem, acked, withdrawn>>
          /\ pc' = [pc EXCEPT ![u] = "moving"]
      BY <1>5 DEF UpdateSpecsIndexes, GoTo, disk, history
    <2>2. \A q \in Uploads : q # u =>
             {pc[q], pc'[q]} \cap {"describing", "described", "moving"} = {}
      BY <1>1, <2>1 DEF TypeOK, Critical, Requests
    <2>3. pc'[u] = "moving"
      BY <1>0, <2>1 DEF TypeOK
    <2> QED
      BY <2>1, <2>2, <2>3 DEF SparedInv, Spared
  <1>6. CASE FinishUpdate(u)
    <2>1. /\ pc[u] = "moving" /\ UNCHANGED <<gemspecs, gem, withdrawn>>
          /\ acked' = acked \cup {gem[u]} /\ pc' = [pc EXCEPT ![u] = "answered"]
      BY <1>6 DEF FinishUpdate, GoTo, disk
    <2>2. Spared(gem[u]) => gemspecs[gem[u]] = "whole"
      BY <1>0, <2>1 DEF SparedInv
    <2>3. \A q \in Uploads : /\ pc'[q] \notin {"describing", "described", "moving"}
                             /\ pc[q] # "describing"
      BY <1>1, <2>1 DEF TypeOK, Critical, Requests
    <2> QED
      BY <2>1, <2>2, <2>3 DEF SparedInv, Spared
  <1>7. pc[u] \in {"new", "saved", "mapped", "read"} \/ CreateGemspec(u)
        \/ WriteGemspec(u) \/ UpdateSpecsIndexes(u) \/ FinishUpdate(u)
    BY NoPanic DEF Upload, SaveUpload, BeginUpdate, ReadVersions, PutVersions
  <1> QED
    BY <1>2, <1>3, <1>4, <1>5, <1>6, <1>7

\* A yank removes one gemspec, the ruby platform's, and the gem it describes is
\* not a spared one.
LEMMA SparedYank ==
    ASSUME TypeOK, PublishInv, SparedInv, NEW y \in Yanks, Yank(y)
    PROVE  SparedInv'
  <1>0. y \in Requests /\ y \notin Uploads
    BY RepositoryAssumption DEF Requests
  <1>1. \A u \in Uploads : pc'[u] = pc[u] /\ gem'[u] = gem[u]
    BY <1>0 DEF Yank, ReceiveYank, BeginRemove, FindInIndex, TruncateIndex,
                RewriteIndex, FinishRemove, RemoveGemFile, RemoveGemspec,
                ReadForDelete, PutRemaining, GoTo, handlers, TypeOK, Requests
  <1>2. acked' = acked /\ withdrawn \subseteq withdrawn'
    BY DEF Yank, ReceiveYank, BeginRemove, FindInIndex, TruncateIndex,
           RewriteIndex, FinishRemove, RemoveGemFile, RemoveGemspec,
           ReadForDelete, PutRemaining, history
  <1>3. CASE RemoveGemspec(y)
    <2>1. gem[y] \in withdrawn
      BY <1>3 DEF RemoveGemspec, PublishInv, YankSteps
    <2>2. \A g \in Gem : Spared(g)' => Spared(g) /\ gemspecs'[g] = gemspecs[g]
      BY <1>2, <1>3, <2>1 DEF RemoveGemspec, Spared, TypeOK
    <2> QED
      BY <1>1, <1>2, <2>2 DEF SparedInv
  <1>4. ASSUME ~RemoveGemspec(y) PROVE UNCHANGED gemspecs
    BY <1>4 DEF Yank, ReceiveYank, BeginRemove, FindInIndex, TruncateIndex,
                RewriteIndex, FinishRemove, RemoveGemFile, ReadForDelete,
                PutRemaining, disk
  <1> QED
    BY <1>1, <1>2, <1>3, <1>4, SparedQuiet

\* Before the server serves, nothing is acknowledged and nobody uploads.
LEMMA SparedStart ==
    ASSUME MutexInv, WholeInv, SparedInv, Start
    PROVE  SparedInv'
  <1>1. /\ server # "up" /\ UNCHANGED <<pc, gem, acked, withdrawn>>
        /\ \/ UNCHANGED gemspecs
           \/ \A g \in Gem : gemspecs'[g] \in {"absent", "whole"}
    BY DEF Start, GenerateIndex, ClearGemspecs, InstallGemspecs, FinishInstall,
           handlers, history, disk
  <1>2. acked = {} /\ \A u \in Uploads :
                        pc[u] \notin {"describing", "described", "moving"}
    BY <1>1 DEF WholeInv, MutexInv, Requests, Done
  <1> QED
    BY <1>1, <1>2, SparedQuiet DEF SparedInv

\* Every step keeps DescribedInv, whether the process is killed or not.
LEMMA DescribedStep ==
    ASSUME TypeOK, MutexInv, PublishInv, DescribedInv, [Next]_vars
    PROVE  DescribedInv'
  <1> SUFFICES ASSUME crashes' = 0 PROVE WholeInv' /\ SparedInv'
    BY DEF DescribedInv
  <1>1. crashes = 0 /\ ~Crash
    BY NotKilled
  <1>2. WholeInv /\ SparedInv
    BY <1>1 DEF DescribedInv
  <1>3. WholeInv'
    BY <1>1, <1>2, WholeStep
  <1>4. SparedInv'
    <2>1. CASE UNCHANGED vars \/ MoveIndexes
      <3>1. UNCHANGED <<gemspecs, acked, withdrawn, gem, pc>>
        BY <2>1 DEF vars, disk, handlers, history, MoveIndexes, RemoveOldIndex,
                    MoveNewIndex, SkipIndex
      <3> QED
        BY <3>1, <1>2, SparedQuiet
    <2> QED
      BY <1>1, <1>2, <2>1, SparedUpload, SparedYank, SparedStart DEF Next
  <1> QED
    BY <1>3, <1>4

\* A gem in an index has a whole quick gemspec, for any number of uploads, unless
\* the process is killed; and once there are yanks, if it is acknowledged and none
\* of them removed the gemspec.
THEOREM IndexedDescribed == Spec => []IndexedHasGemspec
  <1> DEFINE Inv == TypeOK /\ MutexInv /\ PublishInv /\ DescribedInv
  <1>1. Init => Inv
    <2>1. Init => DescribedInv
      BY DEF Init, DescribedInv, WholeInv, SparedInv, Requests
    <2> QED
      BY <2>1, InitType, InitQuiet
  <1>2. Inv /\ [Next]_vars => Inv'
    BY TypeStep, MutexStep, PublishStep, DescribedStep
  <1>3. TypeOK /\ UnyankedInv /\ DescribedInv => IndexedHasGemspec
    <2> SUFFICES ASSUME TypeOK, UnyankedInv, DescribedInv, crashes = 0,
                        NEW f \in IndexFile, Whole(f), NEW g \in dest[f],
                        withdrawn = {} \/ g \in acked, Spared(g)
                 PROVE  gemspecs[g] = "whole"
      BY DEF IndexedHasGemspec
    <2>1. CASE withdrawn = {}
      BY <2>1 DEF UnyankedInv, GemspecInv, Described
    <2>2. CASE g \in acked
      BY <2>2 DEF DescribedInv, SparedInv, TypeOK
    <2> QED
      BY <2>1, <2>2
  <1> QED
    BY <1>1, <1>2, <1>3, UnyankedInvariant, PTL DEF Spec

-----------------------------------------------------------------------------
(* Whatever is killed: a server that serves has its compressed indexes.    *)

\* A handler's step before or after its work on the index files.
LEMMA CompressedQuiet ==
    ASSUME TypeOK, CompressedInv, UNCHANGED <<dest, tmp, at, place, server>>,
           NEW r \in Requests, NEW label, GoTo(r, label),
           pc[r] \notin {"moving", "rewriting"},
           label \notin {"moving", "rewriting"}
    PROVE  CompressedInv'
  <1>1. \A q \in Requests :
           (pc'[q] = "moving" <=> pc[q] = "moving")
           /\ (pc'[q] = "rewriting" <=> pc[q] = "rewriting")
    BY DEF GoTo, TypeOK
  <1>2. Moving' <=> Moving
    BY <1>1 DEF Moving
  <1> QED
    BY <1>1, <1>2 DEF CompressedInv, Whole, Requests

\* While the mutex is held for anything but the index files, they are at rest.
LEMMA CompressedInside ==
    ASSUME MutexInv, CompressedInv, NEW r \in Requests, pc[r] \in Critical,
           pc[r] \notin {"moving", "rewriting"}
    PROVE  /\ at = 1 /\ place = "filled" /\ server = "up"
           /\ \A q \in Requests : pc[q] \notin {"moving", "rewriting"}
           /\ \A i \in Index : Whole(<<i, "gz">>)
  <1>1. server = "up"
    BY Kinds
  <1>2. \A q \in Requests : pc[q] \notin {"moving", "rewriting"}
    BY MutualExclusion DEF Critical
  <1> QED
    BY <1>1, <1>2 DEF CompressedInv

\* The process ends: a compressed index may be missing now, none is truncated.
LEMMA CompressedDie ==
    ASSUME CompressedInv, Die
    PROVE  CompressedInv'
  <1>1. \A r \in Requests : pc'[r] \notin {"moving", "rewriting"}
    BY DieHandlers DEF Done
  <1>2. /\ server' = "down" /\ at' = 1 /\ place' = "filled" /\ dest' = dest
    BY DEF Die, disk
  <1> QED
    BY <1>1, <1>2 DEF CompressedInv, Moving, Requests

\* An upload's steps that are not moves.
LEMMA CompressedUpload ==
    ASSUME TypeOK, MutexInv, CompressedInv, NEW u \in Uploads, Upload(u)
    PROVE  CompressedInv'
  <1>0. u \in Requests /\ u \notin Yanks
    BY RepositoryAssumption DEF Requests
  <1>1. CASE SaveUpload(u)
    BY <1>0, <1>1, CompressedQuiet DEF SaveUpload, work
  <1>2. CASE BeginUpdate(u)
    BY <1>0, <1>2, CompressedQuiet DEF BeginUpdate, work, disk
  <1>3. CASE ReadVersions(u)
    BY <1>0, <1>3, CompressedQuiet DEF ReadVersions, work, disk
  <1>4. CASE PutVersions(u)
    BY <1>0, <1>4, CompressedQuiet DEF PutVersions, work, disk
  <1>5. CASE CreateGemspec(u)
    BY <1>0, <1>5, CompressedQuiet DEF CreateGemspec, work
  <1>6. CASE WriteGemspec(u)
    BY <1>0, <1>6, CompressedQuiet DEF WriteGemspec, work
  <1>7. CASE UpdateSpecsIndexes(u)
    <2>1. /\ at = 1 /\ place = "filled" /\ server = "up"
          /\ \A q \in Requests : pc[q] \notin {"moving", "rewriting"}
          /\ \A i \in Index : Whole(<<i, "gz">>)
      BY <1>0, <1>7, CompressedInside DEF UpdateSpecsIndexes, Critical
    <2>2. /\ at' = 1 /\ pc' = [pc EXCEPT ![u] = "moving"]
          /\ UNCHANGED <<dest, place, server>>
      BY <1>7 DEF UpdateSpecsIndexes, GoTo, disk
    <2>3. \A y \in Yanks : pc'[y] # "rewriting"
      BY <1>0, <2>1, <2>2 DEF TypeOK, Requests
    <2>4. u \in Requests /\ pc'[u] = "moving"
      BY <1>0, <2>2 DEF TypeOK
    <2> QED
      BY <2>1, <2>2, <2>3, <2>4 DEF CompressedInv, Whole
  <1>8. CASE PanicOnTruncated(u)
    BY <1>8, CompressedDie DEF PanicOnTruncated
  <1>9. CASE FinishUpdate(u)
    <2>1. pc[u] = "moving" /\ at = 7 /\ server = "up" /\ Moving
      BY <1>0, <1>9, Kinds DEF FinishUpdate, Critical, Moving
    <2>2. place = "filled" /\ \A i \in Index : Whole(<<i, "gz">>)
      BY <2>1 DEF CompressedInv, TypeOK
    <2>3. /\ at' = 1 /\ UNCHANGED <<dest, place, server>>
          /\ pc' = [pc EXCEPT ![u] = "answered"]
      BY <1>9 DEF FinishUpdate, GoTo, disk
    <2>4. \A q \in Requests : pc'[q] \notin {"moving", "rewriting"}
      BY <1>0, <2>1, <2>3, MutualExclusion DEF Critical, TypeOK
    <2> QED
      BY <2>1, <2>2, <2>3, <2>4 DEF CompressedInv, Whole, Requests
  <1> QED
    BY <1>1, <1>2, <1>3, <1>4, <1>5, <1>6, <1>7, <1>8, <1>9 DEF Upload

\* A yank's steps: it touches plain files only.
LEMMA CompressedYank ==
    ASSUME TypeOK, MutexInv, CompressedInv, NEW y \in Yanks, Yank(y)
    PROVE  CompressedInv'
  <1>0. y \in Requests
    BY DEF Requests
  <1>1. CASE ReceiveYank(y)
    BY <1>0, <1>1, CompressedQuiet DEF ReceiveYank, work, disk
  <1>2. CASE BeginRemove(y)
    BY <1>0, <1>2, CompressedQuiet DEF BeginRemove, work, disk
  <1>3. CASE FindInIndex(y)
    <2>1. UNCHANGED <<dest, tmp, at, place, server>> /\ pc[y] = "walking"
      BY <1>3 DEF FindInIndex, work, disk
    <2>2. GoTo(y, "failed") \/ GoTo(y, "rewriting")
      BY <1>3 DEF FindInIndex
    <2>3. CASE GoTo(y, "failed")
      BY <1>0, <2>1, <2>3, CompressedQuiet
    <2>4. CASE GoTo(y, "rewriting")
      <3>1. /\ at = 1 /\ place = "filled" /\ server = "up"
            /\ \A i \in Index : Whole(<<i, "gz">>)
        BY <1>0, <2>1, CompressedInside DEF Critical
      <3> QED
        BY <2>1, <3>1 DEF CompressedInv, Whole
    <2> QED
      BY <2>2, <2>3, <2>4
  <1>4. ASSUME pc[y] = "rewriting"
        PROVE  /\ server = "up" /\ ~Moving
               /\ at <= 4 /\ (place = "emptied" => at <= 3)
               /\ \A q \in Requests : q # y => pc[q] \notin {"moving", "rewriting"}
    <2>1. server = "up" /\ ~Moving
      BY <1>0, <1>4, Kinds, MovingSince DEF Critical
    <2> QED
      BY <1>0, <1>4, <2>1, MutualExclusion DEF CompressedInv, Critical
  <1>5. ASSUME pc[y] = "rewriting", UNCHANGED <<server, pc>>,
               \A i \in Index : dest'[<<i, "gz">>] = dest[<<i, "gz">>],
               at' <= 4, place' = "emptied" => at' <= 3
        PROVE  CompressedInv'
    <2>1. ~Moving'
      BY <1>4, <1>5 DEF Moving
    <2>2. \A i \in Index : Whole(<<i, "gz">>)'
      BY <1>4, <1>5 DEF CompressedInv, Whole
    <2> QED
      BY <1>0, <1>4, <1>5, <2>1, <2>2 DEF CompressedInv
  <1>6. CASE TruncateIndex(y) \/ RewriteIndex(y)
    <2>1. /\ pc[y] = "rewriting" /\ UNCHANGED <<server, pc>>
          /\ at <= 3 /\ at \in Nat
          /\ \/ place' = "emptied" /\ at' = at
             \/ place' = "filled" /\ at' = at + 1
      BY <1>6 DEF TruncateIndex, RewriteIndex, handlers, TypeOK
    <2>2. \A i \in Index : dest'[<<i, "gz">>] = dest[<<i, "gz">>]
      <3>1. \A f \in IndexFile : f # <<RewriteOrder[at], "plain">> => dest'[f] = dest[f]
        BY <1>6 DEF TruncateIndex, RewriteIndex, TypeOK
      <3> QED
        BY <3>1 DEF IndexFile
    <2> QED
      BY <1>5, <2>1, <2>2
  <1>7. CASE FinishRemove(y)
    <2>1. /\ pc[y] = "rewriting" /\ at = 4 /\ at' = 1
          /\ pc' = [pc EXCEPT ![y] = "unindexed"]
          /\ UNCHANGED <<dest, place, server>>
      BY <1>7 DEF FinishRemove, GoTo, disk
    <2>2. place = "filled" /\ \A i \in Index : Whole(<<i, "gz">>)
      BY <1>4, <2>1 DEF CompressedInv, TypeOK
    <2>3. \A q \in Requests : pc'[q] \notin {"moving", "rewriting"}
      BY <1>0, <1>4, <2>1 DEF TypeOK
    <2> QED
      BY <1>4, <2>1, <2>2, <2>3 DEF CompressedInv, Whole, Requests
  <1>8. CASE RemoveGemFile(y)
    BY <1>0, <1>8, CompressedQuiet DEF RemoveGemFile, work
  <1>9. CASE RemoveGemspec(y)
    BY <1>0, <1>9, CompressedQuiet DEF RemoveGemspec, work
  <1>10. CASE ReadForDelete(y)
    BY <1>0, <1>10, CompressedQuiet DEF ReadForDelete, work, disk
  <1>11. CASE PutRemaining(y)
    <2>1. GoTo(y, "notFound") \/ GoTo(y, "answered")
      BY <1>11 DEF PutRemaining
    <2> QED
      BY <1>0, <1>11, <2>1, CompressedQuiet DEF PutRemaining, work, disk
  <1> QED
    BY <1>1, <1>2, <1>3, <1>6, <1>7, <1>8, <1>9, <1>10, <1>11 DEF Yank

\* A move: the file it removed is the one it puts in place next.
LEMMA CompressedMove ==
    ASSUME TypeOK, MutexInv, CompressedInv, MoveIndexes
    PROVE  CompressedInv'
  <1>1. UNCHANGED <<tmp, server, pc>> /\ at \in 1 .. 6 /\ Moving
    BY DEF MoveIndexes, RemoveOldIndex, MoveNewIndex, SkipIndex, handlers, TypeOK
  <1>2. Moving' <=> Moving
    BY <1>1 DEF Moving
  <1>3. MoveOrder[at] \in IndexFile /\ MoveOrder[at][1] \in Index
    BY <1>1, OrderTypes
  <1>4. \A y \in Yanks : pc[y] # "rewriting"
    BY <1>1, MovingSince DEF Critical, Requests
  <1>5. server = "installing" \/ \E r \in Requests : pc[r] = "moving"
    BY <1>1 DEF Moving
  <1>6. CASE RemoveOldIndex
    <2>1. /\ place = "filled" /\ place' = "emptied" /\ at' = at
          /\ tmp[MoveOrder[at][1]] # Missing
          /\ dest' = [dest EXCEPT ![MoveOrder[at]] = Missing]
      BY <1>6 DEF RemoveOldIndex
    <2>2. \A f : f # MoveOrder[at] => dest'[f] = dest[f]
      BY <2>1 DEF TypeOK
    <2>3. dest'[MoveOrder[at]] = Missing /\ Missing # Truncated
      BY <1>3, <2>1, RepositoryAssumption DEF TypeOK
    <2>4. \A j \in 1 .. 6 : j < at => MoveOrder[j] # MoveOrder[at]
      BY <1>1, MoveOrderLists
    <2>5. server = "installing" => \A j \in 1 .. 6 : j < at => Whole(MoveOrder[j])'
      BY <2>2, <2>4 DEF CompressedInv, Whole
    <2>6. \A i \in Index : /\ dest'[<<i, "gz">>] # Truncated
                           /\ server = "up" => \/ Whole(<<i, "gz">>)'
                                               \/ MoveOrder[at] = <<i, "gz">>
      BY <2>1, <2>2, <2>3 DEF CompressedInv, Whole
    <2> QED
      BY <1>1, <1>2, <1>4, <1>5, <2>1, <2>5, <2>6 DEF CompressedInv
  <1>7. CASE MoveNewIndex
    <2>1. /\ place = "emptied" /\ place' = "filled" /\ at' = at + 1
          /\ dest' = [dest EXCEPT ![MoveOrder[at]] = tmp[MoveOrder[at][1]]]
      BY <1>7 DEF MoveNewIndex
    <2>2. tmp[MoveOrder[at][1]] # Missing
      BY <1>1, <2>1 DEF CompressedInv
    <2>3. \A f : f = MoveOrder[at] => Whole(f)' /\ dest'[f] # Truncated
      <3>1. tmp[MoveOrder[at][1]] \in SUBSET Gem
        BY <1>3, <2>2 DEF TypeOK
      <3>2. tmp[MoveOrder[at][1]] \notin {Missing, Truncated}
        BY <3>1, RepositoryAssumption
      <3>3. dest'[MoveOrder[at]] = tmp[MoveOrder[at][1]]
        BY <1>3, <2>1 DEF TypeOK
      <3> QED
        BY <3>2, <3>3 DEF Whole
    <2>4. \A f : f # MoveOrder[at] => dest'[f] = dest[f]
      BY <2>1 DEF TypeOK
    <2>5. server = "installing" => \A j \in 1 .. 6 : j < at' => Whole(MoveOrder[j])'
      <3>1. \A j \in 1 .. 6 : j < at + 1 => j < at \/ j = at
        BY <1>1
      <3> QED
        BY <2>1, <2>3, <2>4, <3>1 DEF CompressedInv, Whole
    <2>6. \A i \in Index : /\ dest'[<<i, "gz">>] # Truncated
                           /\ server = "up" => Whole(<<i, "gz">>)'
      BY <2>3, <2>4 DEF CompressedInv, Whole
    <2> QED
      BY <1>1, <1>2, <1>4, <1>5, <2>1, <2>5, <2>6 DEF CompressedInv
  <1>8. CASE SkipIndex
    <2>1. /\ place = "filled" /\ place' = place /\ at' = at + 1 /\ dest' = dest
          /\ tmp[MoveOrder[at][1]] = Missing
      BY <1>8 DEF SkipIndex, disk
    <2>2. server # "installing"
      BY <1>3, <2>1 DEF CompressedInv
    <2> QED
      BY <1>1, <1>2, <1>4, <1>5, <2>1, <2>2 DEF CompressedInv, Whole
  <1> QED
    BY <1>6, <1>7, <1>8 DEF MoveIndexes

\* A start that finds a compressed index missing builds and moves them all.
LEMMA CompressedStart ==
    ASSUME TypeOK, MutexInv, CompressedInv, Start
    PROVE  CompressedInv'
  <1>0. UNCHANGED <<pc, dest, place>> /\ server # "up"
    BY DEF Start, GenerateIndex, ClearGemspecs, InstallGemspecs, FinishInstall,
           handlers, disk, work
  <1>1. \A r \in Requests : pc[r] \notin {"moving", "rewriting"}
    BY <1>0 DEF MutexInv, Done
  <1>2. server # "installing" => at = 1 /\ place = "filled"
    BY <1>1 DEF CompressedInv
  <1>3. CASE GenerateIndex
    <2>1. at' = 1 /\ server = "down" /\ server' \in {"clearing", "up"}
      BY <1>2, <1>3 DEF GenerateIndex
    <2>2. server' = "clearing" => \A i \in Index : tmp'[i] # Missing
      <3>1. server' = "clearing" => tmp' = Partition(Present)
        BY <1>3 DEF GenerateIndex
      <3>2. \A i \in Index : Partition(Present)[i] \in SUBSET Gem
        BY PartitionType DEF Present
      <3>3. \A i \in Index : Partition(Present)[i] # Missing
        BY <3>2, RepositoryAssumption
      <3> QED
        BY <3>1, <3>3
    <2>3. server' = "up" => \A i \in Index : Whole(<<i, "gz">>)
      BY <1>3 DEF GenerateIndex, CompressedInv, Whole
    <2> QED
      BY <1>0, <1>1, <1>2, <2>1, <2>2, <2>3 DEF CompressedInv, Whole, Moving, Requests
  <1>4. CASE ClearGemspecs \/ InstallGemspecs
    <2>1. /\ at' = 1 /\ UNCHANGED tmp /\ server \in {"clearing", "staging"}
          /\ server' \in {"staging", "installing"}
      BY <1>2, <1>4 DEF ClearGemspecs, InstallGemspecs, work
    <2>2. place' = "filled"
      BY <1>0, <1>2, <2>1
    <2> QED
      BY <1>0, <1>1, <2>1, <2>2 DEF CompressedInv, Whole, Requests
  <1>5. CASE FinishInstall
    <2>1. /\ server = "installing" /\ at = 7 /\ at' = 1 /\ server' = "up"
      BY <1>5 DEF FinishInstall
    <2>2. place = "filled"
      BY <2>1 DEF CompressedInv, Moving, TypeOK
    <2>3. \A i \in Index : Whole(<<i, "gz">>)
      <3>1. \A j \in 1 .. 6 : Whole(MoveOrder[j])
        BY <2>1 DEF CompressedInv
      <3> QED
        BY <3>1, MoveOrderLists DEF IndexFile
    <2> QED
      BY <1>0, <1>1, <2>1, <2>2, <2>3 DEF CompressedInv, Whole, Requests
  <1> QED
    BY <1>3, <1>4, <1>5 DEF Start

\* With nobody in the mutex a client finds each compressed index, for any number
\* of uploads, yanks and kills: what a kill removed, the next start puts back.
THEOREM CompressedFound == Spec => []CompressedIsWhole
  <1> DEFINE Inv == TypeOK /\ MutexInv /\ CompressedInv
  <1>1. Init => CompressedInv
    BY RepositoryAssumption
       DEF Init, CompressedInv, Moving, Requests, IndexFile, Whole
  <1>2. TypeOK /\ MutexInv /\ CompressedInv /\ [Next]_vars => CompressedInv'
    <2> SUFFICES ASSUME TypeOK, MutexInv, CompressedInv, [Next]_vars
                 PROVE  CompressedInv'
      OBVIOUS
    <2>1. CASE UNCHANGED vars
      <3>1. UNCHANGED <<dest, tmp, at, place, server, pc>>
        BY <2>1 DEF vars, disk, work, handlers
      <3> QED
        BY <3>1 DEF CompressedInv, Moving, Whole
    <2>2. CASE Crash
      BY <2>2, CompressedDie DEF Crash
    <2> QED
      BY <2>1, <2>2, CompressedUpload, CompressedYank, CompressedMove,
         CompressedStart DEF Next
  <1>3. MutexInv /\ CompressedInv => CompressedIsWhole
    <2> SUFFICES ASSUME MutexInv, CompressedInv, server = "up", lock = Free
                 PROVE  \A i \in Index : Whole(<<i, "gz">>)
      BY DEF CompressedIsWhole
    <2>1. ~Moving
      BY RepositoryAssumption DEF Moving, MutexInv, Critical
    <2> QED
      BY <2>1 DEF CompressedInv
  <1>4. Inv /\ [Next]_vars => Inv'
    BY <1>2, TypeStep, MutexStep
  <1> QED
    BY <1>1, <1>3, <1>4, InitType, InitQuiet, PTL DEF Spec
=============================================================================

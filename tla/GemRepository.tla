--------------------------- MODULE GemRepository ----------------------------
(***************************************************************************)
(* The private gem repository: uploads and yanks run by concurrent HTTP    *)
(* handlers over the gem files, the rows of the version database, the      *)
(* quick gemspecs and the six index files, with the one mutex of           *)
(* internal/indexer, and the server's crashes and restarts.                *)
(*                                                                         *)
(* The mirror is disabled (Mirrors[0].Enabled = false), so every gem file  *)
(* is in the private namespace.  A handler step is what runs between two   *)
(* file system operations or database transactions that others can see.    *)
(***************************************************************************)
EXTENDS SpecList

CONSTANTS Builds,      \* contents a gem file may have; a content has a checksum
          Uploads,     \* upload requests (POST /api/v1/gems, /upload)
          Yanks,       \* yank requests (DELETE /api/v1/gems/yank)
          MaxCrashes,  \* bound: times the process is killed
          NoFile,      \* no gem file at a path
          Missing,     \* no index file
          Truncated,   \* an index file of no bytes
          Free         \* nobody holds the mutex

Requests == Uploads \cup Yanks

ASSUME RepositoryAssumption ==
    /\ Builds # {}
    /\ Uploads \cap Yanks = {}
    /\ MaxCrashes \in Nat
    /\ NoFile \notin Builds
    /\ \A S \in SUBSET Gem : Missing # S /\ Truncated # S
    /\ Missing # Truncated
    /\ Free \notin Requests

(* Files below GemDir/private: in the directory of the name's first letter, *)
(* where uploads store them, or at the namespace's root.                    *)
Path == {"letter", "root"} \X Gem
StorePath(g) == <<"letter", g>>
\* Mutant of YankPath: the path the upload stored the gem at.
YankPathFound(g) == StorePath(g)

YankPath(g) == <<"root", RubyVariant(g)>>

Index == {"specs", "latest", "prerelease"}
IndexFile == Index \X {"plain", "gz"}

\* Mutant of MoveOrder: the compressed specs index is not in the list.
MoveOrderTwice == << <<"specs", "plain">>, <<"specs", "plain">>,
                     <<"latest", "plain">>, <<"latest", "gz">>,
                     <<"prerelease", "plain">>, <<"prerelease", "gz">> >>

(* The order in which the index files are moved into place, and rewritten. *)
MoveOrder == << <<"specs", "plain">>, <<"specs", "gz">>,
                <<"latest", "plain">>, <<"latest", "gz">>,
                <<"prerelease", "plain">>, <<"prerelease", "gz">> >>
RewriteOrder == <<"specs", "latest", "prerelease">>

Row == [gem : Gem, checksum : Builds]

VARIABLES
    files,      \* gem files: path -> content
    rows,       \* the versions in the database
    gemspecs,   \* quick/Marshal.4.8/*.gemspec.rz: gem -> state of its file
    dest,       \* the index files in the server's directory
    tmp,        \* the index files built in the indexer's temporary directory
    at,         \* position in MoveOrder, or in RewriteOrder, of the work
    place,      \* of the file at that position: still filled, or emptied
    lock,       \* the mutex of internal/indexer
    server,     \* the life cycle of the process
    pc,         \* where each request's handler is
    gem,        \* the gem each request is about
    build,      \* the content its handler uploads, then reads back
    seen,       \* the rows its handler read from the database
    listed,     \* the gem files its handler's directory walk listed
    \* history, read by the properties only
    delivered,  \* every gem stored, with its content
    acked,      \* uploads answered 200
    withdrawn,  \* gems some yank was asked to remove
    yanked,     \* gems yanked with a 200, with no upload under way or since
    crashes

disk == <<files, gemspecs, dest>>
history == <<delivered, acked, withdrawn, yanked, crashes>>
handlers == <<pc, gem, build, seen, listed>>
work == <<tmp, at, place>>
vars == <<disk, rows, work, lock, server, handlers, history>>

-----------------------------------------------------------------------------
NoTmp == [i \in Index |-> Missing]

(* GetGemVersions, or the View of SaveGem: the rows under one name. *)
RowsOf(name) == {r \in rows : r.gem.name = name}

(* The Update of SaveGem and of DeleteGemVersion: the name's value becomes S. *)
PutRows(name, S) == rows' = (rows \ RowsOf(name)) \cup S

(* gemList: the gems whose file the directory walk finds. *)
Present == {g \in Gem : \E d \in {"letter", "root"} : files[<<d, g>>] # NoFile}

(* PartitionSpecs on a set of specs, as the content of each index. *)
Partition(S) == [specs |-> ReleasesOf(S), latest |-> LatestOf(S),
                 prerelease |-> PrereleasesOf(S)]

Done == {"answered", "notFound", "failed", "lost"}
Uploading(u, g) == gem[u] = g /\ pc[u] \notin Done \cup {"new"}

GoTo(r, label) == pc' = [pc EXCEPT ![r] = label]

Init ==
    /\ files = [p \in Path |-> NoFile]
    /\ rows = {}
    /\ gemspecs = [g \in Gem |-> "absent"]
    /\ dest = [f \in IndexFile |-> Missing]
    /\ tmp = NoTmp
    /\ at = 1
    /\ place = "filled"
    /\ lock = Free
    /\ server = "down"
    /\ pc = [r \in Requests |-> "new"]
    /\ gem = [r \in Requests |-> CHOOSE g \in Gem : TRUE]
    /\ build = [r \in Requests |-> CHOOSE b \in Builds : TRUE]
    /\ seen = [r \in Requests |-> {}]
    /\ listed = [r \in Requests |-> {}]
    /\ delivered = {}
    /\ acked = {}
    /\ withdrawn = {}
    /\ yanked = {}
    /\ crashes = 0

-----------------------------------------------------------------------------
(* Uploads.                                                                *)

(* localUploadGemHandler, geminaboxUploadGem: the body is stored in a       *)
(* temporary file, its spec is read, and the file is renamed to its place,  *)
(* over an earlier one, before the mutex is taken.                          *)
SaveUpload(u) ==
    /\ server = "up"
    /\ pc[u] = "new"
    /\ \E g \in Gem, b \in Builds :
          /\ gem' = [gem EXCEPT ![u] = g]
          /\ build' = [build EXCEPT ![u] = b]
          /\ files' = [files EXCEPT ![StorePath(g)] = b]
          /\ delivered' = delivered \cup {[gem |-> g, checksum |-> b]}
          /\ yanked' = yanked \ {g}
    /\ GoTo(u, "saved")
    /\ UNCHANGED <<rows, gemspecs, dest, work, lock, server, seen, listed,
                   acked, withdrawn, crashes>>

\* Mutant of BeginUpdate: the mutex is taken whoever holds it.
BeginUpdateUnlocked(u) ==
    /\ pc[u] = "saved"
    /\ lock' = u
    /\ build' = [build EXCEPT ![u] = files[StorePath(gem[u])]]
    /\ GoTo(u, "mapped")
    /\ UNCHANGED <<disk, rows, work, server, gem, seen, listed, history>>

\* Mutant of BeginUpdate: the file is looked for where a yank looks for it.
BeginUpdateAtRoot(u) ==
    /\ pc[u] = "saved"
    /\ lock = Free
    /\ lock' = u
    /\ build' = [build EXCEPT ![u] = files[YankPath(gem[u])]]
    /\ GoTo(u, "mapped")
    /\ UNCHANGED <<disk, rows, work, server, gem, seen, listed, history>>

(* UpdateIndex: lock, and mapGemsToSpecs opens the gem file again. *)
BeginUpdate(u) ==
    /\ pc[u] = "saved"
    /\ lock = Free
    /\ IF files[StorePath(gem[u])] = NoFile
       THEN GoTo(u, "failed") /\ UNCHANGED <<lock, build>>
       ELSE /\ lock' = u
            /\ build' = [build EXCEPT ![u] = files[StorePath(gem[u])]]
            /\ GoTo(u, "mapped")
    /\ UNCHANGED <<disk, rows, work, server, gem, seen, listed, history>>

(* SaveGem, first transaction: read the versions under the name. *)
ReadVersions(u) ==
    /\ pc[u] = "mapped"
    /\ seen' = [seen EXCEPT ![u] = RowsOf(gem[u].name)]
    /\ GoTo(u, "read")
    /\ UNCHANGED <<disk, rows, work, lock, server, gem, build, listed, history>>

\* Mutant of PutVersions: a version that is there is added again.
PutVersionsAlways(u) ==
    /\ pc[u] = "read"
    /\ PutRows(gem[u].name,
               seen[u] \cup {[gem |-> gem[u], checksum |-> build[u]]})
    /\ GoTo(u, "stored")
    /\ UNCHANGED <<disk, work, lock, server, gem, build, seen, listed, history>>

\* Mutant of PutVersions: the new version is written back without the others.
PutVersionsAlone(u) ==
    /\ pc[u] = "read"
    /\ PutRows(gem[u].name, {[gem |-> gem[u], checksum |-> build[u]]})
    /\ GoTo(u, "stored")
    /\ UNCHANGED <<disk, work, lock, server, gem, build, seen, listed, history>>

(* SaveGem, second transaction: write them back with the new one, unless    *)
(* its number and platform run together are those of one of them.           *)
PutVersions(u) ==
    /\ pc[u] = "read"
    /\ IF \E r \in seen[u] : SameId(gem[u], r.gem)
       THEN UNCHANGED rows
       ELSE PutRows(gem[u].name,
                    seen[u] \cup {[gem |-> gem[u], checksum |-> build[u]]})
    /\ GoTo(u, "stored")
    /\ UNCHANGED <<disk, work, lock, server, gem, build, seen, listed, history>>

\* Mutant of CreateGemspec: the file is created and the bytes are not written.
CreateGemspecOnly(u) ==
    /\ pc[u] = "stored"
    /\ gemspecs' = [gemspecs EXCEPT ![gem[u]] = IF @ = "absent" THEN "empty" ELSE @]
    /\ GoTo(u, "described")
    /\ UNCHANGED <<files, dest, rows, work, lock, server, gem, build, seen,
                   listed, history>>

(* buildMarshalGemspecs with update: a gemspec file that exists is left as  *)
(* it is; else os.WriteFile creates it, and writes to it.                   *)
CreateGemspec(u) ==
    /\ pc[u] = "stored"
    /\ IF gemspecs[gem[u]] = "absent"
       THEN /\ gemspecs' = [gemspecs EXCEPT ![gem[u]] = "empty"]
            /\ GoTo(u, "describing")
       ELSE /\ UNCHANGED gemspecs
            /\ GoTo(u, "described")
    /\ UNCHANGED <<files, dest, rows, work, lock, server, gem, build, seen,
                   listed, history>>

(* The bytes go to the file that was created, even if a yank unlinked it. *)
WriteGemspec(u) ==
    /\ pc[u] = "describing"
    /\ gemspecs' = [gemspecs EXCEPT ![gem[u]] =
                       IF @ = "absent" THEN "absent" ELSE "whole"]
    /\ GoTo(u, "described")
    /\ UNCHANGED <<files, dest, rows, work, lock, server, gem, build, seen,
                   listed, history>>

(* The index that updateSpecsIndex writes to the temporary directory for    *)
(* one of the three, or Missing: no new gem for it, or no index to open.    *)
UpdatedIndex(i, new) ==
    LET old == dest[<<i, "plain">>] IN
    IF new = {} \/ old \in {Missing, Truncated} THEN Missing
    ELSE IF i = "latest" THEN MergeLatest(old, new)
    ELSE MergeSpecs(old, new)

(* LoadSpecs panics on an index file of no bytes. *)
LoadPanics(new) ==
    \E i \in Index : new[i] # {} /\ dest[<<i, "plain">>] = Truncated

(* The three updateSpecsIndex goroutines, and compressIndicies. *)
UpdateSpecsIndexes(u) ==
    LET new == Partition({gem[u]}) IN
    /\ pc[u] = "described"
    /\ ~LoadPanics(new)
    /\ tmp' = [i \in Index |-> UpdatedIndex(i, new[i])]
    /\ at' = 1
    /\ GoTo(u, "moving")
    /\ UNCHANGED <<disk, rows, place, lock, server, gem, build, seen, listed,
                   history>>

(* The process ends: handlers, mutex and temporary directory are gone. *)
Die ==
    /\ server' = "down"
    /\ lock' = Free
    /\ tmp' = NoTmp
    /\ at' = 1
    /\ place' = "filled"
    /\ pc' = [r \in Requests |->
                 IF pc[r] \in Done \cup {"new"}
                 THEN pc[r] ELSE "lost"]
    /\ UNCHANGED <<disk, rows, gem, build, seen, listed>>

(* A panic in a goroutine of updateSpecsIndex, which nothing recovers. *)
PanicOnTruncated(u) ==
    /\ pc[u] = "described"
    /\ LoadPanics(Partition({gem[u]}))
    /\ Die
    /\ UNCHANGED history

-----------------------------------------------------------------------------
(* compressAndMoveIndices for an upload, installIndicies at start: for each *)
(* file that was built, RemoveAll of the old one, then Rename of the new.   *)

Moving == server = "installing" \/ \E r \in Requests : pc[r] = "moving"

RemoveOldIndex ==
    /\ Moving /\ at <= 6 /\ place = "filled"
    /\ tmp[MoveOrder[at][1]] # Missing
    /\ dest' = [dest EXCEPT ![MoveOrder[at]] = Missing]
    /\ place' = "emptied"
    /\ UNCHANGED <<files, gemspecs, rows, tmp, at, lock, server, handlers, history>>

MoveNewIndex ==
    /\ Moving /\ at <= 6 /\ place = "emptied"
    /\ dest' = [dest EXCEPT ![MoveOrder[at]] = tmp[MoveOrder[at][1]]]
    /\ at' = at + 1
    /\ place' = "filled"
    /\ UNCHANGED <<files, gemspecs, rows, tmp, lock, server, handlers, history>>

SkipIndex ==
    /\ Moving /\ at <= 6 /\ place = "filled"
    /\ tmp[MoveOrder[at][1]] = Missing
    /\ at' = at + 1
    /\ UNCHANGED <<disk, rows, tmp, place, lock, server, handlers, history>>

(* The deferred RemoveAll and Unlock of UpdateIndex, and the answer 200. *)
FinishUpdate(u) ==
    /\ pc[u] = "moving"
    /\ at = 7
    /\ tmp' = NoTmp
    /\ at' = 1
    /\ lock' = Free
    /\ acked' = acked \cup {gem[u]}
    /\ GoTo(u, "answered")
    /\ UNCHANGED <<disk, rows, place, server, gem, build, seen, listed,
                   delivered, withdrawn, yanked, crashes>>

-----------------------------------------------------------------------------
(* Yanks.                                                                  *)

(* localYankHandler is called. *)
ReceiveYank(y) ==
    /\ server = "up"
    /\ pc[y] = "new"
    /\ \E g \in Gem : /\ gem' = [gem EXCEPT ![y] = g]
                      /\ withdrawn' = withdrawn \cup {g}
    /\ GoTo(y, "received")
    /\ UNCHANGED <<disk, rows, work, lock, server, build, seen, listed,
                   delivered, acked, yanked, crashes>>

(* RemoveGemFromIndex: lock, and start to walk the gem files. *)
BeginRemove(y) ==
    /\ pc[y] = "received"
    /\ lock = Free
    /\ lock' = y
    /\ listed' = [listed EXCEPT ![y] = Present]
    /\ GoTo(y, "walking")
    /\ UNCHANGED <<disk, rows, work, server, gem, build, seen, history>>

\* Mutant of FindInIndex: returning without the deferred Unlock.
FindInIndexHolding(y) ==
    /\ pc[y] = "walking"
    /\ LET specs == WalkOrder(Present)
           i == FindIndexOf(specs, gem[y])
       IN  IF i = -1
           THEN GoTo(y, "failed") /\ UNCHANGED listed
           ELSE /\ listed' = [listed EXCEPT ![y] = Present \ {specs[i + 1]}]
                /\ GoTo(y, "rewriting")
    /\ UNCHANGED <<disk, rows, work, lock, server, gem, build, seen, history>>

(* The walk ends, having met some of the files that uploads stored          *)
(* meanwhile; mapGemsToSpecs, FindIndexOf and slices.Delete.                *)
FindInIndex(y) ==
    /\ pc[y] = "walking"
    /\ \E late \in SUBSET (Present \ listed[y]) :
          LET found == listed[y] \cup late
              specs == WalkOrder(found)
              i == FindIndexOf(specs, gem[y])
          IN  IF i = -1
              THEN /\ lock' = Free
                   /\ GoTo(y, "failed")
                   /\ UNCHANGED listed
              ELSE /\ listed' = [listed EXCEPT ![y] = found \ {specs[i + 1]}]
                   /\ GoTo(y, "rewriting")
                   /\ UNCHANGED lock
    /\ UNCHANGED <<disk, rows, work, server, gem, build, seen, history>>

(* buildModernIndex on the index the server keeps: open with O_TRUNC ... *)
TruncateIndex(y) ==
    /\ pc[y] = "rewriting" /\ at <= 3 /\ place = "filled"
    /\ dest' = [dest EXCEPT ![<<RewriteOrder[at], "plain">>] = Truncated]
    /\ place' = "emptied"
    /\ UNCHANGED <<files, gemspecs, rows, tmp, at, lock, server, handlers, history>>

(* ... and write. *)
RewriteIndex(y) ==
    /\ pc[y] = "rewriting" /\ at <= 3 /\ place = "emptied"
    /\ dest' = [dest EXCEPT ![<<RewriteOrder[at], "plain">>] =
                   Partition(listed[y])[RewriteOrder[at]]]
    /\ at' = at + 1
    /\ place' = "filled"
    /\ UNCHANGED <<files, gemspecs, rows, tmp, lock, server, handlers, history>>

(* compressAndMoveIndices finds nothing in the temporary directory: the     *)
(* indexes were written elsewhere, and nothing is compressed or moved.      *)
FinishRemove(y) ==
    /\ pc[y] = "rewriting"
    /\ at = 4
    /\ at' = 1
    /\ lock' = Free
    /\ GoTo(y, "unindexed")
    /\ UNCHANGED <<disk, rows, tmp, place, server, gem, build, seen, listed,
                   history>>

(* The path has neither the letter's directory nor the platform. *)
RemoveGemFile(y) ==
    /\ pc[y] = "unindexed"
    /\ files' = [files EXCEPT ![YankPath(gem[y])] = NoFile]
    /\ GoTo(y, "fileRemoved")
    /\ UNCHANGED <<gemspecs, dest, rows, work, lock, server, gem, build, seen,
                   listed, history>>

(* Nor does the gemspec's name have the platform. *)
RemoveGemspec(y) ==
    /\ pc[y] = "fileRemoved"
    /\ gemspecs' = [gemspecs EXCEPT ![RubyVariant(gem[y])] = "absent"]
    /\ GoTo(y, "gemspecRemoved")
    /\ UNCHANGED <<files, dest, rows, work, lock, server, gem, build, seen,
                   listed, history>>

(* DeleteGemVersion, first transaction, without the mutex. *)
ReadForDelete(y) ==
    /\ pc[y] = "gemspecRemoved"
    /\ seen' = [seen EXCEPT ![y] = RowsOf(gem[y].name)]
    /\ GoTo(y, "deleting")
    /\ UNCHANGED <<disk, rows, work, lock, server, gem, build, listed, history>>

(* DeleteGemVersion, second transaction: what was read, less the version. *)
PutRemaining(y) ==
    LET removed == {r \in seen[y] : r.gem = gem[y]} IN
    /\ pc[y] = "deleting"
    /\ PutRows(gem[y].name, seen[y] \ removed)
    /\ GoTo(y, IF removed = {} THEN "notFound" ELSE "answered")
    /\ yanked' = IF removed = {} \/ \E u \in Uploads : Uploading(u, gem[y])
                 THEN yanked ELSE yanked \cup {gem[y]}
    /\ UNCHANGED <<disk, work, lock, server, gem, build, seen, listed,
                   delivered, acked, withdrawn, crashes>>

-----------------------------------------------------------------------------
(* Start and end of the process.                                           *)

\* Mutant of GenerateIndex: only the specs index is looked for.
GenerateIndexOfSpecs ==
    /\ server = "down"
    /\ IF dest[<<"specs", "gz">>] = Missing
       THEN /\ tmp' = Partition(Present)
            /\ server' = "clearing"
       ELSE /\ UNCHANGED tmp
            /\ server' = "up"
    /\ UNCHANGED <<disk, rows, at, place, lock, handlers, history>>

(* start calls GenerateIndex whatever NewIndexer found: the indexes are     *)
(* built from the gem files when a compressed one is missing, and a plain   *)
(* one that is missing changes nothing.                                     *)
GenerateIndex ==
    /\ server = "down"
    /\ IF \E i \in Index : dest[<<i, "gz">>] = Missing
       THEN /\ tmp' = Partition(Present)
            /\ server' = "clearing"
       ELSE /\ UNCHANGED tmp
            /\ server' = "up"
    /\ UNCHANGED <<disk, rows, at, place, lock, handlers, history>>

(* installIndicies: RemoveAll of the quick gemspecs ... *)
ClearGemspecs ==
    /\ server = "clearing"
    /\ gemspecs' = [g \in Gem |-> "absent"]
    /\ server' = "staging"
    /\ UNCHANGED <<files, dest, rows, work, lock, handlers, history>>

(* ... and Rename of the directory of those that were built. *)
InstallGemspecs ==
    /\ server = "staging"
    /\ gemspecs' = [g \in Gem |-> IF g \in Present THEN "whole" ELSE "absent"]
    /\ server' = "installing"
    /\ UNCHANGED <<files, dest, rows, work, lock, handlers, history>>

(* The temporary directory is removed and the server starts to listen. *)
FinishInstall ==
    /\ server = "installing"
    /\ at = 7
    /\ tmp' = NoTmp
    /\ at' = 1
    /\ server' = "up"
    /\ UNCHANGED <<disk, rows, place, lock, handlers, history>>

(* The process is killed; what reached the disk stays. *)
Crash ==
    /\ server # "down"
    /\ crashes < MaxCrashes
    /\ Die
    /\ crashes' = crashes + 1
    /\ UNCHANGED <<delivered, acked, withdrawn, yanked>>

-----------------------------------------------------------------------------
MoveIndexes == RemoveOldIndex \/ MoveNewIndex \/ SkipIndex

Upload(u) ==
    \/ SaveUpload(u) \/ BeginUpdate(u) \/ ReadVersions(u) \/ PutVersions(u)
    \/ CreateGemspec(u) \/ WriteGemspec(u) \/ UpdateSpecsIndexes(u)
    \/ PanicOnTruncated(u) \/ FinishUpdate(u)

Yank(y) ==
    \/ ReceiveYank(y) \/ BeginRemove(y) \/ FindInIndex(y) \/ TruncateIndex(y)
    \/ RewriteIndex(y) \/ FinishRemove(y) \/ RemoveGemFile(y)
    \/ RemoveGemspec(y) \/ ReadForDelete(y) \/ PutRemaining(y)

Start == GenerateIndex \/ ClearGemspecs \/ InstallGemspecs \/ FinishInstall

Next ==
    \/ \E u \in Uploads : Upload(u)
    \/ \E y \in Yanks : Yank(y)
    \/ MoveIndexes
    \/ Start
    \/ Crash

Spec == Init /\ [][Next]_vars

(* A started process gets on with its start.  A handler that runs keeps     *)
(* running, and one that waits for the mutex gets it: Go's sync.Mutex hands *)
(* over to a waiter that waited for a millisecond.  No client has to call.  *)
Fairness ==
    /\ WF_vars(MoveIndexes)
    /\ WF_vars(Start)
    /\ \A u \in Uploads : /\ SF_vars(BeginUpdate(u))
                          /\ WF_vars(Upload(u) /\ pc[u] # "new")
    /\ \A y \in Yanks : /\ SF_vars(BeginRemove(y))
                        /\ WF_vars(Yank(y) /\ pc[y] # "new")

FairSpec == Spec /\ Fairness
-----------------------------------------------------------------------------
(* Properties.                                                             *)

UploadSteps == {"saved", "mapped", "read", "stored", "describing",
                "described", "moving"}
YankSteps == {"received", "walking", "rewriting", "unindexed", "fileRemoved",
              "gemspecRemoved", "deleting"}
Critical == {"mapped", "read", "stored", "describing", "described", "moving",
             "walking", "rewriting"}

TypeOK ==
    /\ files \in [Path -> Builds \cup {NoFile}]
    /\ rows \subseteq Row
    /\ gemspecs \in [Gem -> {"absent", "empty", "whole"}]
    /\ dest \in [IndexFile -> {Missing, Truncated} \cup SUBSET Gem]
    /\ tmp \in [Index -> {Missing} \cup SUBSET Gem]
    /\ at \in 1 .. 7
    /\ place \in {"filled", "emptied"}
    /\ lock \in Requests \cup {Free}
    /\ server \in {"down", "clearing", "staging", "installing", "up"}
    /\ pc \in [Requests -> {"new"} \cup UploadSteps \cup YankSteps \cup Done]
    /\ gem \in [Requests -> Gem]
    /\ build \in [Requests -> Builds]
    /\ seen \in [Requests -> SUBSET Row]
    /\ listed \in [Requests -> SUBSET Gem]
    /\ delivered \subseteq Row
    /\ acked \subseteq Gem
    /\ withdrawn \subseteq Gem
    /\ yanked \subseteq Gem
    /\ crashes \in Nat

Whole(f) == dest[f] \notin {Missing, Truncated}
Stored == {g \in Gem : files[StorePath(g)] # NoFile}
IndexOf(g) == IF g.number \in Prerelease THEN "prerelease" ELSE "specs"

(* Whatever a client is told to fetch is there: a version in the database,  *)
(* which /versions, /info and the dependency API answer from, and an entry  *)
(* of an index file have their gem file where localGemHandler looks for it. *)
(* Uploads rename before they publish, and a yank never removes that file.  *)
ListedIsServable ==
    /\ \A r \in rows : r.gem \in Stored
    /\ \A f \in IndexFile : Whole(f) => dest[f] \subseteq Stored

(* An upload answered 200 is in the database, across concurrent uploads of  *)
(* the same gem and crashes, as long as no version of its name is yanked:   *)
(* saveAndReindexLocalGem, SaveGem's two transactions under the mutex; and  *)
(* as long as no other version of the name runs together to the same string.*)
AckedIsPublished ==
    \A g \in acked :
        UnlikeVersion(g) /\ (\A w \in withdrawn : w.name # g.name)
        => \E r \in rows : r.gem = g

(* An upload answered 200 that nobody asked to yank is in its index, plain  *)
(* and compressed, except while that file is being replaced: no concurrent  *)
(* upload or yank of another gem loses it (UpdateIndex, RemoveGemFromIndex, *)
(* compressAndMoveIndices), as long as the process is not killed and no     *)
(* other gem runs together to the same string.                              *)
AckedIsIndexed ==
    crashes = 0 =>
        \A g \in acked \ withdrawn, c \in {"plain", "gz"} :
            LET f == <<IndexOf(g), c>> IN
            /\ lock = Free => Whole(f)
            /\ Whole(f) /\ Unlike(g) => g \in dest[f]

(* The latest index lists, for such a release, its name with a version that *)
(* is not less (updateSpecsIndex 359-372, PartitionSpecs).                  *)
LatestIsNoOlder ==
    crashes = 0 => \A g \in acked \ withdrawn, c \in {"plain", "gz"} :
        g.number \notin Prerelease /\ Whole(<<"latest", c>>) =>
            \E h \in dest[<<"latest", c>>] :
                h.name = g.name /\ h.number >= g.number

(* With nobody in the mutex the compressed index, which is what clients     *)
(* get, says what the plain one says, as long as the process is not killed  *)
(* and no yank came (compressAndMoveIndices; a kill between two moves and a *)
(* yank, which rewrites the plain one only, leave them apart).              *)
CompressedAgrees ==
    server = "up" /\ lock = Free /\ crashes = 0 /\ withdrawn = {} =>
        \A i \in Index : dest[<<i, "gz">>] = dest[<<i, "plain">>]

(* A kill may leave an index file removed, truncated, or older than another; *)
(* the next start builds the missing ones, so that with nobody in the mutex  *)
(* a client finds each compressed index, wherever the process was killed     *)
(* (GenerateIndex, installIndicies; compressAndMoveIndices 510-526).         *)
CompressedIsWhole ==
    server = "up" /\ lock = Free => \A i \in Index : Whole(<<i, "gz">>)

(* No yank was about this gem's gemspec: the name has no platform. *)
Spared(g) == \A w \in withdrawn : RubyVariant(w) # g

(* A gem in an index has a whole quick gemspec, which clients fetch next    *)
(* (buildMarshalGemspecs comes before the indexes are moved), as long as    *)
(* the process is not killed: a gemspec file created and not written stays. *)
(* A yank lists what its walk meets, a gem too whose upload still waits for *)
(* the mutex, so once one came this is said of acknowledged gems; and it    *)
(* removes the gemspec of the ruby platform, whatever gem it is about.      *)
IndexedHasGemspec ==
    crashes = 0 => \A f \in IndexFile : Whole(f) => \A g \in dest[f] :
        (withdrawn = {} \/ g \in acked) /\ Spared(g) => gemspecs[g] = "whole"

(* "successfully yanked" (rubygems.go:213): a gem a yank removed, that      *)
(* nobody uploads again, is in no index that clients get.                   *)
YankedIsUnlisted ==
    \A g \in yanked, i \in Index :
        Whole(<<i, "gz">>) => g \notin dest[<<i, "gz">>]

(* Every request that reaches a handler is answered while the process       *)
(* lives: no two handlers wait for each other, and the mutex is released.   *)
EveryRequestIsAnswered ==
    \A r \in Requests : pc[r] # "new" ~> pc[r] \in Done

(* Until somebody yanks, the database is a registry: a version is published *)
(* once, after its file was delivered, with a checksum delivered for it,    *)
(* and stays, whatever handlers interleave and wherever the process dies.   *)
Registry == INSTANCE GemRegistry WITH Gems <- Gem, catalogue <- rows
IsRegistry ==
    Registry!Init /\ [][withdrawn # {} \/ Registry!Next]_(Registry!registryVars)
=============================================================================

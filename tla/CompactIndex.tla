---------------------------- MODULE CompactIndex -----------------------------
(***************************************************************************)
(* The versions that the database keeps under one gem name of the private  *)
(* namespace, and what the Compact Index API answers from them: the info   *)
(* of the name, and its line among the versions with the checksum of the   *)
(* info.  GemRepository has these rows as a set; here they are the list    *)
(* that is stored, each row with the info checksum made when it was added. *)
(*                                                                         *)
(* An upload reads the list in one transaction and writes it in another,   *)
(* under the mutex of internal/indexer; so does a yank, without the mutex. *)
(* A checksum is modelled by the text it is made of.                       *)
(***************************************************************************)
EXTENDS Integers, Sequences, TLC

CONSTANTS Numbers,      \* ranks of the version strings in byte order
          Platforms,
          Ruby,         \* the platform "ruby"
          Unset,        \* no platform in a yank's query
          Alike,        \* pairs of versions of which number and platform run
                        \* together to one string: 1.0.x, 86 and 1.0., x86
          Builds,       \* contents of a gem file: checksum and dependencies
          Uploads,      \* uploads of versions of the name
          Yanks,        \* yanks of versions of the name
          Absent,       \* nothing stored under the name
          Free          \* nobody holds the mutex

Requests == Uploads \cup Yanks

ASSUME CompactAssumption ==
    /\ Numbers \subseteq Nat /\ Numbers # {}
    /\ Ruby \in Platforms
    /\ Builds # {}
    /\ Uploads \cap Yanks = {}
    /\ Free \notin Requests

Version == [number : Numbers, platform : Platforms]

\* SaveGem takes v and w for one.
SameId(v, w) == v = w \/ <<v, w>> \in Alike
Unlike(v) == \A w \in Version : SameId(v, w) => w = v

Line == [version : Version, build : Builds]
Text == [lines : SUBSET Line, ends : 1 .. 2]    \* and the newlines at its end
Row == [version : Version, build : Builds, info : Text]

\* A Seq(Row) may not hold Absent, which is no list.
ASSUME AbsentAssumption == Absent \notin Seq(Row)

VARIABLES
    value,      \* what is stored under the name
    lock,       \* the mutex of internal/indexer
    pc,         \* where each request's handler is
    version,    \* the version it is about
    build,      \* the content that it uploads
    seen,       \* the list that it has read
    others,     \* write transactions since an upload read, up to two
    \* history, read by the properties only
    stored,     \* versions that some upload stored, or found stored
    acked,      \* versions whose upload was answered 200
    asked,      \* versions that some yank was asked to remove
    withdrawn,  \* ... and that no upload added after its end
    exposed,    \* versions some other request may drop by what it had read
    gone        \* versions yanked with no other request between its read and
                \* its write, and not added since

handlers == <<pc, version, build, seen, others>>
history == <<stored, acked, asked, withdrawn, exposed, gone>>
vars == <<value, lock, handlers, history>>

GoTo(r, label) == pc' = [pc EXCEPT ![r] = label]

-----------------------------------------------------------------------------
(* The texts.                                                              *)

LineOf(row) == [version |-> row.version, build |-> row.build]
LinesOf(list) == {LineOf(list[i]) : i \in DOMAIN list}
VersionsOf(list) == {list[i].version : i \in DOMAIN list}

(* The lines are sorted, so their order in the list does not matter.       *)
CompactIndexInfo(lines) == [lines |-> lines, ends |-> 1]

(* localInfoHandler adds a newline to it.                                  *)
InfoAnswer(list) == [CompactIndexInfo(LinesOf(list)) EXCEPT !.ends = @ + 1]

(* The name's line in GetAllGemversions: numbers, the last of the list with *)
(* its checksum and a blank before it, sorted as strings.                  *)
VersionsLine(list) ==
    LET Entry(i) == [number |-> list[i].version.number,
                     checksum |-> IF i = Len(list) THEN {list[i].info} ELSE {}]
    IN SortSeq([i \in DOMAIN list |-> Entry(i)],
               LAMBDA a, b : \/ a.number < b.number
                             \/ a.number = b.number /\ b.checksum # {})

-----------------------------------------------------------------------------
(* Uploads.                                                                *)

Init ==
    /\ value = Absent
    /\ lock = Free
    /\ pc = [r \in Requests |-> "new"]
    /\ version = [r \in Requests |-> CHOOSE v \in Version : TRUE]
    /\ build = [r \in Requests |-> CHOOSE b \in Builds : TRUE]
    /\ seen = [r \in Requests |-> Absent]
    /\ others = [u \in Uploads |-> 0]
    /\ stored = {} /\ acked = {} /\ asked = {}
    /\ withdrawn = {} /\ exposed = {} /\ gone = {}

\* Mutant of BeginUpdate: the mutex is not waited for.
BeginUpdateUnlocked(u) ==
    /\ pc[u] = "new"
    /\ \E v \in Version, b \in Builds :
          /\ version' = [version EXCEPT ![u] = v]
          /\ build' = [build EXCEPT ![u] = b]
    /\ lock' = u
    /\ GoTo(u, "begun")
    /\ UNCHANGED <<value, seen, others, history>>

(* UpdateIndex takes the mutex.                                            *)
BeginUpdate(u) ==
    /\ pc[u] = "new"
    /\ lock = Free
    /\ \E v \in Version, b \in Builds :
          /\ version' = [version EXCEPT ![u] = v]
          /\ build' = [build EXCEPT ![u] = b]
    /\ lock' = u
    /\ GoTo(u, "begun")
    /\ UNCHANGED <<value, seen, others, history>>

(* SaveGem: the bytes of the list leave the transaction that reads them.   *)
View(u) ==
    /\ pc[u] = "begun"
    /\ seen' = [seen EXCEPT ![u] = value]
    /\ others' = [others EXCEPT ![u] = 0]
    /\ GoTo(u, "viewed")
    /\ UNCHANGED <<value, lock, version, build, history>>

(* Then they are decoded.  They lie in the database's memory map: the first *)
(* write transaction that comes after may free their page, and the second   *)
(* fill it with other data, and what cannot be decoded counts as no list.  *)
Decode(u) ==
    /\ pc[u] = "viewed"
    /\ \/ UNCHANGED seen
       \/ /\ seen[u] # Absent /\ others[u] = 2
          /\ seen' = [seen EXCEPT ![u] = << >>]
    /\ exposed' = IF others[u] = 2 THEN exposed \cup stored ELSE exposed
    /\ GoTo(u, "decoded")
    /\ UNCHANGED <<value, lock, version, build, others, stored, acked, asked,
                   withdrawn, gone>>

(* A write transaction, for the uploads that have read and not yet decoded. *)
Overwrite ==
    others' = [u \in Uploads |->
                  IF pc[u] = "viewed" /\ others[u] < 2 THEN others[u] + 1
                  ELSE others[u]]

\* Mutant of RowFor: the checksum is made before the new version is added.
RowForBefore(u, list) ==
    [version |-> version[u], build |-> build[u],
     info |-> CompactIndexInfo(LinesOf(list))]

(* The row of an upload that is added to a list.                           *)
RowFor(u, list) ==
    LET line == [version |-> version[u], build |-> build[u]] IN
    [version |-> version[u], build |-> build[u],
     info |-> CompactIndexInfo(LinesOf(list) \cup {line})]

\* Mutant of Adds: a number and platform that is in the list is added again.
AddsAlways(u) == TRUE

(* Whether SaveGem writes: the number and platform, run together, are not   *)
(* those of one in the list.                                               *)
Adds(u) ==
    seen[u] = Absent \/ \A v \in VersionsOf(seen[u]) : ~SameId(version[u], v)

Reading(y) == y \in Yanks /\ pc[y] = "read"

Store(u) ==
    LET old == IF seen[u] = Absent THEN << >> ELSE seen[u]
        raced == \E y \in Yanks : Reading(y)
        pursued == \E y \in Yanks : pc[y] \in {"unindexed", "read"}
                                    /\ version[y] = version[u]
    IN
    /\ pc[u] = "decoded"
    /\ IF Adds(u)
       THEN /\ value' = Append(old, RowFor(u, old))
            /\ Overwrite
            /\ withdrawn' = IF pursued THEN withdrawn
                            ELSE withdrawn \ {version[u]}
            /\ exposed' = IF raced THEN exposed \cup {version[u]}
                          ELSE exposed \ {version[u]}
            /\ gone' = gone \ {version[u]}
       ELSE /\ UNCHANGED <<value, others, withdrawn, gone>>
            /\ exposed' = IF raced THEN exposed \cup {version[u]} ELSE exposed
    /\ stored' = stored \cup {version[u]}
    /\ GoTo(u, "stored")
    /\ UNCHANGED <<lock, version, build, seen, acked, asked>>

(* The index files are written, which may fail, and the mutex is free.     *)
FinishUpdate(u) ==
    /\ pc[u] = "stored"
    /\ lock' = Free
    /\ \/ GoTo(u, "answered") /\ acked' = acked \cup {version[u]}
       \/ GoTo(u, "failed") /\ UNCHANGED acked
    /\ UNCHANGED <<value, version, build, seen, others, stored, asked,
                   withdrawn, exposed, gone>>

-----------------------------------------------------------------------------
(* Yanks.                                                                  *)

(* localYankHandler: RemoveGemFromIndex, which has the mutex while it runs, *)
(* finds the gem's file or not.  DeleteGemVersion, too, takes a query       *)
(* without a platform for ruby's.                                          *)
RemoveGemFromIndex(y) ==
    /\ pc[y] = "new"
    /\ lock = Free
    /\ \E n \in Numbers, p \in Platforms \cup {Unset} :
          version' = [version EXCEPT ![y] =
                         [number |-> n, platform |-> IF p = Unset THEN Ruby ELSE p]]
    /\ \/ /\ GoTo(y, "unindexed")
          /\ asked' = asked \cup {version'[y]}
          /\ withdrawn' = withdrawn \cup {version'[y]}
       \/ /\ GoTo(y, "failed")
          /\ UNCHANGED <<asked, withdrawn>>
    /\ UNCHANGED <<value, lock, build, seen, others, stored, acked, exposed, gone>>

\* Mutant of GetGemVersions: that nothing is stored is not an empty list.
GetGemVersionsRaw(y) ==
    /\ pc[y] = "unindexed"
    /\ seen' = [seen EXCEPT ![y] = value]
    /\ GoTo(y, "read")
    /\ UNCHANGED <<value, lock, version, build, others, history>>

(* DeleteGemVersion reads, decoding in the transaction, ...                *)
GetGemVersions(y) ==
    /\ pc[y] = "unindexed"
    /\ seen' = [seen EXCEPT ![y] = IF value = Absent THEN << >> ELSE value]
    /\ GoTo(y, "read")
    /\ UNCHANGED <<value, lock, version, build, others, history>>

Deleted(list, i) ==
    [j \in 1 .. Len(list) - 1 |-> IF j < i THEN list[j] ELSE list[j + 1]]

\* Mutant of Remaining: the version after the one that matches is deleted.
RemainingNext(list, v) ==
    IF v \in VersionsOf(list)
    THEN Deleted(list, 1 + CHOOSE i \in DOMAIN list : list[i].version = v)
    ELSE list

Remaining(list, v) ==
    IF v \in VersionsOf(list)
    THEN Deleted(list, CHOOSE i \in DOMAIN list : list[i].version = v)
    ELSE list

(* ... and writes what remains, be it nothing or all.                      *)
PutRemaining(y) ==
    LET undisturbed == /\ \A u \in Uploads : pc[u] \notin {"viewed", "decoded"}
                       /\ \A z \in Yanks \ {y} : ~Reading(z)
    IN
    /\ pc[y] = "read"
    /\ value' = Remaining(seen[y], version[y])
    /\ Overwrite
    /\ GoTo(y, IF version[y] \in VersionsOf(seen[y]) THEN "answered" ELSE "notFound")
    /\ gone' = IF undisturbed THEN gone \cup {version[y]} ELSE gone
    /\ UNCHANGED <<lock, version, build, seen, stored, acked, asked, withdrawn,
                   exposed>>

-----------------------------------------------------------------------------
(* Other requests write users, or versions of other names.                 *)
OtherWrite ==
    /\ \E u \in Uploads : pc[u] = "viewed" /\ others[u] < 2
    /\ Overwrite
    /\ UNCHANGED <<value, lock, pc, version, build, seen, history>>

(* The process ends, and starts again with what is stored.                 *)
Kill ==
    /\ \E r \in Requests : pc[r] \in {"begun", "viewed", "decoded", "stored",
                                      "unindexed", "read"}
    /\ pc' = [r \in Requests |->
                 IF pc[r] \in {"begun", "viewed", "decoded", "stored",
                               "unindexed", "read"}
                 THEN "lost" ELSE pc[r]]
    /\ lock' = Free
    /\ UNCHANGED <<value, version, build, seen, others, history>>

Next ==
    \/ \E u \in Uploads : \/ BeginUpdate(u) \/ View(u) \/ Decode(u)
                          \/ Store(u) \/ FinishUpdate(u)
    \/ \E y \in Yanks : \/ RemoveGemFromIndex(y) \/ GetGemVersions(y)
                        \/ PutRemaining(y)
    \/ OtherWrite
    \/ Kill

Spec == Init /\ [][Next]_vars

-----------------------------------------------------------------------------
TypeOK ==
    /\ value \in Seq(Row) \cup {Absent}
    /\ lock \in Uploads \cup {Free}
    /\ pc \in [Requests -> {"new", "begun", "viewed", "decoded", "stored",
                            "unindexed", "read", "answered", "notFound",
                            "failed", "lost"}]
    /\ version \in [Requests -> Version]
    /\ build \in [Requests -> Builds]
    /\ seen \in [Requests -> Seq(Row) \cup {Absent}]
    /\ \A y \in Yanks : pc[y] = "read" => seen[y] \in Seq(Row)
    /\ others \in [Uploads -> 0 .. 2]
    /\ stored \subseteq Version /\ acked \subseteq Version
    /\ asked \subseteq Version /\ withdrawn \subseteq Version
    /\ exposed \subseteq Version /\ gone \subseteq Version

Listed == IF value = Absent THEN {} ELSE VersionsOf(value)

\* No version is listed twice, whatever overlaps: SaveGem looks only at the list
\* it has read (gem.go:100-105), and DeleteGemVersion deletes from the slice that
\* it ranges over, which is right for one match only (gem.go:167-172).
EachVersionOnce ==
    value # Absent =>
        \A i, j \in DOMAIN value : value[i].version = value[j].version => i = j

\* The checksum that a version was stored with covers every version before it in
\* the list; what else it covers was yanked.  So without yanks the checksum that
\* GetAllGemversions gives is the one of what GetGemInfo gives (gem.go:238, 273).
ChecksumCoversInfo ==
    value # Absent =>
        \A i \in DOMAIN value :
            LET before == {LineOf(value[j]) : j \in 1 .. i} IN
            /\ before \subseteq value[i].info.lines
            /\ \A l \in value[i].info.lines \ before : l.version \in asked

\* A version whose upload was answered "uploaded successfully" (rubygems.go:170)
\* is listed until a yank is asked for, unless a yank had read the list before it
\* was stored, or an upload decodes what it has read after two other writes; or
\* SaveGem took another version, which runs together to the same string, for it.
AckedIsListed ==
    {v \in acked : Unlike(v)} \ (withdrawn \cup exposed) \subseteq Listed

\* A version that was yanked while no other request of the name was between its
\* read and its write does not come back (gem.go:76-113, 160-180).
YankedStaysOut == gone \cap Listed = {}

\* "It supports [...] the newer Compact Index API" (README.md:18): the line of a
\* name ends in the checksum of the answer to its info.
LineEndsInChecksum ==
    value \in {Absent, << >>} \/
        LET line == VersionsLine(value) IN
        line[Len(line)].checksum = {InfoAnswer(value)}
=============================================================================

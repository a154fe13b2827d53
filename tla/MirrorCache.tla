---------------------------- MODULE MirrorCache -----------------------------
(***************************************************************************)
(* The mirror's cache of one gem: concurrent HTTP handlers download its    *)
(* gem file and its quick gemspec from the upstream server on demand,      *)
(* straight into the files they serve, and add the gem to the database.    *)
(*                                                                         *)
(* A file is written through the descriptor its writer opened, at that     *)
(* writer's own offset.  So a path leads to an inode, named after the      *)
(* request that created it, which other requests may truncate, unlink or   *)
(* go on writing to.  The content of an inode is the set of the parts      *)
(* written to it; a part that is not there reads as zeros.                 *)
(*                                                                         *)
(* Requests that the filter or the advisories refuse change nothing and    *)
(* are left out, and so are the indexes (see GemRepository).               *)
(***************************************************************************)
EXTENDS Naturals, FiniteSets

CONSTANTS GemRequests,   \* GET /gems/:gem
          SpecRequests,  \* GET /quick/Marshal.4.8/:gemspec.rz
          Parts,         \* parts a file comes in; the first has the metadata
          MaxRefusals,   \* bound: answers of the upstream that are not 200
          MaxBreaks,     \* bound: connections that fail or are cut
          MaxKills,      \* bound: times the process is killed
          None           \* no file at a path, no row, nobody at the mutex

Requests == GemRequests \cup SpecRequests

ASSUME MirrorAssumption ==
    /\ GemRequests \cap SpecRequests = {}
    /\ Parts \in Nat \ {0}
    /\ MaxRefusals \in Nat /\ MaxBreaks \in Nat /\ MaxKills \in Nat
    /\ None \notin Requests
    /\ \A S \in SUBSET (1 .. Parts) : None # S

Kind == {"gem", "spec"}
KindOf(r) == IF r \in GemRequests THEN "gem" ELSE "spec"

Content == SUBSET (1 .. Parts)
Whole == 1 .. Parts

VARIABLES
    inode,    \* the file at each of the two paths
    data,     \* what was written to each inode
    row,      \* the gem's row in the database: the bytes its checksum is of
    lock,     \* the mutex of internal/indexer
    pc,       \* where each request's handler is
    fd,       \* the inode its open descriptor leads to
    sum,      \* the bytes it hashed
    pos,      \* how many parts it has written
    \* history, read by the properties only
    sent,     \* the bodies of the answered requests
    warm,     \* requests that found the gem whole and nobody at work on it
    refusals, breaks, kills

files == <<inode, data>>
bounds == <<refusals, breaks, kills>>
history == <<sent, warm, bounds>>
handlers == <<pc, fd, sum, pos>>
vars == <<files, row, lock, handlers, history>>

-----------------------------------------------------------------------------
Done == {"answered", "notFound", "failed", "lost"}
Running(r) == pc[r] \notin Done \cup {"new"}

(* Steps at which a handler may still change the gem file. *)
Fetching == {"absent", "asking", "copying", "copied", "listed", "hashed",
             "parsed", "describing", "described", "indexed", "unindexed"}

(* What is at a path. *)
File(k) == IF inode[k] = None THEN {} ELSE data[k][inode[k]]

GoTo(r, label) == pc' = [pc EXCEPT ![r] = label]

Init ==
    /\ inode = [k \in Kind |-> None]
    /\ data = [k \in Kind |-> [r \in Requests |-> {}]]
    /\ row = None
    /\ lock = None
    /\ pc = [r \in Requests |-> "new"]
    /\ fd = [r \in Requests |-> None]
    /\ sum = [r \in Requests |-> {}]
    /\ pos = [r \in Requests |-> 0]
    /\ sent = [r \in Requests |-> {}]
    /\ warm = {}
    /\ refusals = 0
    /\ breaks = 0
    /\ kills = 0

(* os.Create, and the opening half of os.WriteFile: the file at the path is *)
(* truncated, or a new one made.                                            *)
Create(k, r) ==
    LET i == IF inode[k] = None THEN r ELSE inode[k] IN
    /\ inode' = [inode EXCEPT ![k] = i]
    /\ data' = [data EXCEPT ![k][i] = {}]
    /\ fd' = [fd EXCEPT ![r] = i]

(* os.Remove, os.RemoveAll: writers keep their descriptors. *)
Unlink(k) == inode' = [inode EXCEPT ![k] = None]

-----------------------------------------------------------------------------
(* Both handlers: fetch from upstream unless there is a file.              *)

\* Mutant of Fetched: a cached gem is downloaded again.
FetchedGemspec(k) == k = "spec" /\ inode[k] # None

(* An empty gem file is fetched again; of a gemspec any file will do. *)
Fetched(k) == IF k = "gem" THEN File(k) # {} ELSE inode[k] # None

Stat(r) ==
    /\ pc[r] = "new"
    /\ GoTo(r, IF Fetched(KindOf(r)) THEN "present" ELSE "absent")
    /\ warm' = IF /\ KindOf(r) = "gem" /\ File("gem") = Whole
                  /\ \A q \in GemRequests : pc[q] \notin Fetching
               THEN warm \cup {r} ELSE warm
    /\ UNCHANGED <<files, row, lock, fd, sum, pos, sent, bounds>>

(* The file is created before the upstream is asked. *)
CreateFile(r) ==
    /\ pc[r] = "absent"
    /\ Create(KindOf(r), r)
    /\ GoTo(r, "asking")
    /\ UNCHANGED <<row, lock, sum, pos, history>>

UpstreamAnswers(r) ==
    /\ pc[r] = "asking"
    /\ GoTo(r, "copying")
    /\ UNCHANGED <<files, row, lock, fd, sum, pos, history>>

\* Mutant of UpstreamRefuses: the gemspec's file is not removed.
UpstreamRefusesKept(r) ==
    /\ pc[r] = "asking"
    /\ refusals < MaxRefusals
    /\ GoTo(r, "failed")
    /\ refusals' = refusals + 1
    /\ UNCHANGED <<files, row, lock, fd, sum, pos, sent, warm, breaks, kills>>

(* Not a 200: the gemspec's file is removed, the gem's is left empty. *)
UpstreamRefuses(r) ==
    /\ pc[r] = "asking"
    /\ refusals < MaxRefusals
    /\ IF KindOf(r) = "spec" THEN Unlink("spec") ELSE UNCHANGED inode
    /\ GoTo(r, "failed")
    /\ refusals' = refusals + 1
    /\ UNCHANGED <<data, row, lock, fd, sum, pos, sent, warm, breaks, kills>>

(* http.Get fails, or io.Copy half way: what was written stays. *)
ConnectionBreaks(r) ==
    /\ pc[r] \in {"asking", "copying"}
    /\ breaks < MaxBreaks
    /\ GoTo(r, "failed")
    /\ breaks' = breaks + 1
    /\ UNCHANGED <<files, row, lock, fd, sum, pos, sent, warm, refusals, kills>>

\* Mutant of CopyPart: it goes on after the last part.
CopyPartPast(r) ==
    /\ pc[r] = "copying"
    /\ data' = [data EXCEPT ![KindOf(r)][fd[r]] = @ \cup {pos[r] + 1}]
    /\ pos' = [pos EXCEPT ![r] = @ + 1]
    /\ UNCHANGED <<inode, row, lock, pc, fd, sum, history>>

(* io.Copy, one write. *)
CopyPart(r) ==
    /\ pc[r] = "copying"
    /\ pos[r] < Parts
    /\ data' = [data EXCEPT ![KindOf(r)][fd[r]] = @ \cup {pos[r] + 1}]
    /\ pos' = [pos EXCEPT ![r] = @ + 1]
    /\ UNCHANGED <<inode, row, lock, pc, fd, sum, history>>

EndCopy(r) ==
    /\ pc[r] = "copying"
    /\ pos[r] = Parts
    /\ GoTo(r, IF KindOf(r) = "gem" THEN "copied" ELSE "present")
    /\ UNCHANGED <<files, row, lock, fd, sum, pos, history>>

(* FileAttachment: whatever is at the path now. *)
Serve(r) ==
    /\ pc[r] = "present"
    /\ IF inode[KindOf(r)] = None
       THEN GoTo(r, "notFound") /\ UNCHANGED sent
       ELSE GoTo(r, "answered") /\ sent' = [sent EXCEPT ![r] = File(KindOf(r))]
    /\ UNCHANGED <<files, row, lock, fd, sum, pos, warm, bounds>>

-----------------------------------------------------------------------------
(* AddGemToIndex, under the mutex, on the file at the path.                *)

(* mapGemsToSpecs stats the file: none is an error, and an empty one is     *)
(* skipped, which leaves nothing to save.                                   *)
BeginIndex(q) ==
    /\ pc[q] = "copied"
    /\ lock = None
    /\ \/ /\ inode["gem"] = None
          /\ GoTo(q, "unindexed")
          /\ UNCHANGED lock
       \/ /\ inode["gem"] # None
          /\ File("gem") = {}
          /\ GoTo(q, "present")
          /\ UNCHANGED lock
       \/ /\ File("gem") # {}
          /\ GoTo(q, "listed")
          /\ lock' = q
    /\ UNCHANGED <<files, row, fd, sum, pos, history>>

(* untar opens the file and hashes it ... *)
HashGem(q) ==
    /\ pc[q] = "listed"
    /\ IF inode["gem"] = None
       THEN /\ GoTo(q, "unindexed")
            /\ lock' = None
            /\ UNCHANGED <<fd, sum>>
       ELSE /\ GoTo(q, "hashed")
            /\ fd' = [fd EXCEPT ![q] = inode["gem"]]
            /\ sum' = [sum EXCEPT ![q] = File("gem")]
            /\ UNCHANGED lock
    /\ UNCHANGED <<files, row, pos, history>>

(* ... and reads it again through the same descriptor.  A file without its  *)
(* first part has no metadata; one that lacks another part may or may not   *)
(* be read to an end, by where it is cut.                                   *)
ParseGem(q) ==
    LET bytes == data["gem"][fd[q]] IN
    /\ pc[q] = "hashed"
    /\ \/ /\ 1 \in bytes
          /\ GoTo(q, "parsed")
          /\ UNCHANGED lock
       \/ /\ bytes # Whole
          /\ GoTo(q, "unindexed")
          /\ lock' = None
    /\ UNCHANGED <<files, row, fd, sum, pos, history>>

\* Mutant of SaveRow: the test for an existing row is the wrong way round.
SaveRowAgain(q) ==
    /\ pc[q] = "parsed"
    /\ row' = IF row = None THEN row ELSE sum[q]
    /\ GoTo(q, IF inode["spec"] = None THEN "describing" ELSE "indexed")
    /\ UNCHANGED <<files, lock, fd, sum, pos, history>>

(* SaveGem: a version that has a row keeps it.  Nobody writes the mirror's  *)
(* namespace without the mutex, so its two transactions are one step.       *)
SaveRow(q) ==
    /\ pc[q] = "parsed"
    /\ row' = IF row = None THEN sum[q] ELSE row
    /\ GoTo(q, IF inode["spec"] = None THEN "describing" ELSE "indexed")
    /\ UNCHANGED <<files, lock, fd, sum, pos, history>>

(* buildMarshalGemspecs, os.WriteFile in two steps. *)
CreateSpec(q) ==
    /\ pc[q] = "describing"
    /\ Create("spec", q)
    /\ GoTo(q, "described")
    /\ UNCHANGED <<row, lock, sum, pos, history>>

WriteSpec(q) ==
    /\ pc[q] = "described"
    /\ data' = [data EXCEPT !["spec"][fd[q]] = @ \cup {1}]
    /\ GoTo(q, "indexed")
    /\ UNCHANGED <<inode, row, lock, fd, sum, pos, history>>

(* The indexes have been moved, the mutex is released. *)
EndIndex(q) ==
    /\ pc[q] = "indexed"
    /\ lock' = None
    /\ GoTo(q, "present")
    /\ UNCHANGED <<files, row, fd, sum, pos, history>>

\* Mutant of RemoveGem: the file that could not be added stays.
RemoveGemKept(q) ==
    /\ pc[q] = "unindexed"
    /\ GoTo(q, "failed")
    /\ UNCHANGED <<files, row, lock, fd, sum, pos, history>>

(* The deferred os.Remove after an error: the file at the path by now. *)
RemoveGem(q) ==
    /\ pc[q] = "unindexed"
    /\ Unlink("gem")
    /\ GoTo(q, "failed")
    /\ UNCHANGED <<data, row, lock, fd, sum, pos, history>>

-----------------------------------------------------------------------------
(* The process is killed and started again: the files and the row stay. *)
Kill ==
    /\ kills < MaxKills
    /\ \E r \in Requests : Running(r)
    /\ pc' = [r \in Requests |-> IF Running(r) THEN "lost" ELSE pc[r]]
    /\ lock' = None
    /\ kills' = kills + 1
    /\ UNCHANGED <<files, row, fd, sum, pos, sent, warm, refusals, breaks>>

Fetch(r) ==
    \/ Stat(r) \/ CreateFile(r) \/ UpstreamAnswers(r) \/ UpstreamRefuses(r)
    \/ ConnectionBreaks(r) \/ CopyPart(r) \/ EndCopy(r) \/ Serve(r)

AddGem(q) ==
    \/ BeginIndex(q) \/ HashGem(q) \/ ParseGem(q) \/ SaveRow(q)
    \/ CreateSpec(q) \/ WriteSpec(q) \/ EndIndex(q) \/ RemoveGem(q)

Next ==
    \/ \E r \in Requests : Fetch(r)
    \/ \E q \in GemRequests : AddGem(q)
    \/ Kill

Spec == Init /\ [][Next]_vars
-----------------------------------------------------------------------------
TypeOK ==
    /\ inode \in [Kind -> Requests \cup {None}]
    /\ data \in [Kind -> [Requests -> Content]]
    /\ row \in Content \cup {None}
    /\ lock \in GemRequests \cup {None}
    /\ pc \in [Requests -> Done \cup Fetching \cup {"new", "present"}]
    /\ fd \in [Requests -> Requests \cup {None}]
    /\ sum \in [Requests -> Content]
    /\ pos \in [Requests -> 0 .. Parts]
    /\ sent \in [Requests -> Content]
    /\ warm \subseteq GemRequests
    /\ refusals \in 0 .. MaxRefusals
    /\ breaks \in 0 .. MaxBreaks
    /\ kills \in 0 .. MaxKills

AtRest == \A r \in Requests : ~Running(r)

(* However the downloads of a gem overlap, truncate, unlink and overwrite   *)
(* each other's file, and whatever the upstream refuses, once they are over *)
(* the file is the whole gem, or empty or gone and so fetched again by the  *)
(* next request.  Unless a connection broke or the process was killed: a    *)
(* part of a gem then stays, and is served from then on.                    *)
GemRestsWhole ==
    AtRest /\ breaks = 0 /\ kills = 0 => File("gem") \in {{}, Whole}

(* Nor is an empty gemspec left, which no request would fetch again.  *)
SpecRestsFilled ==
    AtRest /\ breaks = 0 /\ kills = 0 /\ inode["spec"] # None => File("spec") # {}

(* A whole gem is in the database too, whichever of several downloads       *)
(* failed, was refused, or found a file another had truncated.  Unless its  *)
(* download ended between the last part and the row, by a broken connection *)
(* or a kill: the gem is then served from the cache and never added.        *)
WholeIsIndexed ==
    AtRest /\ breaks = 0 /\ kills = 0 /\ File("gem") = Whole => row # None

(* Once the gem is whole and no download of it is under way, every request *)
(* gets the whole gem, whatever others do meanwhile.                       *)
WarmIsServedWhole ==
    \A r \in warm : /\ pc[r] # "notFound"
                    /\ pc[r] = "answered" => sent[r] = Whole

(* "Gemfast allows users to mirror and cache gems" (README.md:18): the gem *)
(* that a request gets is the gem.  Not so while it is downloaded: a file  *)
(* with one part in it is an "existing gem" (rubygems.go:397, 439).        *)
AnsweredIsTheGem ==
    \A r \in GemRequests : pc[r] = "answered" => sent[r] = Whole
=============================================================================

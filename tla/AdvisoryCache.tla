--------------------------- MODULE AdvisoryCache ----------------------------
(***************************************************************************)
(* The advisories on known vulnerabilities and the two guards of the       *)
(* mirror's handlers: the filter, and the severity of a gem's advisories.  *)
(* A clone of ruby-advisory-db is read into a cache when the server starts *)
(* and every day after, while requests read the cache.                     *)
(*                                                                         *)
(* A walk meets the files of the clone in one order, and the advisories of *)
(* a gem are appended to its list as they are met.  So a list is the set   *)
(* of its files' places in that order, and its first one is the least.     *)
(***************************************************************************)
EXTENDS Integers, Sequences

CONSTANTS Gems,         \* directories of the clone: gem names
          Versions,     \* numbers a gem file may have
          Unparsable,   \* those that are no gem version to go-gem-version
          Files,        \* what the clone's files say, in the walk's order
          Configs,      \* the configurations of the filter and of the check
          Matched,      \* gem files whose name matches one of the filter's regexes
          Requests,     \* requests for a gem or a gemspec of the mirror
          MaxTicks      \* bound: days

(* A gem file of the mirror, with or without a platform in its name.       *)
GemFile == [gem : Gems, number : Versions, platform : BOOLEAN]

(* A CVSS score in tenths, 0 where there is none.                          *)
Score == 0 .. 100
Advisory == [gem : Gems, v3 : Score, v2 : Score,
             patched : SUBSET Versions, unaffected : SUBSET Versions]
Config == [enabled : BOOLEAN, filter : {"off", "deny", "allow"},
           maxSeverity : {"low", "medium", "high", "critical"}]

ASSUME AdvisoryAssumption ==
    /\ Files \in Seq(Advisory)
    /\ Configs \subseteq Config /\ Configs # {}
    /\ Matched \subseteq GemFile
    /\ Gems # {} /\ Versions # {}
    /\ MaxTicks \in Nat

Places == DOMAIN Files
NoAdvisory == 0     \* an advisory with no field set

VARIABLES
    config,
    closeReturns,   \* whether Close of the cache returns more than once
    repo,           \* places of the files in the clone
    cache,          \* gem -> places of the files in its list
    phase,          \* where Refresh is
    place,          \* the next place of its walk
    up,             \* whether the server listens
    closed,         \* whether the cache was ever closed
    ticks,
    pc,             \* where each request's handler is
    ask,            \* the gem file it asks for
    first,          \* the advisory that isPatched returned
    found,          \* the advisories that GetCVEs returned
    \* history, read by the properties only
    walked,         \* the files the last walk was to cache
    known,          \* every file of the clone so far
    whole,          \* whether the cache holds all of them
    calm            \* requests during which it was whole and was not closed

handlers == <<pc, ask, first, found>>
clock == <<ticks, up, closed>>
vars == <<config, closeReturns, repo, cache, phase, place, clock, handlers,
          walked, known, whole, calm>>

Empty == [g \in Gems |-> {}]

Init ==
    /\ config \in Configs
    /\ closeReturns \in BOOLEAN
    /\ repo = {}
    /\ cache = Empty
    /\ phase = "updating"
    /\ place = 1
    /\ up = FALSE
    /\ closed = FALSE
    /\ ticks = 0
    /\ pc = [r \in Requests |-> "new"]
    /\ ask = [r \in Requests |-> CHOOSE f \in GemFile : TRUE]
    /\ first = [r \in Requests |-> NoAdvisory]
    /\ found = [r \in Requests |-> {}]
    /\ walked = {}
    /\ known = {}
    /\ whole = FALSE
    /\ calm = {}

-----------------------------------------------------------------------------
(* Refresh, by the start of the server and then by the ticker's goroutine. *)

Tick ==
    /\ phase = "idle"
    /\ ticks < MaxTicks
    /\ ticks' = ticks + 1
    /\ phase' = "updating"
    /\ UNCHANGED <<config, closeReturns, repo, cache, place, up, closed, handlers,
                   walked, known, whole, calm>>

(* updateAdvisoryRepo: the clone becomes what upstream has, or stays as it  *)
(* is when that fails, which is only logged; or go-git never returns.      *)
UpdateAdvisoryRepo ==
    /\ phase = "updating"
    /\ repo' \in SUBSET Places
    /\ known' = known \cup repo'
    /\ phase' = "closing"
    /\ UNCHANGED <<config, closeReturns, cache, place, clock, handlers, walked,
                   whole, calm>>

\* Mutant of CloseCache: the walk begins before its first place.
CloseCacheFromZero ==
    /\ phase = "closing"
    /\ ~closed \/ closeReturns
    /\ closed' = TRUE
    /\ cache' = Empty
    /\ place' = 0
    /\ phase' = "filling"
    /\ walked' = repo
    /\ whole' = FALSE
    /\ calm' = {}
    /\ UNCHANGED <<config, closeReturns, repo, ticks, up, handlers, known>>

(* Close empties the cache.  It also ends the goroutine that expires items  *)
(* by a message, which nobody receives the next time: the call then blocks *)
(* for ever, unless the library's Close is one that may be repeated.       *)
CloseCache ==
    /\ phase = "closing"
    /\ ~closed \/ closeReturns
    /\ closed' = TRUE
    /\ cache' = Empty
    /\ place' = 1
    /\ phase' = "filling"
    /\ walked' = repo
    /\ whole' = FALSE
    /\ calm' = {}
    /\ UNCHANGED <<config, closeReturns, repo, ticks, up, handlers, known>>

\* Mutant of CacheFile: the list is replaced, not appended to.
CacheFileAlone ==
    /\ phase = "filling"
    /\ place \in Places
    /\ cache' = IF place \in repo
                THEN [cache EXCEPT ![Files[place].gem] = {place}]
                ELSE cache
    /\ place' = place + 1
    /\ UNCHANGED <<config, closeReturns, repo, phase, clock, handlers, walked,
                   known, whole, calm>>

(* The function of cacheAdvisoryDB's walk on one place: get, append, set.  *)
CacheFile ==
    /\ phase = "filling"
    /\ place \in Places
    /\ cache' = IF place \in repo
                THEN [cache EXCEPT ![Files[place].gem] = @ \cup {place}]
                ELSE cache
    /\ place' = place + 1
    /\ UNCHANGED <<config, closeReturns, repo, phase, clock, handlers, walked,
                   known, whole, calm>>

\* Mutant of EndWalk: the next refresh begins at once.
EndWalkAgain ==
    /\ phase = "filling"
    /\ place \notin Places
    /\ phase' = "updating"
    /\ up' = TRUE
    /\ whole' = TRUE
    /\ UNCHANGED <<config, closeReturns, repo, cache, place, ticks, closed,
                   handlers, walked, known, calm>>

EndWalk ==
    /\ phase = "filling"
    /\ place \notin Places
    /\ phase' = "idle"
    /\ up' = TRUE
    /\ whole' = TRUE
    /\ UNCHANGED <<config, closeReturns, repo, cache, place, ticks, closed,
                   handlers, walked, known, calm>>

(* A file that cannot be read or parsed ends the walk; the start goes on.  *)
WalkFails ==
    /\ phase = "filling"
    /\ place \in repo
    /\ phase' = "idle"
    /\ up' = TRUE
    /\ UNCHANGED <<config, closeReturns, repo, cache, place, ticks, closed,
                   handlers, walked, known, whole, calm>>

-----------------------------------------------------------------------------
(* The severity of an advisory, and what is done about it.                 *)

\* Mutant of SeverityV3: the highest band ends before its highest score.
SeverityV3Open(score) ==
    IF score \in 1 .. 39 THEN "low" ELSE IF score \in 40 .. 69 THEN "medium"
    ELSE IF score \in 70 .. 89 THEN "high"
    ELSE IF score \in 90 .. 99 THEN "critical" ELSE "none"

SeverityV3(score) ==
    IF score \in 1 .. 39 THEN "low" ELSE IF score \in 40 .. 69 THEN "medium"
    ELSE IF score \in 70 .. 89 THEN "high"
    ELSE IF score \in 90 .. 100 THEN "critical" ELSE "none"

(* The band of low scores is for 0 only, which is handled before.          *)
SeverityV2(score) ==
    IF score \in 40 .. 69 THEN "medium"
    ELSE IF score \in 70 .. 100 THEN "high" ELSE "none"

Severity(i) ==
    IF i = NoAdvisory THEN "none"
    ELSE IF Files[i].v3 # 0 THEN SeverityV3(Files[i].v3)
    ELSE SeverityV2(Files[i].v2)

\* Mutant of Accepted: the severity none is not handled apart.
AcceptedByRank(severity) ==
    \/ config.maxSeverity = "critical"
    \/ config.maxSeverity = "medium" /\ severity \in {"low", "medium"}
    \/ config.maxSeverity = "high" /\ severity \in {"low", "medium", "high"}

(* acceptableSeverity.                                                     *)
Accepted(severity) ==
    \/ severity = "none"
    \/ config.maxSeverity = "critical"
    \/ config.maxSeverity = "medium" /\ severity \in {"low", "medium"}
    \/ config.maxSeverity = "high" /\ severity \in {"low", "medium", "high"}

Acceptable(i) == Accepted(Severity(i))

(* isPatched and isUnaffected on the list S they got for a gem: the first   *)
(* advisory of S for which the version is not patched, or not unaffected.  *)
Unpatched(S, v) == {i \in S : v \notin Files[i].patched}
NotUnaffected(S, v) == {i \in S : v \notin Files[i].unaffected}
FirstOf(S) == CHOOSE i \in S : \A j \in S : i <= j

IsPatched(S, v) == S = {} \/ (v \notin Unparsable /\ Unpatched(S, v) = {})
IsUnaffected(S, v) == S = {} \/ (v \notin Unparsable /\ NotUnaffected(S, v) = {})

UnpatchedIn(S, v) ==
    IF v \in Unparsable THEN NoAdvisory ELSE FirstOf(Unpatched(S, v))
NotUnaffectedIn(S, v) ==
    IF v \in Unparsable THEN NoAdvisory ELSE FirstOf(NotUnaffected(S, v))

-----------------------------------------------------------------------------
(* mirroredGemHandler and mirroredGemspecRzHandler, up to their guards.    *)

(* IsAllowed of the filter.                                                *)
IsAllowed(f) ==
    \/ config.filter = "off"
    \/ config.filter = "deny" /\ f \notin Matched
    \/ config.filter = "allow" /\ f \in Matched

(* What the cache has for the name that GemFromGemParameter makes of a file *)
(* name: all but the last piece, so with a platform it is no gem's name.   *)
ListFor(f) == IF f.platform THEN {} ELSE cache[f.gem]

Ask(r) ==
    /\ up
    /\ pc[r] = "new"
    /\ \E f \in GemFile :
          /\ ask' = [ask EXCEPT ![r] = f]
          /\ pc' = [pc EXCEPT ![r] =
                        IF ~IsAllowed(f) THEN "filtered"
                        ELSE IF config.enabled THEN "asked" ELSE "allowed"]
    /\ calm' = IF whole THEN calm \cup {r} ELSE calm
    /\ UNCHANGED <<config, closeReturns, repo, cache, phase, place, clock, first,
                   found, walked, known, whole>>

(* GetCVEs: isPatched gets the gem's list, ...                             *)
CheckPatched(r) ==
    LET S == ListFor(ask[r])
        v == ask[r].number
    IN
    /\ pc[r] = "asked"
    /\ pc' = [pc EXCEPT ![r] = IF IsPatched(S, v) THEN "allowed" ELSE "unpatched"]
    /\ first' = [first EXCEPT ![r] = IF IsPatched(S, v) THEN @ ELSE UnpatchedIn(S, v)]
    /\ UNCHANGED <<config, closeReturns, repo, cache, phase, place, clock, ask,
                   found, walked, known, whole, calm>>

(* ... and isUnaffected gets it again.  Whether what it returns is reported *)
(* depends on the severity of what isPatched returned.  The two are told   *)
(* apart by their CVE numbers; here each file of the clone has its own.    *)
CheckUnaffected(r) ==
    LET S == ListFor(ask[r])
        v == ask[r].number
        also == IF IsUnaffected(S, v) THEN {} ELSE {NotUnaffectedIn(S, v)}
        cves == IF Acceptable(first[r]) THEN {} ELSE {first[r]} \cup also
    IN
    /\ pc[r] = "unpatched"
    /\ found' = [found EXCEPT ![r] = cves]
    /\ pc' = [pc EXCEPT ![r] = IF cves = {} THEN "allowed" ELSE "refused"]
    /\ UNCHANGED <<config, closeReturns, repo, cache, phase, place, clock, ask,
                   first, walked, known, whole, calm>>

-----------------------------------------------------------------------------
(* The steps of Refresh that wait for nobody outside, once Close returns.   *)
Fill ==
    \/ CloseCache
    \/ CacheFile
    \/ EndWalk
    \/ WalkFails

Refresh == UpdateAdvisoryRepo \/ Fill

Next ==
    \/ Tick
    \/ Refresh
    \/ \E r \in Requests : Ask(r) \/ CheckPatched(r) \/ CheckUnaffected(r)

(* A goroutine that can go on does.  No fairness for the clone or the pull, *)
(* which have no timeout and may hang, for the ticker, or for requests.    *)
Spec == Init /\ [][Next]_vars /\ WF_vars(Fill)

-----------------------------------------------------------------------------
TypeOK ==
    /\ config \in Configs
    /\ closeReturns \in BOOLEAN
    /\ repo \subseteq Places
    /\ cache \in [Gems -> SUBSET Places]
    /\ phase \in {"idle", "updating", "closing", "filling"}
    /\ place \in Nat \ {0}
    /\ up \in BOOLEAN /\ closed \in BOOLEAN
    /\ ticks \in 0 .. MaxTicks
    /\ pc \in [Requests -> {"new", "filtered", "asked", "unpatched", "allowed",
                            "refused"}]
    /\ ask \in [Requests -> GemFile]
    /\ first \in [Requests -> Places \cup {NoAdvisory}]
    /\ found \in [Requests -> SUBSET (Places \cup {NoAdvisory})]
    /\ walked \subseteq Places
    /\ known \subseteq Places
    /\ whole \in BOOLEAN
    /\ calm \subseteq Requests

\* A gem is refused for its advisories only if some file that the clone had, now
\* or earlier, is about that gem, does not say its version is patched, and is
\* worse than the configuration accepts, whatever Refresh does between the two
\* reads of a list (rubygems.go:328-335, 385-392).
RefusedForCause ==
    \A r \in Requests : pc[r] = "refused" =>
        /\ ~ask[r].platform
        /\ \E i \in found[r] \cap known :
              /\ Files[i].gem = ask[r].gem
              /\ ask[r].number \notin Files[i].patched
              /\ ~Acceptable(i)

\* Advisories of the clone that bear on a gem file, by what the server reads.
Bearing(f) ==
    {i \in walked : Files[i].gem = f.gem /\ f.number \notin Files[i].patched}

\* "Deny gems based on CVE severity" (README.md:28), as far as the code keeps to
\* it: while the cache is whole and not closed, no gem gets through whose version
\* is not patched in every advisory and whose advisories are all too severe.
AdvisedIsRefused ==
    \A r \in calm : pc[r] = "allowed" =>
        \/ ~config.enabled
        \/ ask[r].platform
        \/ ask[r].number \in Unparsable
        \/ Bearing(ask[r]) = {}
        \/ \E i \in Bearing(ask[r]) : Acceptable(i)

\* The bands of severity leave no gap above a score that is refused: whatever
\* the configured maximum, a gem with a tenth more is refused too.
WorseIsNotAccepted ==
    \A s \in 1 .. 99 :
        /\ Accepted(SeverityV3(s + 1)) => Accepted(SeverityV3(s))
        /\ Accepted(SeverityV2(s + 1)) => Accepted(SeverityV2(s))

\* Once Refresh has emptied the cache it fills it again, as far as the files can
\* be read, and ends: no file and no request of the mirror holds it up
\* (gemadvisorydb.go:59-66 and 101-135).
RefreshEnds == (phase = "filling") ~> (phase = "idle")

\* "Start the advisory DB updater" (start.go:55): a refresh whose pull is over
\* gets to its end, the ticker's as the first one.
UpdaterUpdates == (phase = "closing") ~> (phase = "idle")
=============================================================================

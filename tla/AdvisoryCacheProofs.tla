------------------------- MODULE AdvisoryCacheProofs ------------------------
(***************************************************************************)
(* Theorems about AdvisoryCache: for any gems, versions, files of the      *)
(* clone, configurations and requests.                                     *)
(***************************************************************************)
EXTENDS AdvisoryCache, TLAPS, WellFoundedInduction

(* Files of a set that are about a gem, below a place in the walk.         *)
About(S, g, n) == {i \in S : Files[i].gem = g /\ i < n}

(* Whatever is in the cache was in the clone, in the list of its gem; and   *)
(* during a walk it is what the walk has passed.                           *)
KnownInv ==
    /\ repo \subseteq known
    /\ walked \subseteq known
    /\ \A g \in Gems : \A i \in cache[g] : i \in known /\ Files[i].gem = g

FillInv ==
    /\ phase = "filling" =>
          /\ walked = repo
          /\ whole = FALSE
          /\ \A g \in Gems : cache[g] = About(walked, g, place)
    /\ whole = TRUE =>
          \A g \in Gems : cache[g] = {i \in walked : Files[i].gem = g}

(* Why a file is refused: an advisory i that was known.                    *)
Cause(f, i) ==
    /\ i \in known
    /\ Files[i].gem = f.gem
    /\ f.number \notin Files[i].patched

CauseInv ==
    \A r \in Requests :
        /\ pc[r] = "unpatched" =>
              /\ ask[r].platform = FALSE
              /\ first[r] # NoAdvisory => Cause(ask[r], first[r])
        /\ pc[r] = "refused" =>
              /\ ask[r].platform = FALSE
              /\ \E i \in found[r] : Cause(ask[r], i) /\ ~Acceptable(i)

(* Why a request for file f may get through while the cache is whole.      *)
Passed(f) ==
    \/ config.enabled = FALSE
    \/ f.platform = TRUE
    \/ f.number \in Unparsable
    \/ Bearing(f) = {}
    \/ \E i \in Bearing(f) : Acceptable(i)

CalmFor(r) ==
    /\ whole = TRUE
    /\ pc[r] = "unpatched" =>
          \/ ask[r].number \in Unparsable
          \/ first[r] \in Bearing(ask[r])
    /\ pc[r] = "allowed" => Passed(ask[r])

CalmInv == \A r \in calm : CalmFor(r)

AInv == TypeOK /\ KnownInv /\ FillInv /\ CauseInv /\ CalmInv
-----------------------------------------------------------------------------
(* Lists.                                                                  *)

LEMMA PlacesAreNatural == /\ Places \subseteq Nat \ {0}
                          /\ \A i \in Places : Files[i] \in Advisory
  BY AdvisoryAssumption DEF Places

\* isPatched and isUnaffected return an advisory of the list they went through.
LEMMA FirstIsOne ==
  ASSUME NEW S, S \subseteq Places, S # {}
  PROVE  FirstOf(S) \in S
<1>1. S \subseteq Nat
  BY PlacesAreNatural
<1>2. \E x \in S : \A y \in S : ~ (<<y, x>> \in OpToRel(<, Nat))
  BY <1>1, NatLessThanWellFounded, WFMin
<1>3. \E x \in S : \A y \in S : x <= y
  <2>1. PICK x \in S : \A y \in S : ~ (<<y, x>> \in OpToRel(<, Nat))
    BY <1>2
  <2>2. ASSUME NEW y \in S PROVE x <= y
    <3>1. <<y, x>> \in OpToRel(<, Nat) <=> y < x
      BY <1>1 DEF OpToRel
    <3>2. x \in Nat /\ y \in Nat /\ ~(y < x)
      BY <1>1, <2>1, <3>1
    <3>3. QED
      BY <3>2
  <2>3. QED
    BY <2>2
<1>4. QED
  BY <1>3 DEF FirstOf

LEMMA UnpatchedIsListed ==
  ASSUME NEW S \in SUBSET Places, NEW v, ~IsPatched(S, v), v \notin Unparsable
  PROVE  UnpatchedIn(S, v) \in Unpatched(S, v)
<1>1. Unpatched(S, v) # {} /\ Unpatched(S, v) \subseteq Places
  BY DEF IsPatched, Unpatched
<1>2. QED
  BY <1>1, FirstIsOne DEF UnpatchedIn

LEMMA UnpatchedIsPlace ==
  ASSUME NEW S \in SUBSET Places, NEW v, ~IsPatched(S, v)
  PROVE  UnpatchedIn(S, v) \in Places \cup {NoAdvisory}
<1>1. CASE v \in Unparsable
  BY <1>1 DEF UnpatchedIn
<1>2. CASE v \notin Unparsable
  BY <1>2, UnpatchedIsListed DEF Unpatched
<1>3. QED
  BY <1>1, <1>2

LEMMA NotUnaffectedIsPlace ==
  ASSUME NEW S \in SUBSET Places, NEW v, ~IsUnaffected(S, v)
  PROVE  NotUnaffectedIn(S, v) \in Places \cup {NoAdvisory}
<1>1. CASE v \in Unparsable
  BY <1>1 DEF NotUnaffectedIn
<1>2. CASE v \notin Unparsable
  <2>1. NotUnaffected(S, v) # {} /\ NotUnaffected(S, v) \subseteq Places
    BY <1>2 DEF IsUnaffected, NotUnaffected
  <2>2. QED
    BY <1>2, <2>1, FirstIsOne DEF NotUnaffectedIn, NotUnaffected
<1>3. QED
  BY <1>1, <1>2

LEMMA NoneIsAcceptable == Acceptable(NoAdvisory)
  BY DEF Acceptable, Accepted, Severity
-----------------------------------------------------------------------------
(* Types.                                                                  *)

LEMMA TypeInit == Init => TypeOK
<1>1. GemFile # {}
  <2>1. PICK g \in Gems, v \in Versions : TRUE
    BY AdvisoryAssumption
  <2>2. [gem |-> g, number |-> v, platform |-> TRUE] \in GemFile
    BY DEF GemFile
  <2>3. QED
    BY <2>2
<1>2. SUFFICES ASSUME Init PROVE TypeOK
  OBVIOUS
<1>3. (CHOOSE f \in GemFile : TRUE) \in GemFile
  BY <1>1
<1>4. QED
  <2>1. /\ first \in [Requests -> Places \cup {NoAdvisory}]
        /\ found \in [Requests -> SUBSET (Places \cup {NoAdvisory})]
        /\ ask \in [Requests -> GemFile]
        /\ pc \in [Requests -> {"new", "filtered", "asked", "unpatched",
                                "allowed", "refused"}]
        /\ cache \in [Gems -> SUBSET Places]
    BY <1>2, <1>3 DEF Init, Empty
  <2>2. ticks \in 0 .. MaxTicks /\ place \in Nat \ {0}
    BY <1>2, AdvisoryAssumption DEF Init
  <2>3. /\ config \in Configs /\ closeReturns \in BOOLEAN
        /\ up \in BOOLEAN /\ closed \in BOOLEAN /\ whole \in BOOLEAN
        /\ phase = "updating"
        /\ repo = {} /\ walked = {} /\ known = {} /\ calm = {}
    BY <1>2 DEF Init
  <2>4. QED
    BY <2>1, <2>2, <2>3 DEF TypeOK

LEMMA RefreshTypes ==
  ASSUME TypeOK, Tick \/ Refresh
  PROVE  TypeOK'
<1>1. CASE Tick
  BY <1>1, AdvisoryAssumption DEF Tick, TypeOK, handlers
<1>2. CASE UpdateAdvisoryRepo
  BY <1>2 DEF UpdateAdvisoryRepo, TypeOK, handlers, clock
<1>3. CASE CloseCache
  <2>1. cache' \in [Gems -> SUBSET Places]
    BY <1>3 DEF CloseCache, Empty
  <2>2. closed' \in BOOLEAN /\ whole' \in BOOLEAN
    BY <1>3 DEF CloseCache
  <2>3. place' \in Nat \ {0} /\ phase' = "filling"
    BY <1>3 DEF CloseCache
  <2>4. walked' \subseteq Places /\ calm' \subseteq Requests
    BY <1>3 DEF CloseCache, TypeOK
  <2>5. QED
    BY <1>3, <2>1, <2>2, <2>3, <2>4 DEF CloseCache, TypeOK, handlers
<1>4. CASE CacheFile
  <2>1. Files[place].gem \in Gems
    BY <1>4, PlacesAreNatural DEF CacheFile, Advisory
  <2>2. cache' \in [Gems -> SUBSET Places]
    BY <1>4, <2>1 DEF CacheFile, TypeOK
  <2>3. QED
    BY <1>4, <2>2 DEF CacheFile, TypeOK, handlers, clock
<1>5. CASE EndWalk
  BY <1>5 DEF EndWalk, TypeOK, handlers
<1>6. CASE WalkFails
  BY <1>6 DEF WalkFails, TypeOK, handlers
<1>7. QED
  BY <1>1, <1>2, <1>3, <1>4, <1>5, <1>6 DEF Refresh, Fill

LEMMA ListIsPlaces ==
  ASSUME TypeOK, NEW f \in GemFile
  PROVE  ListFor(f) \in SUBSET Places
  BY DEF TypeOK, ListFor, GemFile

LEMMA RequestTypes ==
  ASSUME TypeOK, NEW r \in Requests, Ask(r) \/ CheckPatched(r) \/ CheckUnaffected(r)
  PROVE  TypeOK'
<1>1. CASE Ask(r)
  BY <1>1 DEF Ask, TypeOK, clock
<1>2. CASE CheckPatched(r)
  <2>1. ask[r] \in GemFile /\ ListFor(ask[r]) \in SUBSET Places
    BY ListIsPlaces DEF TypeOK
  <2>2. first' \in [Requests -> Places \cup {NoAdvisory}]
    BY <1>2, <2>1, UnpatchedIsPlace DEF CheckPatched, TypeOK
  <2>3. QED
    BY <1>2, <2>2 DEF CheckPatched, TypeOK, clock
<1>3. CASE CheckUnaffected(r)
  <2>1. ask[r] \in GemFile /\ ListFor(ask[r]) \in SUBSET Places
    BY ListIsPlaces DEF TypeOK
  <2>2. found' \in [Requests -> SUBSET (Places \cup {NoAdvisory})]
    BY <1>3, <2>1, NotUnaffectedIsPlace DEF CheckUnaffected, TypeOK
  <2>3. QED
    BY <1>3, <2>2 DEF CheckUnaffected, TypeOK, clock
<1>4. QED
  BY <1>1, <1>2, <1>3

LEMMA TypeNext == TypeOK /\ [Next]_vars => TypeOK'
<1>1. ASSUME TypeOK, UNCHANGED vars PROVE TypeOK'
  BY <1>1 DEF TypeOK, vars, handlers, clock
<1>2. QED
  BY <1>1, RefreshTypes, RequestTypes DEF Next
-----------------------------------------------------------------------------
(* What is cached is known, and a whole cache is what was walked.          *)

LEMMA CacheInit == Init => KnownInv /\ FillInv
  BY DEF Init, KnownInv, FillInv, Empty

LEMMA KnownNext ==
  ASSUME TypeOK, KnownInv, [Next]_vars
  PROVE  KnownInv'
<1>1. ASSUME UNCHANGED <<repo, cache, walked, known>> PROVE KnownInv'
  BY <1>1 DEF KnownInv
<1>2. CASE UpdateAdvisoryRepo
  BY <1>2 DEF UpdateAdvisoryRepo, KnownInv
<1>3. CASE CloseCache
  BY <1>3 DEF CloseCache, KnownInv, Empty
<1>4. CASE CacheFile
  <2>1. UNCHANGED <<repo, walked, known>>
    BY <1>4 DEF CacheFile
  <2>2. ASSUME NEW g \in Gems, NEW i \in cache'[g]
        PROVE  i \in known /\ Files[i].gem = g
    <3>1. CASE place \in repo /\ Files[place].gem = g
      <4>1. cache'[g] = cache[g] \cup {place}
        BY <1>4, <3>1 DEF CacheFile, TypeOK
      <4>2. QED
        BY <4>1, <2>2, <3>1 DEF KnownInv
    <3>2. CASE place \notin repo \/ Files[place].gem # g
      <4>1. cache'[g] = cache[g]
        BY <1>4, <3>2 DEF CacheFile, TypeOK
      <4>2. QED
        BY <4>1, <2>2 DEF KnownInv
    <3>3. QED
      BY <3>1, <3>2
  <2>3. QED
    BY <2>1, <2>2 DEF KnownInv
<1>5. CASE Tick \/ EndWalk \/ WalkFails
  BY <1>1, <1>5 DEF Tick, EndWalk, WalkFails
<1>6. ASSUME NEW r \in Requests, Ask(r) \/ CheckPatched(r) \/ CheckUnaffected(r)
      PROVE  KnownInv'
  BY <1>1, <1>6 DEF Ask, CheckPatched, CheckUnaffected
<1>7. CASE UNCHANGED vars
  BY <1>1, <1>7 DEF vars
<1>8. QED
  BY <1>2, <1>3, <1>4, <1>5, <1>6, <1>7 DEF Next, Refresh, Fill

\* A walk that has passed every place has passed each of its files.
LEMMA WalkIsPast ==
  ASSUME TypeOK, place \notin Places
  PROVE  \A i \in Places : i < place
<1>1. place \in Nat \ {0}
  BY DEF TypeOK
<1>2. Places = 1 .. Len(Files) /\ Len(Files) \in Nat
  BY AdvisoryAssumption DEF Places
<1>3. place > Len(Files)
  BY <1>1, <1>2
<1>4. QED
  BY <1>1, <1>2, <1>3

LEMMA FillNext ==
  ASSUME TypeOK, FillInv, [Next]_vars
  PROVE  FillInv'
<1>1. ASSUME UNCHANGED <<repo, cache, walked, whole, phase, place>> PROVE FillInv'
  BY <1>1 DEF FillInv, About
<1>2. ASSUME UNCHANGED <<cache, walked, whole>>, phase' # "filling" PROVE FillInv'
  BY <1>2 DEF FillInv
<1>3. CASE Tick \/ UpdateAdvisoryRepo \/ WalkFails
  BY <1>2, <1>3 DEF Tick, UpdateAdvisoryRepo, WalkFails
<1>4. CASE CloseCache
  <2>1. walked' = repo' /\ whole' = FALSE /\ place' = 1 /\ repo' = repo
    BY <1>4 DEF CloseCache
  <2>2. ASSUME NEW g \in Gems PROVE cache'[g] = About(walked', g, place')
    <3>1. cache'[g] = {}
      BY <1>4 DEF CloseCache, Empty
    <3>2. \A i \in repo : i \in Nat \ {0}
      BY PlacesAreNatural DEF TypeOK
    <3>3. QED
      BY <2>1, <3>1, <3>2 DEF About
  <2>3. QED
    BY <2>1, <2>2 DEF FillInv
<1>5. CASE CacheFile
  <2>1. /\ phase = "filling" /\ phase' = "filling"
        /\ place \in Places /\ place' = place + 1
        /\ walked' = walked /\ repo' = repo
    BY <1>5 DEF CacheFile
  <2>2. whole = FALSE /\ walked = repo
    BY <2>1 DEF FillInv
  <2>3. whole' = FALSE
    BY <1>5, <2>2 DEF CacheFile
  <2>4. ASSUME NEW g \in Gems PROVE cache'[g] = About(walked, g, place + 1)
    <3>1. cache[g] = About(walked, g, place)
      BY <2>1 DEF FillInv
    <3>2. \A i \in walked : i \in Nat
      BY PlacesAreNatural DEF TypeOK
    <3>3. place \in Nat
      BY DEF TypeOK
    <3>4. \A i \in walked : i < place + 1 <=> i < place \/ i = place
      BY <3>2, <3>3
    <3>5. CASE place \in repo /\ Files[place].gem = g
      <4>1. cache'[g] = cache[g] \cup {place}
        BY <1>5, <3>5 DEF CacheFile, TypeOK
      <4>2. QED
        BY <4>1, <2>2, <3>1, <3>4, <3>5 DEF About
    <3>6. CASE place \notin repo \/ Files[place].gem # g
      <4>1. cache'[g] = cache[g]
        BY <1>5, <3>6 DEF CacheFile, TypeOK
      <4>2. QED
        BY <4>1, <2>2, <3>1, <3>4, <3>6 DEF About
    <3>7. QED
      BY <3>5, <3>6
  <2>5. QED
    BY <2>1, <2>2, <2>3, <2>4 DEF FillInv
<1>6. CASE EndWalk
  <2>1. /\ phase = "filling" /\ phase' = "idle" /\ place \notin Places
        /\ UNCHANGED <<cache, walked>>
    BY <1>6 DEF EndWalk
  <2>2. ASSUME NEW g \in Gems
        PROVE  cache[g] = {i \in walked : Files[i].gem = g}
    <3>1. cache[g] = About(walked, g, place)
      BY <2>1 DEF FillInv
    <3>2. \A i \in walked : i < place
      BY WalkIsPast, <2>1 DEF TypeOK
    <3>3. QED
      BY <3>1, <3>2 DEF About
  <2>3. QED
    BY <2>1, <2>2 DEF FillInv
<1>7. ASSUME NEW r \in Requests, Ask(r) \/ CheckPatched(r) \/ CheckUnaffected(r)
      PROVE  FillInv'
  BY <1>1, <1>7 DEF Ask, CheckPatched, CheckUnaffected
<1>8. CASE UNCHANGED vars
  BY <1>1, <1>8 DEF vars
<1>9. QED
  BY <1>3, <1>4, <1>5, <1>6, <1>7, <1>8 DEF Next, Refresh, Fill
-----------------------------------------------------------------------------
(* Why gems are refused.                                                   *)

\* What the two reads of a list mean for a file, whatever else is there.
LEMMA ListedIsBearing ==
  ASSUME TypeOK, FillInv, whole = TRUE, NEW f \in GemFile, f.platform = FALSE
  PROVE  Unpatched(ListFor(f), f.number) = Bearing(f)
<1>1. f.gem \in Gems
  BY DEF GemFile
<1>2. ListFor(f) = {i \in walked : Files[i].gem = f.gem}
  BY <1>1 DEF ListFor, FillInv
<1>3. QED
  BY <1>2 DEF Unpatched, Bearing

LEMMA UnpatchedIsCause ==
  ASSUME TypeOK, KnownInv, NEW f \in GemFile, ~IsPatched(ListFor(f), f.number),
         UnpatchedIn(ListFor(f), f.number) # NoAdvisory
  PROVE  Cause(f, UnpatchedIn(ListFor(f), f.number))
<1>1. f.gem \in Gems
  BY DEF GemFile
<1>2. f.platform = FALSE
  BY DEF IsPatched, ListFor
<1>3. ListFor(f) = cache[f.gem]
  BY <1>2 DEF ListFor
<1>4. f.number \notin Unparsable
  BY DEF UnpatchedIn
<1>5. UnpatchedIn(ListFor(f), f.number) \in Unpatched(ListFor(f), f.number)
  BY <1>4, ListIsPlaces, UnpatchedIsListed
<1>6. \A i \in cache[f.gem] : i \in known /\ Files[i].gem = f.gem
  BY <1>1 DEF KnownInv
<1>7. QED
  BY <1>3, <1>5, <1>6 DEF Unpatched, Cause

LEMMA CauseNext ==
  ASSUME TypeOK, KnownInv, CauseInv, [Next]_vars
  PROVE  CauseInv'
<1>1. ASSUME UNCHANGED <<handlers, config>>, known \subseteq known'
      PROVE  CauseInv'
  BY <1>1 DEF CauseInv, Cause, handlers, Acceptable, Accepted
<1>2. CASE Tick \/ Refresh
  <2>1. UNCHANGED <<handlers, config>>
    BY <1>2 DEF Tick, Refresh, Fill, UpdateAdvisoryRepo, CloseCache, CacheFile, EndWalk,
                WalkFails
  <2>2. known \subseteq known'
    BY <1>2 DEF Tick, Refresh, Fill, UpdateAdvisoryRepo, CloseCache, CacheFile, EndWalk,
                WalkFails
  <2>3. QED
    BY <1>1, <2>1, <2>2
<1>3. ASSUME NEW r \in Requests, Ask(r) PROVE CauseInv'
  <2>1. pc'[r] \in {"filtered", "asked", "allowed"}
    BY <1>3 DEF Ask, TypeOK
  <2>2. \A q \in Requests \ {r} : pc'[q] = pc[q] /\ ask'[q] = ask[q]
    BY <1>3 DEF Ask, TypeOK
  <2>3. UNCHANGED <<config, known, first, found>>
    BY <1>3 DEF Ask
  <2>4. QED
    BY <2>1, <2>2, <2>3 DEF CauseInv, Cause, Acceptable, Accepted
<1>4. ASSUME NEW r \in Requests, CheckPatched(r) PROVE CauseInv'
  <2>1. pc'[r] \in {"allowed", "unpatched"}
    BY <1>4 DEF CheckPatched, TypeOK
  <2>2. \A q \in Requests \ {r} : pc'[q] = pc[q] /\ first'[q] = first[q]
    BY <1>4 DEF CheckPatched, TypeOK
  <2>3. UNCHANGED <<config, known, ask, found>>
    BY <1>4 DEF CheckPatched
  <2>4. ASSUME pc'[r] = "unpatched"
        PROVE  /\ ask[r].platform = FALSE
               /\ first'[r] # NoAdvisory => Cause(ask[r], first'[r])
    <3>1. ask[r] \in GemFile
      BY DEF TypeOK
    <3>2. ~IsPatched(ListFor(ask[r]), ask[r].number)
      BY <1>4, <2>4 DEF CheckPatched, TypeOK
    <3>3. ask[r].platform = FALSE
      BY <3>2 DEF IsPatched, ListFor
    <3>4. first'[r] = UnpatchedIn(ListFor(ask[r]), ask[r].number)
      BY <1>4, <3>2 DEF CheckPatched, TypeOK
    <3>5. QED
      BY <3>1, <3>2, <3>3, <3>4, UnpatchedIsCause
  <2>5. QED
    BY <2>1, <2>2, <2>3, <2>4 DEF CauseInv, Cause, Acceptable, Accepted
<1>5. ASSUME NEW r \in Requests, CheckUnaffected(r) PROVE CauseInv'
  <2>1. pc[r] = "unpatched" /\ pc'[r] \in {"allowed", "refused"}
    BY <1>5 DEF CheckUnaffected, TypeOK
  <2>2. \A q \in Requests \ {r} : pc'[q] = pc[q] /\ found'[q] = found[q]
    BY <1>5 DEF CheckUnaffected, TypeOK
  <2>3. UNCHANGED <<config, known, ask, first>>
    BY <1>5 DEF CheckUnaffected
  <2>4. ASSUME pc'[r] = "refused"
        PROVE  /\ ask[r].platform = FALSE
               /\ first[r] \in found'[r]
               /\ Cause(ask[r], first[r]) /\ ~Acceptable(first[r])
    <3>1. ~Acceptable(first[r])
      BY <1>5, <2>4 DEF CheckUnaffected, TypeOK
    <3>2. first[r] \in found'[r]
      BY <1>5, <3>1 DEF CheckUnaffected, TypeOK
    <3>3. first[r] # NoAdvisory
      BY <3>1, NoneIsAcceptable
    <3>4. QED
      BY <2>1, <3>1, <3>2, <3>3 DEF CauseInv
  <2>5. \A i : Acceptable(i)' <=> Acceptable(i)
    BY <2>3 DEF Acceptable, Accepted
  <2>6. QED
    BY <2>1, <2>2, <2>3, <2>4, <2>5 DEF CauseInv, Cause
<1>6. CASE UNCHANGED vars
  BY <1>1, <1>6 DEF vars
<1>7. QED
  BY <1>2, <1>3, <1>4, <1>5, <1>6 DEF Next
-----------------------------------------------------------------------------
(* What gets through.                                                      *)

LEMMA PassedSame ==
  ASSUME UNCHANGED <<config, walked>>
  PROVE  /\ \A f : Bearing(f)' = Bearing(f)
         /\ \A f : Passed(f)' <=> Passed(f)
<1>1. \A f : Bearing(f)' = Bearing(f)
  BY DEF Bearing
<1>2. \A i : Acceptable(i)' <=> Acceptable(i)
  BY DEF Acceptable, Accepted
<1>3. QED
  BY <1>1, <1>2 DEF Passed

LEMMA CalmSame ==
  ASSUME CalmInv, UNCHANGED <<handlers, config, walked, whole>>, calm' = calm
  PROVE  CalmInv'
  BY PassedSame DEF CalmInv, CalmFor, handlers

LEMMA CalmNext ==
  ASSUME TypeOK, FillInv, CalmInv, [Next]_vars
  PROVE  CalmInv'
<1>1. CASE Tick \/ UpdateAdvisoryRepo \/ CacheFile \/ WalkFails
  BY <1>1, CalmSame DEF Tick, UpdateAdvisoryRepo, CacheFile, WalkFails
<1>2. CASE CloseCache
  BY <1>2 DEF CloseCache, CalmInv
<1>3. CASE EndWalk
  <2>1. whole = FALSE /\ calm' = calm
    BY <1>3 DEF EndWalk, FillInv
  <2>2. calm' = {}
    BY <2>1 DEF CalmInv, CalmFor
  <2>3. QED
    BY <2>2 DEF CalmInv
<1>4. ASSUME NEW r \in Requests, Ask(r) PROVE CalmInv'
  <2>1. /\ pc'[r] # "unpatched"
        /\ pc'[r] = "allowed" => config.enabled = FALSE
    <3>1. config.enabled \in BOOLEAN
      BY AdvisoryAssumption DEF TypeOK, Config
    <3>2. QED
      BY <1>4, <3>1 DEF Ask, TypeOK
  <2>2. \A q \in Requests \ {r} : pc'[q] = pc[q] /\ ask'[q] = ask[q]
    BY <1>4 DEF Ask, TypeOK
  <2>3. UNCHANGED <<config, walked, whole, first>>
    BY <1>4 DEF Ask
  <2>4. \A q \in calm' : q \in Requests /\ whole = TRUE /\ (q # r => q \in calm)
    BY <1>4 DEF Ask, CalmInv, CalmFor, TypeOK
  <2>5. ASSUME NEW q \in calm' PROVE CalmFor(q)'
    <3>1. CASE q = r
      BY <2>1, <2>3, <2>4, <3>1 DEF CalmFor, Passed
    <3>2. CASE q # r
      <4>1. CalmFor(q)
        BY <2>4, <3>2 DEF CalmInv
      <4>2. QED
        BY <2>2, <2>3, <2>4, <3>2, <4>1, PassedSame DEF CalmFor
    <3>3. QED
      BY <3>1, <3>2
  <2>6. QED
    BY <2>5 DEF CalmInv
<1>5. ASSUME NEW r \in Requests, CheckPatched(r) PROVE CalmInv'
  <2>1. pc'[r] \in {"allowed", "unpatched"}
    BY <1>5 DEF CheckPatched, TypeOK
  <2>2. \A q \in Requests \ {r} : pc'[q] = pc[q] /\ first'[q] = first[q]
    BY <1>5 DEF CheckPatched, TypeOK
  <2>3. UNCHANGED <<config, walked, whole, ask, calm>>
    BY <1>5 DEF CheckPatched
  <2>4. ASSUME r \in calm
        PROVE  /\ pc'[r] = "unpatched" =>
                     ask[r].number \in Unparsable \/ first'[r] \in Bearing(ask[r])
               /\ pc'[r] = "allowed" => Passed(ask[r])
    <3> DEFINE S == ListFor(ask[r])
               v == ask[r].number
    <3>1. ask[r] \in GemFile /\ S \in SUBSET Places /\ whole = TRUE
      BY <2>4, ListIsPlaces DEF TypeOK, CalmInv, CalmFor
    <3>2. ask[r].platform = FALSE => Unpatched(S, v) = Bearing(ask[r])
      BY <3>1, ListedIsBearing
    <3>3. ask[r].platform \in BOOLEAN
      BY <3>1 DEF GemFile
    <3>4. CASE IsPatched(S, v)
      <4>1. pc'[r] = "allowed"
        BY <1>5, <3>4 DEF CheckPatched, TypeOK
      <4>2. Unpatched(S, v) = {}
        BY <3>4 DEF IsPatched, Unpatched
      <4>3. QED
        BY <3>2, <3>3, <4>1, <4>2 DEF Passed
    <3>5. CASE ~IsPatched(S, v)
      <4>1. pc'[r] = "unpatched" /\ first'[r] = UnpatchedIn(S, v)
        BY <1>5, <3>5 DEF CheckPatched, TypeOK
      <4>2. ask[r].platform = FALSE
        BY <3>3, <3>5 DEF IsPatched, ListFor
      <4>3. v \notin Unparsable => UnpatchedIn(S, v) \in Unpatched(S, v)
        BY <3>1, <3>5, UnpatchedIsListed
      <4>4. QED
        BY <3>2, <4>1, <4>2, <4>3
    <3>6. QED
      BY <3>4, <3>5
  <2>5. ASSUME NEW q \in calm' PROVE CalmFor(q)'
    <3>1. q \in Requests /\ q \in calm /\ CalmFor(q)
      BY <2>3 DEF CalmInv, TypeOK
    <3>2. CASE q = r
      BY <2>1, <2>3, <2>4, <3>1, <3>2, PassedSame DEF CalmFor
    <3>3. CASE q # r
      BY <2>2, <2>3, <3>1, <3>3, PassedSame DEF CalmFor
    <3>4. QED
      BY <3>2, <3>3
  <2>6. QED
    BY <2>5 DEF CalmInv
<1>6. ASSUME NEW r \in Requests, CheckUnaffected(r) PROVE CalmInv'
  <2>1. pc[r] = "unpatched" /\ pc'[r] \in {"allowed", "refused"}
    BY <1>6 DEF CheckUnaffected, TypeOK
  <2>2. \A q \in Requests \ {r} : pc'[q] = pc[q]
    BY <1>6 DEF CheckUnaffected, TypeOK
  <2>3. UNCHANGED <<config, walked, whole, ask, first, calm>>
    BY <1>6 DEF CheckUnaffected
  <2>4. ASSUME r \in calm, pc'[r] = "allowed" PROVE Passed(ask[r])
    <3>1. Acceptable(first[r])
      BY <1>6, <2>4 DEF CheckUnaffected, TypeOK
    <3>2. ask[r].number \in Unparsable \/ first[r] \in Bearing(ask[r])
      BY <2>1, <2>4 DEF CalmInv, CalmFor
    <3>3. QED
      BY <3>1, <3>2 DEF Passed
  <2>5. ASSUME NEW q \in calm' PROVE CalmFor(q)'
    <3>1. q \in Requests /\ q \in calm /\ CalmFor(q)
      BY <2>3 DEF CalmInv, TypeOK
    <3>2. CASE q = r
      BY <2>1, <2>3, <2>4, <3>1, <3>2, PassedSame DEF CalmFor
    <3>3. CASE q # r
      BY <2>2, <2>3, <3>1, <3>3, PassedSame DEF CalmFor
    <3>4. QED
      BY <3>2, <3>3
  <2>6. QED
    BY <2>5 DEF CalmInv
<1>7. CASE UNCHANGED vars
  BY <1>7, CalmSame DEF vars
<1>8. QED
  BY <1>1, <1>2, <1>3, <1>4, <1>5, <1>6, <1>7 DEF Next, Refresh, Fill
-----------------------------------------------------------------------------
LEMMA AInit == Init => AInv
<1>1. SUFFICES ASSUME Init PROVE AInv
  OBVIOUS
<1>2. CauseInv /\ CalmInv
  BY <1>1 DEF Init, CauseInv, CalmInv
<1>3. QED
  BY <1>1, <1>2, TypeInit, CacheInit DEF AInv

LEMMA ANext == AInv /\ [Next]_vars => AInv'
  BY TypeNext, KnownNext, FillNext, CauseNext, CalmNext DEF AInv

\* Every variable keeps its type: the cache never lists a place outside the
\* clone, and a request never holds anything but an advisory of it.
THEOREM AdvisoriesTypeCorrect == Spec => []TypeOK
<1>1. Init => AInv
  BY AInit
<1>2. AInv /\ [Next]_vars => AInv'
  BY ANext
<1>3. AInv => TypeOK
  BY DEF AInv
<1>4. QED
  BY <1>1, <1>2, <1>3, PTL DEF Spec

\* A gem is refused only for an advisory that was known, is about it, does not
\* patch its version and is too severe, whatever Refresh does meanwhile.
THEOREM RefusalsHaveCause == Spec => []RefusedForCause
<1>1. Init => AInv
  BY AInit
<1>2. AInv /\ [Next]_vars => AInv'
  BY ANext
<1>3. AInv => RefusedForCause
  BY DEF AInv, CauseInv, Cause, RefusedForCause
<1>4. QED
  BY <1>1, <1>2, <1>3, PTL DEF Spec

\* While the cache is whole and not closed, no gem gets through all of whose
\* advisories are too severe.
THEOREM AdvisedAreRefused == Spec => []AdvisedIsRefused
<1>1. Init => AInv
  BY AInit
<1>2. AInv /\ [Next]_vars => AInv'
  BY ANext
<1>3. AInv => AdvisedIsRefused
  BY DEF AInv, CalmInv, CalmFor, Passed, AdvisedIsRefused
<1>4. QED
  BY <1>1, <1>2, <1>3, PTL DEF Spec

-----------------------------------------------------------------------------
(* The bands of severity.                                                  *)

\* A tenth more is the same band or the next one (severityV3, severityV2).
LEMMA BandsMeet ==
  ASSUME NEW s \in 1 .. 99
  PROVE  /\ SeverityV3(s + 1) = SeverityV3(s)
            \/ <<SeverityV3(s), SeverityV3(s + 1)>> \in
                  {<<"low", "medium">>, <<"medium", "high">>, <<"high", "critical">>}
         /\ SeverityV2(s + 1) = SeverityV2(s)
            \/ <<SeverityV2(s), SeverityV2(s + 1)>> \in
                  {<<"none", "medium">>, <<"medium", "high">>}
<1>1. /\ s \in 1 .. 39 <=> s <= 39
      /\ s \in 40 .. 69 <=> 40 <= s /\ s <= 69
      /\ s \in 70 .. 89 <=> 70 <= s /\ s <= 89
      /\ s \in 90 .. 100 <=> 90 <= s
      /\ s \in 70 .. 100 <=> 70 <= s
  OBVIOUS
<1>2. /\ s + 1 \in 1 .. 39 <=> s <= 38
      /\ s + 1 \in 40 .. 69 <=> 39 <= s /\ s <= 68
      /\ s + 1 \in 70 .. 89 <=> 69 <= s /\ s <= 88
      /\ s + 1 \in 90 .. 100 <=> 89 <= s
      /\ s + 1 \in 70 .. 100 <=> 69 <= s
  OBVIOUS
<1>3. QED
  BY <1>1, <1>2 DEF SeverityV3, SeverityV2

\* A gem refused for its score is refused for any score above it, whatever the
\* configured maximum.
THEOREM WorseIsRefused == Spec => []WorseIsNotAccepted
<1>1. TypeOK => WorseIsNotAccepted
  <2>1. SUFFICES ASSUME TypeOK, NEW s \in 1 .. 99
                 PROVE  /\ Accepted(SeverityV3(s + 1)) => Accepted(SeverityV3(s))
                        /\ Accepted(SeverityV2(s + 1)) => Accepted(SeverityV2(s))
    BY DEF WorseIsNotAccepted
  <2>2. /\ Accepted("medium") => Accepted("low")
        /\ Accepted("high") => Accepted("medium")
        /\ Accepted("critical") => Accepted("high")
        /\ Accepted("none")
    BY DEF Accepted
  <2>3. QED
    BY <2>2, BandsMeet
<1>2. QED
  BY <1>1, AdvisoriesTypeCorrect, PTL
=============================================================================

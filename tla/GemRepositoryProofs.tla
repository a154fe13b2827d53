------------------------ MODULE GemRepositoryProofs -------------------------
(***************************************************************************)
(* Theorems about GemRepository, for every set of gems, requests and       *)
(* contents and any number of crashes.                                     *)
(***************************************************************************)
EXTENDS GemRepositoryInvariants, TLAPS

-----------------------------------------------------------------------------
(* Lemmas about the operators.                                             *)

\* There is a gem: Init's CHOOSE picks one.
LEMMA GemNonEmpty == Gem # {}
  <1>1. PICK n \in Names, v \in Numbers : TRUE
    BY SpecListAssumption
  <1>2. [name |-> n, number |-> v, platform |-> Ruby] \in Gem
    BY SpecListAssumption DEF Gem
  <1> QED
    BY <1>2

\* The plain gem of a name and number is a gem (rubygems.go:187).
LEMMA RubyVariantType == \A g \in Gem : RubyVariant(g) \in Gem
  BY SpecListAssumption DEF Gem, RubyVariant

\* Every position of the two orders is an index file, or an index.
LEMMA OrderTypes ==
    /\ \A i \in 1 .. 6 : MoveOrder[i] \in IndexFile /\ MoveOrder[i][1] \in Index
    /\ \A i \in 1 .. 3 : RewriteOrder[i] \in Index
  <1>1. \A i \in 1 .. 6 : i = 1 \/ i = 2 \/ i = 3 \/ i = 4 \/ i = 5 \/ i = 6
    OBVIOUS
  <1>2. \A i \in 1 .. 3 : i = 1 \/ i = 2 \/ i = 3
    OBVIOUS
  <1>3. \A i \in 1 .. 6 : MoveOrder[i] \in IndexFile /\ MoveOrder[i][1] \in Index
    BY <1>1 DEF MoveOrder, IndexFile, Index
  <1>4. \A i \in 1 .. 3 : RewriteOrder[i] \in Index
    BY <1>2 DEF RewriteOrder, Index
  <1> QED
    BY <1>3, <1>4

\* Each of the three indexes built from a set of specs lists some of them.
LEMMA PartitionType ==
    ASSUME NEW S
    PROVE  \A i \in Index : Partition(S)[i] \subseteq S
  BY DEF Partition, Index, ReleasesOf, LatestOf, PrereleasesOf

\* An updated index lists what the old one did and the new specs, no more.
LEMMA UpdatedIndexType ==
    ASSUME NEW i \in Index, NEW new, UpdatedIndex(i, new) # Missing
    PROVE  /\ dest[<<i, "plain">>] \notin {Missing, Truncated}
           /\ UpdatedIndex(i, new) \subseteq dest[<<i, "plain">>] \cup new
  BY DEF UpdatedIndex, MergeLatest, MergeSpecs

\* FindIndexOf answers -1 or the index of the spec asked for (spec.go:349).
LEMMA FindIndexOfFinds ==
    ASSUME NEW specs, NEW s, FindIndexOf(specs, s) # -1
    PROVE  specs[FindIndexOf(specs, s) + 1] = s
  <1> DEFINE idx == NameIndex(specs, s.name)
             hits == {i \in idx .. Len(specs) - 1 :
                        /\ specs[i + 1] = s
                        /\ \A j \in idx .. i - 1 :
                              specs[j + 1].name = s.name /\ specs[j + 1] # s}
  <1>1. hits # {} /\ FindIndexOf(specs, s) = CHOOSE i \in hits : TRUE
    BY DEF FindIndexOf
  <1>2. FindIndexOf(specs, s) \in hits
    BY <1>1
  <1> QED
    BY <1>2

-----------------------------------------------------------------------------
(* Types.                                                                  *)

Labels == {"new"} \cup UploadSteps \cup YankSteps \cup Done

\* The process's end keeps the types.
LEMMA DieType ==
    ASSUME TypeOK, Die, UNCHANGED <<delivered, acked, withdrawn, yanked>>,
           crashes' \in Nat
    PROVE  TypeOK'
  <1>1. pc' \in [Requests -> Labels]
    BY DEF TypeOK, Die, Labels, Done
  <1>2. tmp' \in [Index -> {Missing} \cup SUBSET Gem]
    BY DEF Die, NoTmp
  <1>3. /\ server' \in {"down", "clearing", "staging", "installing", "up"}
        /\ lock' \in Requests \cup {Free}
        /\ at' \in 1 .. 7
        /\ place' \in {"filled", "emptied"}
    BY DEF Die
  <1>4. UNCHANGED <<files, gemspecs, dest, rows, gem, build, seen, listed>>
    BY DEF Die, disk
  <1> QED
    BY <1>1, <1>2, <1>3, <1>4 DEF TypeOK, Labels

\* Every step of the model keeps the types.
LEMMA TypeStep == TypeOK /\ [Next]_vars => TypeOK'
  <1> USE OrderTypes
  <1> SUFFICES ASSUME TypeOK, [Next]_vars PROVE TypeOK'
    OBVIOUS
  <1>1. ASSUME NEW u \in Uploads, Upload(u) PROVE TypeOK'
    <2>0. u \in Requests
      BY DEF Requests
    <2>1. CASE SaveUpload(u)
      <3>1. PICK g \in Gem, b \in Builds :
              /\ gem' = [gem EXCEPT ![u] = g]
              /\ build' = [build EXCEPT ![u] = b]
              /\ files' = [files EXCEPT ![StorePath(g)] = b]
              /\ delivered' = delivered \cup {[gem |-> g, checksum |-> b]}
              /\ yanked' = yanked \ {g}
        BY <2>1 DEF SaveUpload
      <3>2. [gem |-> g, checksum |-> b] \in Row
        BY DEF Row
      <3> QED
        BY <2>0, <2>1, <3>1, <3>2
           DEF TypeOK, SaveUpload, GoTo, work, UploadSteps
    <2>2. CASE BeginUpdate(u)
      BY <2>0, <2>2 DEF TypeOK, BeginUpdate, GoTo, disk, work, history,
                        StorePath, Path, UploadSteps, Done
    <2>3. CASE ReadVersions(u)
      BY <2>0, <2>3 DEF TypeOK, ReadVersions, RowsOf, GoTo, disk, work,
                        history, UploadSteps
    <2>4. CASE PutVersions(u)
      <3>1. [gem |-> gem[u], checksum |-> build[u]] \in Row
        BY <2>0 DEF TypeOK, Row
      <3>2. rows' \subseteq Row
        BY <2>0, <2>4, <3>1 DEF TypeOK, PutVersions, PutRows, RowsOf
      <3> QED
        BY <2>0, <2>4, <3>2 DEF TypeOK, PutVersions, GoTo, disk, work, history,
                                UploadSteps
    <2>5. CASE CreateGemspec(u)
      BY <2>0, <2>5 DEF TypeOK, CreateGemspec, GoTo, work, history, UploadSteps
    <2>6. CASE WriteGemspec(u)
      BY <2>0, <2>6 DEF TypeOK, WriteGemspec, GoTo, work, history, UploadSteps
    <2>7. CASE UpdateSpecsIndexes(u)
      <3> DEFINE new == Partition({gem[u]})
      <3>1. \A i \in Index : new[i] \subseteq Gem
        BY <2>0, PartitionType DEF TypeOK
      <3>2. \A i \in Index : UpdatedIndex(i, new[i]) \in {Missing} \cup SUBSET Gem
        <4>1. ASSUME NEW i \in Index, UpdatedIndex(i, new[i]) # Missing
              PROVE  UpdatedIndex(i, new[i]) \subseteq Gem
          <5>1. <<i, "plain">> \in IndexFile
            BY DEF IndexFile
          <5> QED
            BY <3>1, <4>1, <5>1, UpdatedIndexType DEF TypeOK
        <4> QED
          BY <4>1
      <3>3. tmp' \in [Index -> {Missing} \cup SUBSET Gem]
        BY <2>7, <3>2 DEF UpdateSpecsIndexes
      <3>4. /\ at' = 1
            /\ pc' = [pc EXCEPT ![u] = "moving"]
            /\ UNCHANGED <<disk, rows, place, lock, server, gem, build, seen,
                           listed, history>>
        BY <2>7 DEF UpdateSpecsIndexes, GoTo
      <3> QED
        BY <2>0, <3>3, <3>4 DEF TypeOK, disk, history, UploadSteps
    <2>8. CASE PanicOnTruncated(u)
      <3>1. crashes' \in Nat /\ UNCHANGED <<delivered, acked, withdrawn, yanked>>
        BY <2>8 DEF TypeOK, PanicOnTruncated, history
      <3> QED
        BY <2>8, <3>1, DieType DEF PanicOnTruncated
    <2>9. CASE FinishUpdate(u)
      <3>1. tmp' \in [Index -> {Missing} \cup SUBSET Gem]
        BY <2>9 DEF FinishUpdate, NoTmp
      <3> QED
        BY <2>0, <2>9, <3>1 DEF TypeOK, FinishUpdate, GoTo, disk, Done
    <2> QED
      BY <1>1, <2>1, <2>2, <2>3, <2>4, <2>5, <2>6, <2>7, <2>8, <2>9 DEF Upload
  <1>2. ASSUME NEW y \in Yanks, Yank(y) PROVE TypeOK'
    <2>0. y \in Requests
      BY DEF Requests
    <2>1. CASE ReceiveYank(y)
      BY <2>0, <2>1 DEF TypeOK, ReceiveYank, GoTo, disk, work, YankSteps
    <2>2. CASE BeginRemove(y)
      BY <2>0, <2>2 DEF TypeOK, BeginRemove, Present, GoTo, disk, work,
                        history, YankSteps
    <2>3. CASE FindInIndex(y)
      <3>1. PICK late \in SUBSET (Present \ listed[y]) :
              LET found == listed[y] \cup late
                  specs == WalkOrder(found)
                  i == FindIndexOf(specs, gem[y])
              IN  IF i = -1
                  THEN /\ lock' = Free
                       /\ GoTo(y, "failed")
                       /\ UNCHANGED listed
                  ELSE /\ listed' = [listed EXCEPT ![y] = found \ {specs[i + 1]}]
                       /\ GoTo(y, "rewriting")
                       /\ UNCHANGED lock
        BY <2>3 DEF FindInIndex
      <3>2. listed[y] \cup late \subseteq Gem
        BY <2>0 DEF TypeOK, Present
      <3>3. listed' \in [Requests -> SUBSET Gem] /\ lock' \in Requests \cup {Free}
        BY <2>0, <3>1, <3>2 DEF TypeOK
      <3>4. pc' \in [Requests -> Labels]
        BY <2>0, <3>1 DEF TypeOK, GoTo, Labels, YankSteps, Done
      <3> QED
        BY <2>3, <3>3, <3>4 DEF TypeOK, FindInIndex, disk, work, history, Labels
    <2>4. CASE TruncateIndex(y)
      BY <2>4 DEF TypeOK, TruncateIndex, IndexFile, handlers, history
    <2>5. CASE RewriteIndex(y)
      <3>1. RewriteOrder[at] \in Index
        BY <2>5 DEF TypeOK, RewriteIndex
      <3>2. Partition(listed[y])[RewriteOrder[at]] \subseteq Gem
        BY <2>0, <3>1, PartitionType DEF TypeOK
      <3> QED
        BY <2>5, <3>1, <3>2 DEF TypeOK, RewriteIndex, IndexFile, handlers, history
    <2>6. CASE FinishRemove(y)
      BY <2>0, <2>6 DEF TypeOK, FinishRemove, GoTo, disk, history, YankSteps
    <2>7. CASE RemoveGemFile(y)
      BY <2>0, <2>7 DEF TypeOK, RemoveGemFile, GoTo, work, history, YankSteps
    <2>8. CASE RemoveGemspec(y)
      BY <2>0, <2>8 DEF TypeOK, RemoveGemspec, GoTo, work, history, YankSteps
    <2>9. CASE ReadForDelete(y)
      BY <2>0, <2>9 DEF TypeOK, ReadForDelete, RowsOf, GoTo, disk, work,
                        history, YankSteps
    <2>10. CASE PutRemaining(y)
      <3>1. rows' \subseteq Row
        BY <2>0, <2>10 DEF TypeOK, PutRemaining, PutRows, RowsOf
      <3>2. yanked' \subseteq Gem
        BY <2>0, <2>10 DEF TypeOK, PutRemaining
      <3> QED
        BY <2>0, <2>10, <3>1, <3>2 DEF TypeOK, PutRemaining, GoTo, disk, work,
                                       Done
    <2> QED
      BY <1>2, <2>1, <2>2, <2>3, <2>4, <2>5, <2>6, <2>7, <2>8, <2>9, <2>10
         DEF Yank
  <1>3. ASSUME MoveIndexes PROVE TypeOK'
    <2>1. CASE RemoveOldIndex
      BY <2>1 DEF TypeOK, RemoveOldIndex, handlers, history
    <2>2. CASE MoveNewIndex
      BY <2>2 DEF TypeOK, MoveNewIndex, handlers, history
    <2>3. CASE SkipIndex
      BY <2>3 DEF TypeOK, SkipIndex, disk, handlers, history
    <2> QED
      BY <1>3, <2>1, <2>2, <2>3 DEF MoveIndexes
  <1>4. ASSUME Start PROVE TypeOK'
    <2>1. CASE GenerateIndex
      <3>1. Partition(Present) \in [Index -> {Missing} \cup SUBSET Gem]
        <4>1. Partition(Present) = [i \in Index |-> Partition(Present)[i]]
          BY DEF Partition, Index
        <4> QED
          BY <4>1, PartitionType DEF Present
      <3> QED
        BY <2>1, <3>1 DEF TypeOK, GenerateIndex, disk, handlers, history
    <2>2. CASE ClearGemspecs
      BY <2>2 DEF TypeOK, ClearGemspecs, work, handlers, history
    <2>3. CASE InstallGemspecs
      BY <2>3 DEF TypeOK, InstallGemspecs, work, handlers, history
    <2>4. CASE FinishInstall
      BY <2>4 DEF TypeOK, FinishInstall, NoTmp, disk, handlers, history
    <2> QED
      BY <1>4, <2>1, <2>2, <2>3, <2>4 DEF Start
  <1>5. CASE Crash
    <2>1. crashes' \in Nat
      BY <1>5 DEF TypeOK, Crash
    <2> QED
      BY <1>5, <2>1, DieType DEF Crash
  <1>6. CASE UNCHANGED vars
    BY <1>6 DEF TypeOK, vars, disk, work, handlers, history
  <1> QED
    BY <1>1, <1>2, <1>3, <1>4, <1>5, <1>6 DEF Next

\* The first state is well typed.
LEMMA InitType == Init => TypeOK
  BY GemNonEmpty, RepositoryAssumption DEF Init, TypeOK, NoTmp

\* The types hold in every state of every instance.
THEOREM TypeCorrect == Spec => []TypeOK
  BY InitType, TypeStep, PTL DEF Spec

-----------------------------------------------------------------------------
(* The mutex.                                                              *)

\* A step of a handler that moves its own pc within, or outside of, the
\* critical section and leaves the mutex alone keeps the mutex's invariant.
LEMMA MutexLocal ==
    ASSUME TypeOK, MutexInv, UNCHANGED <<lock, server>>,
           NEW r \in Requests, NEW label, GoTo(r, label),
           pc[r] \in Critical <=> label \in Critical,
           server = "up",
           r \in Uploads => label \in UploadSteps \cup Done,
           r \in Yanks => label \in YankSteps \cup Done
    PROVE  MutexInv'
  BY DEF TypeOK, MutexInv, GoTo, Requests

\* A handler that takes the mutex, or gives it back.
LEMMA MutexTaken ==
    ASSUME TypeOK, MutexInv, UNCHANGED server,
           NEW r \in Requests, NEW label, GoTo(r, label),
           \/ lock = Free /\ lock' = r /\ label \in Critical
           \/ lock = r /\ lock' = Free /\ label \notin Critical,
           server = "up",
           r \in Uploads => label \in UploadSteps \cup Done,
           r \in Yanks => label \in YankSteps \cup Done
    PROVE  MutexInv'
  BY RepositoryAssumption DEF TypeOK, MutexInv, GoTo, Requests

\* When the process ends, a handler was done, was not called, or is lost.
LEMMA DieHandlers ==
    ASSUME Die
    PROVE  \A r \in Requests : /\ pc'[r] \in Done \cup {"new"}
                               /\ pc'[r] = "lost" \/ pc'[r] = pc[r]
  BY DEF Die, Done

LEMMA MutexDie ==
    ASSUME MutexInv, Die
    PROVE  MutexInv'
  <1>1. \A r \in Requests : pc'[r] \notin Critical
    BY DieHandlers DEF Done, Critical
  <1>2. lock' = Free /\ server' = "down"
    BY DEF Die
  <1> QED
    BY <1>1, <1>2, DieHandlers, RepositoryAssumption DEF MutexInv, Requests

\* Handlers move one by one, and only one is between Lock and Unlock.
LEMMA MutexStep == TypeOK /\ MutexInv /\ [Next]_vars => MutexInv'
  <1> SUFFICES ASSUME TypeOK, MutexInv, [Next]_vars PROVE MutexInv'
    OBVIOUS
  <1> USE DEF Critical, UploadSteps, YankSteps, Done
  <1>0. ASSUME NEW r \in Requests, pc[r] \notin {"new"} \cup Done
        PROVE  server = "up"
    BY <1>0 DEF MutexInv
  <1>1. ASSUME NEW u \in Uploads, Upload(u) PROVE MutexInv'
    <2>0. u \in Requests /\ u \notin Yanks
      BY RepositoryAssumption DEF Requests
    <2>1. CASE SaveUpload(u)
      BY <2>0, <2>1, MutexLocal DEF SaveUpload
    <2>2. CASE BeginUpdate(u)
      <3>1. server = "up"
        BY <1>0, <2>0, <2>2 DEF BeginUpdate
      <3>2. CASE files[StorePath(gem[u])] = NoFile
        BY <2>0, <2>2, <3>1, <3>2, MutexLocal DEF BeginUpdate
      <3>3. CASE files[StorePath(gem[u])] # NoFile
        BY <2>0, <2>2, <3>1, <3>3, MutexTaken DEF BeginUpdate
      <3> QED
        BY <3>2, <3>3
    <2>3. CASE ReadVersions(u)
      BY <1>0, <2>0, <2>3, MutexLocal DEF ReadVersions
    <2>4. CASE PutVersions(u)
      BY <1>0, <2>0, <2>4, MutexLocal DEF PutVersions
    <2>5. CASE CreateGemspec(u)
      BY <1>0, <2>0, <2>5, MutexLocal DEF CreateGemspec
    <2>6. CASE WriteGemspec(u)
      BY <1>0, <2>0, <2>6, MutexLocal DEF WriteGemspec
    <2>7. CASE UpdateSpecsIndexes(u)
      BY <1>0, <2>0, <2>7, MutexLocal DEF UpdateSpecsIndexes
    <2>8. CASE PanicOnTruncated(u)
      BY <2>8, MutexDie DEF PanicOnTruncated
    <2>9. CASE FinishUpdate(u)
      <3>1. lock = u
        BY <2>0, <2>9 DEF FinishUpdate, MutexInv
      <3> QED
        BY <1>0, <2>0, <2>9, <3>1, MutexTaken DEF FinishUpdate
    <2> QED
      BY <1>1, <2>1, <2>2, <2>3, <2>4, <2>5, <2>6, <2>7, <2>8, <2>9 DEF Upload
  <1>2. ASSUME NEW y \in Yanks, Yank(y) PROVE MutexInv'
    <2>0. y \in Requests /\ y \notin Uploads
      BY RepositoryAssumption DEF Requests
    <2>1. CASE ReceiveYank(y)
      BY <2>0, <2>1, MutexLocal DEF ReceiveYank
    <2>2. CASE BeginRemove(y)
      BY <1>0, <2>0, <2>2, MutexTaken DEF BeginRemove
    <2>3. CASE FindInIndex(y)
      <3>1. lock = y /\ server = "up" /\ UNCHANGED server
        BY <1>0, <2>0, <2>3 DEF FindInIndex, MutexInv
      <3>2. \/ lock' = Free /\ GoTo(y, "failed")
            \/ UNCHANGED lock /\ GoTo(y, "rewriting")
        BY <2>3 DEF FindInIndex
      <3> QED
        BY <2>0, <2>3, <3>1, <3>2, MutexTaken, MutexLocal DEF FindInIndex
    <2>4. CASE TruncateIndex(y)
      BY <2>4 DEF TruncateIndex, MutexInv, handlers
    <2>5. CASE RewriteIndex(y)
      BY <2>5 DEF RewriteIndex, MutexInv, handlers
    <2>6. CASE FinishRemove(y)
      <3>1. lock = y
        BY <2>0, <2>6 DEF FinishRemove, MutexInv
      <3> QED
        BY <1>0, <2>0, <2>6, <3>1, MutexTaken DEF FinishRemove
    <2>7. CASE RemoveGemFile(y)
      BY <1>0, <2>0, <2>7, MutexLocal DEF RemoveGemFile
    <2>8. CASE RemoveGemspec(y)
      BY <1>0, <2>0, <2>8, MutexLocal DEF RemoveGemspec
    <2>9. CASE ReadForDelete(y)
      BY <1>0, <2>0, <2>9, MutexLocal DEF ReadForDelete
    <2>10. CASE PutRemaining(y)
      BY <1>0, <2>0, <2>10, MutexLocal DEF PutRemaining
    <2> QED
      BY <1>2, <2>1, <2>2, <2>3, <2>4, <2>5, <2>6, <2>7, <2>8, <2>9, <2>10
         DEF Yank
  <1>3. ASSUME MoveIndexes PROVE MutexInv'
    BY <1>3 DEF MoveIndexes, RemoveOldIndex, MoveNewIndex, SkipIndex, MutexInv,
                handlers
  <1>4. ASSUME Start PROVE MutexInv'
    BY <1>4 DEF Start, GenerateIndex, ClearGemspecs, InstallGemspecs,
                FinishInstall, MutexInv, handlers
  <1>5. CASE Crash
    BY <1>5, MutexDie DEF Crash
  <1>6. CASE UNCHANGED vars
    BY <1>6 DEF MutexInv, vars, handlers
  <1> QED
    BY <1>1, <1>2, <1>3, <1>4, <1>5, <1>6 DEF Next

-----------------------------------------------------------------------------
(* Which steps write what.                                                 *)

\* Each variable changes only in the steps named for it.
LEMMA Writers ==
    ASSUME [Next]_vars
    PROVE  /\ \/ UNCHANGED files
              \/ \E u \in Uploads : SaveUpload(u)
              \/ \E y \in Yanks : RemoveGemFile(y)
           /\ \/ UNCHANGED rows
              \/ \E u \in Uploads : PutVersions(u)
              \/ \E y \in Yanks : PutRemaining(y)
           /\ \/ UNCHANGED seen
              \/ \E u \in Uploads : ReadVersions(u)
              \/ \E y \in Yanks : ReadForDelete(y)
           /\ \/ UNCHANGED listed
              \/ \E y \in Yanks : BeginRemove(y) \/ FindInIndex(y)
           /\ \/ UNCHANGED tmp
              \/ tmp' = NoTmp
              \/ \E u \in Uploads : UpdateSpecsIndexes(u)
              \/ GenerateIndex
           /\ \/ UNCHANGED acked
              \/ \E u \in Uploads : FinishUpdate(u)
           /\ \/ UNCHANGED withdrawn
              \/ \E y \in Yanks : ReceiveYank(y)
           /\ \/ UNCHANGED dest
              \/ RemoveOldIndex
              \/ MoveNewIndex
              \/ \E y \in Yanks : TruncateIndex(y) \/ RewriteIndex(y)
           /\ \/ UNCHANGED gem
              \/ \E u \in Uploads : SaveUpload(u)
              \/ \E y \in Yanks : ReceiveYank(y)
           /\ \/ UNCHANGED delivered
              \/ \E u \in Uploads : SaveUpload(u)
  BY DEF Next, Upload, Yank, MoveIndexes, Start, vars, disk, work, handlers,
         history, Die, SaveUpload, BeginUpdate, ReadVersions, PutVersions,
         CreateGemspec, WriteGemspec, UpdateSpecsIndexes, PanicOnTruncated,
         FinishUpdate, ReceiveYank, BeginRemove, FindInIndex, TruncateIndex,
         RewriteIndex, FinishRemove, RemoveGemFile, RemoveGemspec,
         ReadForDelete, PutRemaining, RemoveOldIndex, MoveNewIndex, SkipIndex,
         GenerateIndex, ClearGemspecs, InstallGemspecs, FinishInstall, Crash

\* A handler's own state changes in its own steps and when the process ends.
LEMMA OwnSteps ==
    ASSUME TypeOK, [Next]_vars, NEW r \in Requests
    PROVE  \/ /\ pc'[r] = pc[r] /\ gem'[r] = gem[r] /\ build'[r] = build[r]
              /\ seen'[r] = seen[r] /\ listed'[r] = listed[r]
           \/ r \in Uploads /\ Upload(r)
           \/ r \in Yanks /\ Yank(r)
           \/ Die
  <1> DEFINE Same == /\ pc'[r] = pc[r] /\ gem'[r] = gem[r] /\ build'[r] = build[r]
                     /\ seen'[r] = seen[r] /\ listed'[r] = listed[r]
  <1>1. ASSUME NEW u \in Uploads, Upload(u), u # r PROVE Same \/ Die
    BY <1>1 DEF TypeOK, GoTo, handlers, Upload, SaveUpload, BeginUpdate,
            ReadVersions, PutVersions, CreateGemspec, WriteGemspec,
            UpdateSpecsIndexes, PanicOnTruncated, FinishUpdate
  <1>2. ASSUME NEW y \in Yanks, Yank(y), y # r PROVE Same
    BY <1>2 DEF TypeOK, GoTo, handlers, Yank, ReceiveYank, BeginRemove,
            FindInIndex, TruncateIndex, RewriteIndex, FinishRemove,
            RemoveGemFile, RemoveGemspec, ReadForDelete, PutRemaining
  <1>3. ASSUME MoveIndexes \/ Start PROVE Same
    BY <1>3 DEF MoveIndexes, Start, RemoveOldIndex, MoveNewIndex, SkipIndex,
            GenerateIndex, ClearGemspecs, InstallGemspecs, FinishInstall, handlers
  <1>4. CASE Crash
    BY <1>4 DEF Crash
  <1>5. CASE UNCHANGED vars
    BY <1>5 DEF vars, handlers
  <1> QED
    BY <1>1, <1>2, <1>3, <1>4, <1>5 DEF Next

\* What the steps of an upload do to its pc.
LEMMA UploadCourse ==
    ASSUME TypeOK, NEW u \in Uploads, Upload(u)
    PROVE  \/ SaveUpload(u) /\ pc'[u] = "saved"
           \/ /\ gem' = gem
              /\ \/ BeginUpdate(u) /\ pc[u] = "saved" /\ pc'[u] \in {"mapped", "failed"}
                 \/ ReadVersions(u) /\ pc[u] = "mapped" /\ pc'[u] = "read"
                 \/ PutVersions(u) /\ pc[u] = "read" /\ pc'[u] = "stored"
                 \/ CreateGemspec(u) /\ pc[u] = "stored"
                    /\ pc'[u] \in {"describing", "described"}
                 \/ WriteGemspec(u) /\ pc[u] = "describing" /\ pc'[u] = "described"
                 \/ UpdateSpecsIndexes(u) /\ pc[u] = "described" /\ pc'[u] = "moving"
                 \/ FinishUpdate(u) /\ pc[u] = "moving" /\ pc'[u] = "answered"
                 \/ Die
  <1> USE DEF TypeOK, Requests, GoTo
  <1>1. CASE SaveUpload(u) BY <1>1 DEF SaveUpload
  <1>2. CASE BeginUpdate(u) BY <1>2 DEF BeginUpdate
  <1>3. CASE ReadVersions(u) BY <1>3 DEF ReadVersions
  <1>4. CASE PutVersions(u) BY <1>4 DEF PutVersions
  <1>5. CASE CreateGemspec(u) BY <1>5 DEF CreateGemspec
  <1>6. CASE WriteGemspec(u) BY <1>6 DEF WriteGemspec
  <1>7. CASE UpdateSpecsIndexes(u) BY <1>7 DEF UpdateSpecsIndexes
  <1>8. CASE PanicOnTruncated(u) BY <1>8 DEF PanicOnTruncated, Die
  <1>9. CASE FinishUpdate(u) BY <1>9 DEF FinishUpdate
  <1> QED
    BY <1>1, <1>2, <1>3, <1>4, <1>5, <1>6, <1>7, <1>8, <1>9 DEF Upload

\* What the steps of a yank do to its pc.
LEMMA YankCourse ==
    ASSUME TypeOK, NEW y \in Yanks, Yank(y)
    PROVE  \/ ReceiveYank(y) /\ pc'[y] = "received"
           \/ /\ gem' = gem
              /\ \/ BeginRemove(y) /\ pc[y] = "received" /\ pc'[y] = "walking"
                 \/ FindInIndex(y) /\ pc[y] = "walking"
                    /\ pc'[y] \in {"failed", "rewriting"}
                 \/ TruncateIndex(y) /\ pc[y] = "rewriting" /\ pc'[y] = "rewriting"
                 \/ RewriteIndex(y) /\ pc[y] = "rewriting" /\ pc'[y] = "rewriting"
                 \/ FinishRemove(y) /\ pc[y] = "rewriting" /\ pc'[y] = "unindexed"
                 \/ RemoveGemFile(y) /\ pc[y] = "unindexed" /\ pc'[y] = "fileRemoved"
                 \/ RemoveGemspec(y) /\ pc[y] = "fileRemoved"
                    /\ pc'[y] = "gemspecRemoved"
                 \/ ReadForDelete(y) /\ pc[y] = "gemspecRemoved" /\ pc'[y] = "deleting"
                 \/ PutRemaining(y) /\ pc[y] = "deleting" /\ pc'[y] \in Done
  <1> USE DEF TypeOK, Requests, GoTo
  <1>1. CASE ReceiveYank(y) BY <1>1 DEF ReceiveYank
  <1>2. CASE BeginRemove(y) BY <1>2 DEF BeginRemove
  <1>3. CASE FindInIndex(y) BY <1>3 DEF FindInIndex
  <1>4. CASE TruncateIndex(y) BY <1>4 DEF TruncateIndex, handlers
  <1>5. CASE RewriteIndex(y) BY <1>5 DEF RewriteIndex, handlers
  <1>6. CASE FinishRemove(y) BY <1>6 DEF FinishRemove
  <1>7. CASE RemoveGemFile(y) BY <1>7 DEF RemoveGemFile
  <1>8. CASE RemoveGemspec(y) BY <1>8 DEF RemoveGemspec
  <1>9. CASE ReadForDelete(y) BY <1>9 DEF ReadForDelete
  <1>10. CASE PutRemaining(y) BY <1>10 DEF PutRemaining, Done
  <1> QED
    BY <1>1, <1>2, <1>3, <1>4, <1>5, <1>6, <1>7, <1>8, <1>9, <1>10 DEF Yank

-----------------------------------------------------------------------------
(* What is listed can be fetched.                                          *)

\* The file a yank removes is never one an upload stored.
LEMMA YankPathIsRoot == \A g \in Gem : YankPath(g) = <<"root", RubyVariant(g)>>
  BY DEF YankPath

\* The walk finds the stored gems, no more and no less.
LEMMA PresentIsStored == StorageInv => Present = Stored
  BY DEF StorageInv, Present, Stored, StorePath

\* No step removes a stored gem, and none stores one at the root.
LEMMA StoredStep ==
    ASSUME TypeOK, StorageInv, [Next]_vars
    PROVE  /\ Stored \subseteq Stored'
           /\ \A g \in Gem : files'[<<"root", g>>] = NoFile
  <1>1. ASSUME UNCHANGED files
        PROVE  Stored \subseteq Stored' /\ \A g \in Gem : files'[<<"root", g>>] = NoFile
    BY <1>1 DEF StorageInv, Stored
  <1>2. ASSUME NEW u \in Uploads, SaveUpload(u)
        PROVE  Stored \subseteq Stored' /\ \A g \in Gem : files'[<<"root", g>>] = NoFile
    <2>1. PICK g \in Gem, b \in Builds :
             files' = [files EXCEPT ![StorePath(g)] = b]
      BY <1>2 DEF SaveUpload
    <2>2. b # NoFile
      BY RepositoryAssumption
    <2> QED
      BY <2>1, <2>2 DEF TypeOK, StorageInv, Stored, StorePath, Path
  <1>3. ASSUME NEW y \in Yanks, RemoveGemFile(y)
        PROVE  Stored \subseteq Stored' /\ \A g \in Gem : files'[<<"root", g>>] = NoFile
    <2>1. gem[y] \in Gem
      BY DEF TypeOK, Requests
    <2>2. files' = [files EXCEPT ![<<"root", RubyVariant(gem[y])>>] = NoFile]
      BY <1>3 DEF RemoveGemFile, YankPath
    <2> QED
      BY <2>1, <2>2 DEF TypeOK, StorageInv, Stored, StorePath, Path
  <1>4. \/ UNCHANGED files
        \/ \E u \in Uploads : SaveUpload(u)
        \/ \E y \in Yanks : RemoveGemFile(y)
    BY Writers
  <1> QED
    BY <1>1, <1>2, <1>3, <1>4

\* Whatever a step writes lists only gems that are stored then.
LEMMA StorageStep ==
    TypeOK /\ MutexInv /\ StorageInv /\ [Next]_vars => StorageInv'
  <1> SUFFICES ASSUME TypeOK, MutexInv, StorageInv, [Next]_vars PROVE StorageInv'
    OBVIOUS
  <1>0. Stored \subseteq Stored' /\ \A g \in Gem : files'[<<"root", g>>] = NoFile
    BY StoredStep
  <1>1. ASSUME NEW u \in Uploads, pc'[u] \in UploadSteps PROVE gem'[u] \in Stored'
    <2>0. u \in Requests /\ u \notin Yanks
      BY RepositoryAssumption DEF Requests
    <2>1. CASE pc'[u] = pc[u] /\ gem'[u] = gem[u]
      BY <1>0, <1>1, <2>1 DEF StorageInv
    <2>2. CASE Upload(u)
      <3>1. CASE SaveUpload(u)
        <4>1. PICK g \in Gem, b \in Builds :
                 /\ gem' = [gem EXCEPT ![u] = g]
                 /\ files' = [files EXCEPT ![StorePath(g)] = b]
          BY <3>1 DEF SaveUpload
        <4>2. gem'[u] = g
          BY <2>0, <4>1 DEF TypeOK
        <4>3. files'[StorePath(g)] # NoFile
          BY <4>1, RepositoryAssumption DEF TypeOK, Path, StorePath
        <4> QED
          BY <4>2, <4>3 DEF Stored
      <3>2. CASE gem' = gem /\ pc[u] \in UploadSteps
        BY <1>0, <3>2 DEF StorageInv
      <3>3. CASE Die
        BY <1>1, <2>0, <3>3, DieHandlers DEF UploadSteps, Done, StorageInv
      <3> QED
        BY <2>2, <3>1, <3>2, <3>3, UploadCourse DEF UploadSteps
    <2>3. CASE Die
      BY <1>1, <2>0, <2>3, DieHandlers DEF UploadSteps, Done
    <2> QED
      BY <2>0, <2>1, <2>2, <2>3, OwnSteps
  <1>2. \A r \in rows' : r.gem \in Stored'
    <2>1. ASSUME NEW u \in Uploads, PutVersions(u)
          PROVE  rows' \subseteq rows \cup seen[u]
                                  \cup {[gem |-> gem[u], checksum |-> build[u]]}
      BY <2>1 DEF PutVersions, PutRows
    <2>2. ASSUME NEW u \in Uploads, PutVersions(u) PROVE gem[u] \in Stored
      BY <2>2 DEF PutVersions, StorageInv, UploadSteps
    <2>3. ASSUME NEW y \in Yanks, PutRemaining(y) PROVE rows' \subseteq rows \cup seen[y]
      BY <2>3 DEF PutRemaining, PutRows
    <2> QED
      BY <1>0, <2>1, <2>2, <2>3, Writers DEF StorageInv, ListedIsServable, Requests
  <1>3. \A q \in Requests : \A r \in seen'[q] : r.gem \in Stored'
    <2>1. ASSUME NEW u \in Requests,
                 seen' = [seen EXCEPT ![u] = RowsOf(gem[u].name)]
          PROVE  \A q \in Requests : \A r \in seen'[q] : r.gem \in Stored'
      BY <1>0, <2>1 DEF TypeOK, StorageInv, ListedIsServable, RowsOf
    <2>2. CASE UNCHANGED seen
      BY <1>0, <2>2 DEF StorageInv
    <2> QED
      BY <2>1, <2>2, Writers DEF ReadVersions, ReadForDelete, Requests
  <1>4. \A q \in Requests : listed'[q] \subseteq Stored'
    <2>1. ASSUME NEW y \in Yanks, NEW S, S \subseteq Present,
                 listed' = [listed EXCEPT ![y] = S]
          PROVE  \A q \in Requests : listed'[q] \subseteq Stored'
      BY <1>0, <2>1, PresentIsStored DEF TypeOK, StorageInv
    <2>2. ASSUME NEW y \in Yanks, FindInIndex(y)
          PROVE  \/ UNCHANGED listed
                 \/ \E S \in SUBSET Present : listed' = [listed EXCEPT ![y] = S]
      BY <2>2, PresentIsStored DEF FindInIndex, StorageInv, Requests
    <2>3. CASE UNCHANGED listed
      BY <1>0, <2>3 DEF StorageInv
    <2> QED
      BY <2>1, <2>2, <2>3, Writers DEF BeginRemove
  <1>5. \A i \in Index : tmp'[i] # Missing => tmp'[i] \subseteq Stored'
    <2>1. CASE UNCHANGED tmp
      BY <1>0, <2>1 DEF StorageInv
    <2>2. CASE tmp' = NoTmp
      BY <2>2 DEF NoTmp
    <2>3. ASSUME NEW u \in Uploads, UpdateSpecsIndexes(u), NEW i \in Index,
                 tmp'[i] # Missing
          PROVE  tmp'[i] \subseteq Stored'
      <3>1. tmp'[i] = UpdatedIndex(i, Partition({gem[u]})[i])
        BY <2>3 DEF UpdateSpecsIndexes
      <3>2. Partition({gem[u]})[i] \subseteq Stored
        <4>1. gem[u] \in Stored
          BY <2>3 DEF UpdateSpecsIndexes, StorageInv, UploadSteps
        <4> QED
          BY <4>1, PartitionType
      <3>3. <<i, "plain">> \in IndexFile
        BY DEF IndexFile
      <3>4. /\ dest[<<i, "plain">>] \notin {Missing, Truncated}
            /\ tmp'[i] \subseteq dest[<<i, "plain">>] \cup Partition({gem[u]})[i]
        BY <2>3, <3>1, UpdatedIndexType
      <3>5. dest[<<i, "plain">>] \subseteq Stored
        BY <3>3, <3>4 DEF StorageInv, ListedIsServable, Whole
      <3> QED
        BY <1>0, <3>2, <3>4, <3>5
    <2>4. CASE GenerateIndex
      <3>1. tmp' = Partition(Present) \/ UNCHANGED tmp
        BY <2>4 DEF GenerateIndex
      <3> QED
        BY <1>0, <2>1, <3>1, PresentIsStored, PartitionType
    <2> QED
      BY <2>1, <2>2, <2>3, <2>4, Writers
  <1>6. acked' \subseteq Stored'
    <2>1. ASSUME NEW u \in Uploads, FinishUpdate(u) PROVE acked' \subseteq Stored
      BY <2>1 DEF FinishUpdate, StorageInv, UploadSteps
    <2> QED
      BY <1>0, <2>1, Writers DEF StorageInv
  <1>7. \A f \in IndexFile : Whole(f)' => dest'[f] \subseteq Stored'
    <2>1. ASSUME NEW f \in IndexFile, NEW value,
                 dest' = [dest EXCEPT ![f] = value],
                 value \in {Missing, Truncated} \/ value \subseteq Stored
          PROVE  \A g \in IndexFile : Whole(g)' => dest'[g] \subseteq Stored'
      BY <1>0, <2>1 DEF TypeOK, StorageInv, ListedIsServable, Whole
    <2>2. CASE UNCHANGED dest
      BY <1>0, <2>2 DEF StorageInv, ListedIsServable, Whole
    <2>3. CASE RemoveOldIndex
      <3>1. MoveOrder[at] \in IndexFile
        BY <2>3, OrderTypes DEF RemoveOldIndex, TypeOK
      <3> QED
        BY <2>1, <2>3, <3>1 DEF RemoveOldIndex
    <2>4. CASE MoveNewIndex
      <3>1. MoveOrder[at] \in IndexFile /\ MoveOrder[at][1] \in Index
        BY <2>4, OrderTypes DEF MoveNewIndex, TypeOK
      <3> QED
        BY <2>1, <2>4, <3>1 DEF MoveNewIndex, StorageInv
    <2>5. ASSUME NEW y \in Yanks, TruncateIndex(y) \/ RewriteIndex(y)
          PROVE  \A f \in IndexFile : Whole(f)' => dest'[f] \subseteq Stored'
      <3>1. RewriteOrder[at] \in Index /\ <<RewriteOrder[at], "plain">> \in IndexFile
        BY <2>5, OrderTypes DEF TruncateIndex, RewriteIndex, TypeOK, IndexFile
      <3>2. Partition(listed[y])[RewriteOrder[at]] \subseteq Stored
        BY <3>1, PartitionType DEF StorageInv, Requests
      <3> QED
        BY <2>1, <2>5, <3>1, <3>2 DEF TruncateIndex, RewriteIndex
    <2> QED
      BY <2>2, <2>3, <2>4, <2>5, Writers
  <1> QED
    BY <1>0, <1>1, <1>2, <1>3, <1>4, <1>5, <1>6, <1>7
       DEF StorageInv, ListedIsServable

\* What clients are told to fetch is there, in every instance: the inductive
\* invariant also follows the gems through what handlers read and build.
THEOREM ListedServable == Spec => []ListedIsServable
  <1>1. Init => MutexInv /\ StorageInv
    BY RepositoryAssumption
       DEF Init, MutexInv, StorageInv, ListedIsServable, Critical, UploadSteps,
           YankSteps, Done, Path, NoTmp, Whole, Requests, Stored, StorePath
  <1>2. StorageInv => ListedIsServable
    BY DEF StorageInv
  <1>3. Spec => [](TypeOK /\ MutexInv /\ StorageInv)
    <2>1. Init => TypeOK
      BY InitType
    <2>2. TypeOK /\ MutexInv /\ StorageInv /\ [Next]_vars
            => (TypeOK /\ MutexInv /\ StorageInv)'
      BY TypeStep, MutexStep, StorageStep
    <2> QED
      BY <1>1, <2>1, <2>2, PTL DEF Spec
  <1> QED
    BY <1>2, <1>3, PTL

-----------------------------------------------------------------------------
(* What is acknowledged is published.                                      *)

\* The rows under another name than the one written stay.
LEMMA PutRowsElsewhere ==
    ASSUME NEW name, NEW S, PutRows(name, S), \A r \in S : r.gem.name = name
    PROVE  /\ \A n : n # name => RowsOf(n)' = RowsOf(n)
           /\ RowsOf(name)' = S
  BY DEF PutRows, RowsOf

\* What a step does to the rows of a name nobody yanks from: nothing, or it
\* adds the gem of the one upload that holds the mutex and has read them.
LEMMA UndisturbedRows ==
    ASSUME TypeOK, MutexInv, PublishInv, [Next]_vars,
           NEW n, ~Disturbed(n)
    PROVE  \/ RowsOf(n)' = RowsOf(n)
           \/ \E u \in Uploads :
                 /\ PutVersions(u) /\ gem[u].name = n
                 /\ RowsOf(n)' = RowsOf(n) \cup {[gem |-> gem[u], checksum |-> build[u]]}
  <1>1. CASE UNCHANGED rows
    BY <1>1 DEF RowsOf
  <1>2. ASSUME NEW u \in Uploads, PutVersions(u)
        PROVE  \/ RowsOf(n)' = RowsOf(n)
               \/ /\ gem[u].name = n
                  /\ RowsOf(n)' = RowsOf(n) \cup {[gem |-> gem[u], checksum |-> build[u]]}
    <2>0. u \in Requests /\ pc[u] = "read"
      BY <1>2 DEF PutVersions, Requests
    <2> DEFINE S == seen[u] \cup {[gem |-> gem[u], checksum |-> build[u]]}
    <2>1. \A r \in S : r.gem.name = gem[u].name
      BY <2>0 DEF PublishInv
    <2>2. UNCHANGED rows \/ PutRows(gem[u].name, S)
      BY <1>2 DEF PutVersions
    <2>3. CASE PutRows(gem[u].name, S) /\ gem[u].name = n
      <3>1. RowsOf(n)' = S
        BY <2>1, <2>3, PutRowsElsewhere
      <3>2. seen[u] = RowsOf(n)
        BY <2>0, <2>3 DEF PublishInv
      <3> QED
        BY <2>3, <3>1, <3>2
    <2>4. CASE PutRows(gem[u].name, S) /\ gem[u].name # n
      BY <2>1, <2>4, PutRowsElsewhere
    <2>5. CASE UNCHANGED rows
      BY <2>5 DEF RowsOf
    <2> QED
      BY <2>2, <2>3, <2>4, <2>5
  <1>3. ASSUME NEW y \in Yanks, PutRemaining(y) PROVE RowsOf(n)' = RowsOf(n)
    <2>0. y \in Requests /\ pc[y] = "deleting"
      BY <1>3 DEF PutRemaining, Requests
    <2>1. gem[y].name # n
      BY <2>0 DEF PublishInv, YankSteps, Disturbed
    <2>2. \A r \in seen[y] : r.gem.name = gem[y].name
      BY <2>0 DEF PublishInv
    <2>3. PutRows(gem[y].name, seen[y] \ {r \in seen[y] : r.gem = gem[y]})
      BY <1>3 DEF PutRemaining
    <2> QED
      BY <2>1, <2>2, <2>3, PutRowsElsewhere
  <1> QED
    BY <1>1, <1>2, <1>3, Writers

\* The rows an upload adds its gem to are those it read: the mutex keeps the
\* other uploads away, and a yank of the name is what the property excludes.
LEMMA PublishStep ==
    TypeOK /\ MutexInv /\ PublishInv /\ [Next]_vars => PublishInv'
  <1> SUFFICES ASSUME TypeOK, MutexInv, PublishInv, [Next]_vars PROVE PublishInv'
    OBVIOUS
  <1>0. withdrawn \subseteq withdrawn'
    BY Writers DEF ReceiveYank
  <1>1. \A n : ~Disturbed(n)' => ~Disturbed(n)
    BY <1>0 DEF Disturbed
  <1>2. ASSUME NEW n, ~Disturbed(n)' PROVE RowsOf(n) \subseteq RowsOf(n)'
    BY <1>1, <1>2, UndisturbedRows
  <1>3. ASSUME NEW q \in Requests, pc'[q] \in {"read", "deleting"}
        PROVE  \A r \in seen'[q] : r.gem.name = gem'[q].name
    <2>1. CASE pc'[q] = pc[q] /\ gem'[q] = gem[q] /\ seen'[q] = seen[q]
      BY <1>3, <2>1 DEF PublishInv
    <2>2. CASE gem' = gem /\ seen' = [seen EXCEPT ![q] = RowsOf(gem[q].name)]
      BY <2>2 DEF TypeOK, RowsOf
    <2>3. ASSUME q \in Uploads, Upload(q) PROVE ReadVersions(q)
      BY <1>3, <2>3, UploadCourse, DieHandlers DEF Done
    <2>4. ASSUME q \in Yanks, Yank(q) PROVE ReadForDelete(q)
      BY <1>3, <2>4, YankCourse DEF Done
    <2>5. ~Die
      BY <1>3, DieHandlers DEF Done
    <2> QED
      BY <2>1, <2>2, <2>3, <2>4, <2>5, OwnSteps DEF ReadVersions, ReadForDelete
  <1>4. ASSUME NEW y \in Yanks, pc'[y] \in YankSteps PROVE gem'[y] \in withdrawn'
    <2>0. y \in Requests /\ y \notin Uploads
      BY RepositoryAssumption DEF Requests
    <2>1. CASE pc'[y] = pc[y] /\ gem'[y] = gem[y]
      BY <1>0, <1>4, <2>1 DEF PublishInv
    <2>2. CASE ReceiveYank(y)
      BY <2>0, <2>2 DEF ReceiveYank, TypeOK
    <2>3. CASE gem' = gem /\ pc[y] \in YankSteps
      BY <1>0, <2>3 DEF PublishInv
    <2>4. CASE Yank(y)
      BY <1>4, <2>2, <2>3, <2>4, YankCourse DEF YankSteps, Done
    <2>5. ~Die
      BY <1>4, <2>0, DieHandlers DEF Done, YankSteps
    <2> QED
      BY <2>0, <2>1, <2>4, <2>5, OwnSteps
  <1>5. ASSUME NEW u \in Uploads, pc'[u] = "read", NEW n, n = gem'[u].name,
               ~Disturbed(n)'
        PROVE  seen'[u] = RowsOf(n)'
    <2>0. u \in Requests /\ u \notin Yanks
      BY RepositoryAssumption DEF Requests
    <2>1. CASE pc'[u] = pc[u] /\ gem'[u] = gem[u] /\ seen'[u] = seen[u]
      <3>1. lock = u
        BY <1>5, <2>0, <2>1 DEF MutexInv, Critical
      <3>2. ~ \E v \in Uploads : PutVersions(v)
        <4> SUFFICES ASSUME NEW v \in Uploads, PutVersions(v) PROVE FALSE
          OBVIOUS
        <4>1. v = u
          BY <3>1 DEF PutVersions, MutexInv, Critical, Requests
        <4>2. pc'[v] = "stored"
          BY DEF PutVersions, GoTo, TypeOK, Requests
        <4> QED
          BY <1>5, <4>1, <4>2
      <3>3. RowsOf(n)' = RowsOf(n)
        BY <1>1, <1>5, <3>2, UndisturbedRows
      <3>4. seen[u] = RowsOf(n)
        BY <1>1, <1>5, <2>1 DEF PublishInv
      <3> QED
        BY <2>1, <3>3, <3>4
    <2>2. CASE ReadVersions(u)
      <3>1. seen'[u] = RowsOf(gem[u].name) /\ gem'[u] = gem[u] /\ rows' = rows
        BY <2>0, <2>2 DEF ReadVersions, TypeOK
      <3> QED
        BY <1>5, <3>1 DEF RowsOf
    <2>3. CASE Upload(u)
      BY <1>5, <2>0, <2>2, <2>3, UploadCourse, DieHandlers DEF Done
    <2>4. ~Die
      BY <1>5, <2>0, DieHandlers DEF Done
    <2> QED
      BY <2>0, <2>1, <2>3, <2>4, OwnSteps
  <1>6. ASSUME NEW u \in Uploads, NEW n, n = gem'[u].name, ~Disturbed(n)',
               UnlikeVersion(gem'[u]), pc'[u] \in {"stored", "describing", "described", "moving"}
        PROVE  \E r \in rows' : r.gem = gem'[u]
    <2>0. u \in Requests /\ u \notin Yanks
      BY RepositoryAssumption DEF Requests
    <2>1. CASE /\ gem'[u] = gem[u]
               /\ pc[u] \in {"stored", "describing", "described", "moving"}
      <3>1. PICK r \in rows : r.gem = gem[u]
        BY <1>1, <1>6, <2>1 DEF PublishInv
      <3>2. r \in RowsOf(n)
        BY <1>6, <2>1, <3>1 DEF RowsOf
      <3>3. r \in RowsOf(n)'
        BY <1>2, <1>6, <3>2
      <3> QED
        BY <2>1, <3>1, <3>3 DEF RowsOf
    <2>2. CASE PutVersions(u)
      <3>1. gem' = gem /\ pc[u] = "read"
        BY <2>2 DEF PutVersions
      <3>2. seen[u] = RowsOf(n)
        BY <1>1, <1>6, <3>1 DEF PublishInv
      <3>3. CASE \E r \in seen[u] : SameId(gem[u], r.gem)
        <4>1. PICK r \in rows : SameId(gem[u], r.gem) /\ r.gem.name = gem[u].name
          BY <1>6, <3>1, <3>2, <3>3 DEF RowsOf
        <4>2. r.gem \in Gem
          BY <4>1 DEF TypeOK, Row
        <4>3. r.gem = gem[u]
          BY <1>6, <3>1, <4>1, <4>2 DEF UnlikeVersion
        <4> QED
          BY <2>2, <3>1, <3>3, <4>1, <4>3 DEF PutVersions
      <3>4. CASE ~ \E r \in seen[u] : SameId(gem[u], r.gem)
        <4>1. [gem |-> gem[u], checksum |-> build[u]] \in rows'
          BY <2>2, <3>4 DEF PutVersions, PutRows
        <4> QED
          BY <3>1, <4>1
      <3> QED
        BY <3>3, <3>4
    <2>3. CASE Upload(u)
      BY <1>6, <2>0, <2>1, <2>2, <2>3, UploadCourse, DieHandlers DEF Done
    <2>4. ~Die
      BY <1>6, <2>0, DieHandlers DEF Done
    <2> QED
      BY <1>6, <2>0, <2>1, <2>3, <2>4, OwnSteps
  <1>7. ASSUME NEW g \in acked', UnlikeVersion(g),
               \A w \in withdrawn' : w.name # g.name
        PROVE  \E r \in rows' : r.gem = g
    <2>0. ~Disturbed(g.name)' /\ ~Disturbed(g.name)
      BY <1>1, <1>7 DEF Disturbed
    <2>1. \E r \in rows : r.gem = g
      <3>1. CASE g \in acked
        BY <1>7, <2>0, <3>1 DEF PublishInv, AckedIsPublished, Disturbed
      <3>2. ASSUME NEW u \in Uploads, FinishUpdate(u), g \notin acked
            PROVE  \E r \in rows : r.gem = g
        BY <1>7, <2>0, <3>2 DEF FinishUpdate, PublishInv
      <3> QED
        BY <3>1, <3>2, Writers
    <2>2. PICK r \in rows : r.gem = g
      BY <2>1
    <2>3. r \in RowsOf(g.name)'
      BY <1>2, <2>0, <2>2 DEF RowsOf
    <2> QED
      BY <2>2, <2>3 DEF RowsOf
  <1>8. \A u \in Uploads : (pc[u] = "read" /\ ~Disturbed(gem[u].name))' =>
           seen'[u] = RowsOf(gem[u].name)'
    <2> SUFFICES ASSUME NEW u \in Uploads, pc'[u] = "read", NEW n,
                        n = gem'[u].name, ~Disturbed(n)'
                 PROVE  seen'[u] = RowsOf(n)'
      BY DEF Disturbed, RowsOf
    <2> QED
      BY <1>5
  <1>9. \A u \in Uploads :
           (/\ pc[u] \in {"stored", "describing", "described", "moving"}
            /\ ~Disturbed(gem[u].name) /\ UnlikeVersion(gem[u]))'
           => \E r \in rows' : r.gem = gem'[u]
    BY <1>6 DEF Disturbed, UnlikeVersion
  <1> QED
    BY <1>3, <1>4, <1>7, <1>8, <1>9 DEF PublishInv, AckedIsPublished

\* No upload that was answered is lost from the database by other uploads, by
\* yanks of other names or by crashes.
THEOREM AckedPublished == Spec => []AckedIsPublished
  <1>1. Init => MutexInv /\ PublishInv
    BY RepositoryAssumption
       DEF Init, MutexInv, PublishInv, AckedIsPublished, Critical, YankSteps,
           UploadSteps, Done, Requests
  <1>2. PublishInv => AckedIsPublished
    BY DEF PublishInv
  <1>3. Spec => [](TypeOK /\ MutexInv /\ PublishInv)
    <2>1. TypeOK /\ MutexInv /\ PublishInv /\ [Next]_vars
            => (TypeOK /\ MutexInv /\ PublishInv)'
      BY TypeStep, MutexStep, PublishStep
    <2> QED
      BY <1>1, <2>1, InitType, PTL DEF Spec
  <1> QED
    BY <1>2, <1>3, PTL

-----------------------------------------------------------------------------
(* Until somebody yanks, the database is a registry.                       *)

\* The content an upload publishes was delivered for its gem: it is read back
\* from the file, after the mutex is taken.
LEMMA RegistryInvStep ==
    TypeOK /\ MutexInv /\ RegistryInv /\ [Next]_vars => RegistryInv'
  <1> SUFFICES ASSUME TypeOK, MutexInv, RegistryInv, [Next]_vars
               PROVE  RegistryInv'
    OBVIOUS
  <1>1. delivered \subseteq delivered'
    BY Writers DEF SaveUpload
  <1>2. ASSUME NEW g \in Stored'
        PROVE  [gem |-> g, checksum |-> files'[StorePath(g)]] \in delivered'
    <2>1. CASE UNCHANGED files
      BY <1>1, <1>2, <2>1 DEF RegistryInv, Stored
    <2>2. ASSUME NEW u \in Uploads, SaveUpload(u)
          PROVE  [gem |-> g, checksum |-> files'[StorePath(g)]] \in delivered'
      <3>1. PICK h \in Gem, b \in Builds :
               /\ files' = [files EXCEPT ![StorePath(h)] = b]
               /\ delivered' = delivered \cup {[gem |-> h, checksum |-> b]}
        BY <2>2 DEF SaveUpload
      <3>2. StorePath(h) \in Path
        BY DEF StorePath, Path
      <3>3. CASE g = h
        BY <3>1, <3>2, <3>3 DEF TypeOK
      <3>4. CASE g # h
        <4>1. files'[StorePath(g)] = files[StorePath(g)]
          BY <3>1, <3>2, <3>4 DEF TypeOK, StorePath, Path, Stored
        <4>2. g \in Stored
          BY <1>2, <4>1 DEF Stored
        <4> QED
          BY <3>1, <4>1, <4>2 DEF RegistryInv
      <3> QED
        BY <3>3, <3>4
    <2>3. ASSUME NEW y \in Yanks, RemoveGemFile(y)
          PROVE  [gem |-> g, checksum |-> files'[StorePath(g)]] \in delivered'
      <3>1. files'[StorePath(g)] = files[StorePath(g)]
        BY <2>3 DEF RemoveGemFile, TypeOK, StorePath, YankPath, Path, Stored
      <3>2. g \in Stored
        BY <1>2, <3>1 DEF Stored
      <3> QED
        BY <1>1, <3>1, <3>2 DEF RegistryInv
    <2> QED
      BY <2>1, <2>2, <2>3, Writers
  <1>3. ASSUME NEW u \in Uploads, pc'[u] \in Critical
        PROVE  [gem |-> gem'[u], checksum |-> build'[u]] \in delivered'
    <2>0. u \in Requests /\ u \notin Yanks
      BY RepositoryAssumption DEF Requests
    <2>1. CASE pc'[u] = pc[u] /\ gem'[u] = gem[u] /\ build'[u] = build[u]
      BY <1>1, <1>3, <2>1 DEF RegistryInv
    <2>2. CASE BeginUpdate(u)
      <3>1. files[StorePath(gem[u])] # NoFile
        BY <1>3, <2>0, <2>2 DEF BeginUpdate, GoTo, TypeOK, Critical
      <3>2. gem[u] \in Stored
        BY <2>0, <3>1 DEF Stored, TypeOK
      <3>3. build'[u] = files[StorePath(gem[u])] /\ gem' = gem
        BY <2>0, <2>2, <3>1 DEF BeginUpdate, TypeOK
      <3> QED
        BY <1>1, <3>2, <3>3 DEF RegistryInv
    <2>3. CASE gem' = gem /\ build' = build /\ pc[u] \in Critical
      BY <1>1, <2>3 DEF RegistryInv
    <2>4. CASE Upload(u)
      BY <1>3, <2>0, <2>2, <2>3, <2>4, UploadCourse, DieHandlers
         DEF Critical, Done, ReadVersions, PutVersions, CreateGemspec,
             WriteGemspec, UpdateSpecsIndexes, FinishUpdate
    <2>5. ~Die
      BY <1>3, <2>0, DieHandlers DEF Critical, Done
    <2> QED
      BY <2>0, <2>1, <2>4, <2>5, OwnSteps
  <1> QED
    BY <1>2, <1>3 DEF RegistryInv

\* While nothing was withdrawn, a step delivers a gem, publishes a version, or
\* is invisible to clients.
LEMMA RegistryStep ==
    ASSUME TypeOK, MutexInv, PublishInv, RegistryInv, [Next]_vars,
           withdrawn = {}
    PROVE  [Registry!Next]_(Registry!registryVars)
  <1>1. CASE UNCHANGED <<delivered, rows>>
    BY <1>1 DEF Registry!registryVars
  <1>2. ASSUME NEW u \in Uploads, SaveUpload(u) PROVE Registry!Next
    <2>1. PICK g \in Gem, b \in Builds :
             delivered' = delivered \cup {[gem |-> g, checksum |-> b]}
      BY <1>2 DEF SaveUpload
    <2>2. Registry!Deliver([gem |-> g, checksum |-> b])
      BY <1>2, <2>1 DEF Registry!Deliver, SaveUpload
    <2>3. [gem |-> g, checksum |-> b] \in Registry!Row
      BY DEF Registry!Row
    <2> QED
      BY <2>2, <2>3 DEF Registry!Next
  <1>3. ASSUME NEW u \in Uploads, PutVersions(u)
        PROVE  Registry!Next \/ UNCHANGED <<delivered, rows>>
    <2>0. u \in Requests /\ pc[u] = "read" /\ delivered' = delivered
      BY <1>3 DEF PutVersions, Requests, history
    <2>1. seen[u] = RowsOf(gem[u].name)
      BY <2>0 DEF PublishInv, Disturbed
    <2> DEFINE row == [gem |-> gem[u], checksum |-> build[u]]
    <2>2. row \in delivered /\ row \in Registry!Row
      BY <2>0 DEF RegistryInv, Critical, TypeOK, Registry!Row
    <2>3. CASE \E r \in seen[u] : SameId(gem[u], r.gem)
      BY <1>3, <2>0, <2>3 DEF PutVersions
    <2>4. CASE ~ \E r \in seen[u] : SameId(gem[u], r.gem)
      <3>1. rows' = rows \cup {row}
        BY <1>3, <2>1, <2>4 DEF PutVersions, PutRows, RowsOf
      <3>2. \A r \in rows : r.gem # row.gem
        BY <2>1, <2>4 DEF RowsOf, SameId
      <3>3. Registry!Publish(row)
        BY <2>0, <2>2, <3>1, <3>2 DEF Registry!Publish
      <3> QED
        BY <2>2, <3>3 DEF Registry!Next
    <2> QED
      BY <2>3, <2>4
  <1>4. \A y \in Yanks : ~PutRemaining(y)
    BY DEF PutRemaining, PublishInv, YankSteps
  <1>5. UNCHANGED rows \/ UNCHANGED delivered
    BY Writers DEF PutVersions, PutRemaining, SaveUpload, history
  <1> QED
    BY <1>1, <1>2, <1>3, <1>4, <1>5, Writers

\* Until the first yank the repository implements the registry, for every number
\* of uploads, interleaving and crash.
THEOREM RepositoryIsRegistry == Spec => IsRegistry
  <1>1. Init => MutexInv /\ PublishInv /\ RegistryInv
    BY RepositoryAssumption
       DEF Init, MutexInv, PublishInv, AckedIsPublished, RegistryInv, Stored,
           StorePath, Path, Critical, YankSteps, UploadSteps, Done, Requests
  <1>2. Spec => [](TypeOK /\ MutexInv /\ PublishInv /\ RegistryInv)
    <2>1. TypeOK /\ MutexInv /\ PublishInv /\ RegistryInv /\ [Next]_vars
            => (TypeOK /\ MutexInv /\ PublishInv /\ RegistryInv)'
      BY TypeStep, MutexStep, PublishStep, RegistryInvStep
    <2> QED
      BY <1>1, <2>1, InitType, PTL DEF Spec
  <1>3. Init => Registry!Init
    BY DEF Init, Registry!Init
  <1>4. TypeOK /\ MutexInv /\ PublishInv /\ RegistryInv /\ [Next]_vars
          => [withdrawn # {} \/ Registry!Next]_(Registry!registryVars)
    BY RegistryStep
  <1> QED
    BY <1>2, <1>3, <1>4, PTL DEF Spec, IsRegistry

-----------------------------------------------------------------------------
(* What is acknowledged is in the indexes.                                 *)

\* MoveOrder lists every index file, once.
LEMMA MoveOrderLists ==
    /\ \A f \in IndexFile : \E j \in 1 .. 6 : MoveOrder[j] = f
    /\ \A i, j \in 1 .. 6 : i # j => MoveOrder[i] # MoveOrder[j]
  <1>1. /\ MoveOrder[1] = <<"specs", "plain">> /\ MoveOrder[2] = <<"specs", "gz">>
        /\ MoveOrder[3] = <<"latest", "plain">> /\ MoveOrder[4] = <<"latest", "gz">>
        /\ MoveOrder[5] = <<"prerelease", "plain">>
        /\ MoveOrder[6] = <<"prerelease", "gz">>
    BY DEF MoveOrder
  <1>2. \A i \in 1 .. 6 : i = 1 \/ i = 2 \/ i = 3 \/ i = 4 \/ i = 5 \/ i = 6
    OBVIOUS
  <1>3. \A f \in IndexFile : \E j \in 1 .. 6 : MoveOrder[j] = f
    <2> SUFFICES ASSUME NEW i \in Index, NEW c \in {"plain", "gz"}
                 PROVE  \E j \in 1 .. 6 : MoveOrder[j] = <<i, c>>
      BY DEF IndexFile
    <2> QED
      BY <1>1 DEF Index
  <1> QED
    BY <1>1, <1>2, <1>3

\* A spec is in the one of the three indexes that its version puts it in.
LEMMA PartitionHas ==
    ASSUME NEW S, NEW g \in S
    PROVE  g \in Partition(S)[IndexOf(g)] /\ IndexOf(g) \in {"specs", "prerelease"}
  BY DEF Partition, IndexOf, ReleasesOf, PrereleasesOf

\* Two handlers are never both between Lock and Unlock.
LEMMA MutualExclusion ==
    ASSUME MutexInv, NEW r \in Requests, NEW q \in Requests,
           pc[r] \in Critical, pc[q] \in Critical
    PROVE  r = q
  BY DEF MutexInv

\* Whose step it is when an index file is moved or rewritten.
LEMMA Kinds ==
    ASSUME MutexInv, NEW r \in Requests
    PROVE  /\ pc[r] = "moving" => r \in Uploads
           /\ pc[r] = "rewriting" => r \in Yanks
           /\ pc[r] \in Critical => server = "up"
  BY DEF MutexInv, Requests, UploadSteps, YankSteps, Done, Critical

\* A handler's step that touches no index file, before or after its work on
\* the index files, keeps them whole.
LEMMA WholeQuiet ==
    ASSUME TypeOK, MutexInv, WholeInv,
           UNCHANGED <<dest, tmp, at, place, server, acked>>,
           NEW r \in Requests, NEW label, GoTo(r, label),
           pc[r] \notin {"moving", "rewriting"},
           label \notin {"moving", "rewriting"}
    PROVE  WholeInv'
  <1>1. \A q \in Requests :
           (pc'[q] = "moving" <=> pc[q] = "moving")
           /\ (pc'[q] = "rewriting" <=> pc[q] = "rewriting")
    BY DEF GoTo, TypeOK
  <1>2. \A f : InHand(f)' <=> InHand(f)
    BY <1>1 DEF InHand, Requests
  <1> QED
    BY <1>1, <1>2 DEF WholeInv, Whole, Requests

\* While the mutex is held for anything but the index files, all are whole.
LEMMA WholeInside ==
    ASSUME MutexInv, WholeInv, NEW r \in Requests, pc[r] \in Critical,
           pc[r] \notin {"moving", "rewriting"}
    PROVE  /\ at = 1 /\ place = "filled" /\ server = "up"
           /\ \A f \in IndexFile : Whole(f)
  <1>1. server = "up"
    BY Kinds
  <1>2. ~ \E q \in Requests : pc[q] \in {"moving", "rewriting"}
    BY MutualExclusion DEF Critical
  <1>3. at = 1 /\ place = "filled"
    BY <1>1, <1>2 DEF WholeInv
  <1> QED
    BY <1>1, <1>3 DEF WholeInv, InHand

\* No upload panics on an index of no bytes.
LEMMA NoPanic ==
    ASSUME MutexInv, WholeInv, NEW u \in Uploads
    PROVE  ~PanicOnTruncated(u)
  <1> SUFFICES ASSUME pc[u] = "described"
               PROVE  ~LoadPanics(Partition({gem[u]}))
    BY DEF PanicOnTruncated
  <1>1. \A f \in IndexFile : Whole(f)
    BY WholeInside DEF Critical, Requests
  <1> QED
    BY <1>1 DEF LoadPanics, Whole, IndexFile

\* An upload's steps keep the indexes whole.
LEMMA WholeUpload ==
    ASSUME TypeOK, MutexInv, WholeInv, NEW u \in Uploads, Upload(u)
    PROVE  WholeInv'
  <1>0. u \in Requests
    BY DEF Requests
  <1>2. CASE SaveUpload(u)
    BY <1>0, <1>2, WholeQuiet DEF SaveUpload, work
  <1>3. CASE BeginUpdate(u)
    BY <1>0, <1>3, WholeQuiet DEF BeginUpdate, work, disk, history
  <1>4. CASE ReadVersions(u)
    BY <1>0, <1>4, WholeQuiet DEF ReadVersions, work, disk, history
  <1>5. CASE PutVersions(u)
    BY <1>0, <1>5, WholeQuiet DEF PutVersions, work, disk, history
  <1>6. CASE CreateGemspec(u)
    BY <1>0, <1>6, WholeQuiet DEF CreateGemspec, work, history
  <1>7. CASE WriteGemspec(u)
    BY <1>0, <1>7, WholeQuiet DEF WriteGemspec, work, history
  <1>8. CASE UpdateSpecsIndexes(u)
    <2>1. /\ at = 1 /\ place = "filled" /\ server = "up"
          /\ \A f \in IndexFile : Whole(f)
      BY <1>0, <1>8, WholeInside DEF UpdateSpecsIndexes, Critical
    <2>2. /\ at' = 1 /\ pc' = [pc EXCEPT ![u] = "moving"]
          /\ UNCHANGED <<dest, place, server>>
      BY <1>8 DEF UpdateSpecsIndexes, GoTo, disk
    <2>3. \A y \in Yanks : pc'[y] # "rewriting"
      <3>1. u \notin Yanks
        BY RepositoryAssumption
      <3>2. \A y \in Yanks : pc[y] # "rewriting"
        BY <1>0, <1>8, <3>1, MutualExclusion
           DEF UpdateSpecsIndexes, Critical, Requests
      <3> QED
        BY <2>2, <3>1, <3>2 DEF TypeOK, Requests
    <2> QED
      BY <2>1, <2>2, <2>3 DEF WholeInv, Whole, InHand
  <1>9. CASE FinishUpdate(u)
    <2>1. pc[u] = "moving" /\ at = 7 /\ server = "up"
      BY <1>0, <1>9, Kinds DEF FinishUpdate, Critical
    <2>2. place = "filled"
      BY <2>1 DEF WholeInv, TypeOK
    <2>3. \A f \in IndexFile : Whole(f)
      BY <2>1, <2>2 DEF WholeInv, InHand
    <2>4. /\ at' = 1 /\ UNCHANGED <<dest, place, server>>
          /\ pc' = [pc EXCEPT ![u] = "answered"]
      BY <1>9 DEF FinishUpdate, GoTo, disk
    <2>5. \A y \in Yanks : pc'[y] # "rewriting"
      BY <1>0, <2>1, <2>4, MutualExclusion DEF Critical, Requests, TypeOK
    <2> QED
      BY <2>1, <2>2, <2>3, <2>4, <2>5 DEF WholeInv, Whole, InHand
  <1> QED
    BY <1>2, <1>3, <1>4, <1>5, <1>6, <1>7, <1>8, <1>9, NoPanic DEF Upload

\* A yank's steps keep the indexes whole.
LEMMA WholeYank ==
    ASSUME TypeOK, MutexInv, WholeInv, NEW y \in Yanks, Yank(y)
    PROVE  WholeInv'
  <1>0. y \in Requests /\ y \notin Uploads
    BY RepositoryAssumption DEF Requests
  <1>1. CASE ReceiveYank(y)
    BY <1>0, <1>1, WholeQuiet DEF ReceiveYank, work, disk
  <1>2. CASE BeginRemove(y)
    BY <1>0, <1>2, WholeQuiet DEF BeginRemove, work, disk, history
  <1>3. CASE FindInIndex(y)
    <2>1. UNCHANGED <<dest, tmp, at, place, server, acked>> /\ pc[y] = "walking"
      BY <1>3 DEF FindInIndex, work, disk, history
    <2>2. GoTo(y, "failed") \/ GoTo(y, "rewriting")
      BY <1>3 DEF FindInIndex
    <2>3. CASE GoTo(y, "failed")
      BY <1>0, <2>1, <2>3, WholeQuiet
    <2>4. CASE GoTo(y, "rewriting")
      <3>1. /\ at = 1 /\ place = "filled" /\ server = "up"
            /\ \A f \in IndexFile : Whole(f)
        BY <1>0, <2>1, WholeInside DEF Critical
      <3>2. \A u \in Uploads : pc'[u] # "moving"
        BY <1>0, <2>1, <2>4, MutualExclusion DEF GoTo, TypeOK, Critical, Requests
      <3> QED
        BY <2>1, <3>1, <3>2 DEF WholeInv, Whole, InHand
    <2> QED
      BY <2>2, <2>3, <2>4
  <1>4. ASSUME pc[y] = "rewriting"
        PROVE  /\ server = "up"
               /\ \A u \in Uploads : pc[u] # "moving"
               /\ \A q \in Yanks : pc[q] = "rewriting" => q = y
               /\ at <= 4 /\ (place = "emptied" => at <= 3)
    <2>1. server = "up"
      BY <1>0, <1>4, Kinds DEF Critical
    <2>2. \A q \in Requests : pc[q] \in Critical => q = y
      BY <1>0, <1>4, MutualExclusion DEF Critical
    <2> QED
      BY <1>0, <1>4, <2>1, <2>2 DEF WholeInv, Critical, Requests
  <1>5. CASE TruncateIndex(y)
    <2>1. /\ pc[y] = "rewriting" /\ at <= 3 /\ place = "filled"
          /\ dest' = [dest EXCEPT ![<<RewriteOrder[at], "plain">>] = Truncated]
          /\ place' = "emptied" /\ UNCHANGED <<at, server, pc, acked, tmp>>
      BY <1>5 DEF TruncateIndex, handlers, history
    <2>2. \A f \in IndexFile : Whole(f)
      BY <1>4, <2>1 DEF WholeInv, InHand
    <2>3. \A f \in IndexFile : f # <<RewriteOrder[at], "plain">> => Whole(f)'
      BY <2>1, <2>2 DEF Whole, TypeOK
    <2>4. \A f : f = <<RewriteOrder[at], "plain">> => InHand(f)'
      BY <2>1 DEF InHand
    <2>5. \A f \in IndexFile : (Whole(f) \/ InHand(f))'
      BY <2>3, <2>4
    <2> QED
      BY <1>0, <1>4, <2>1, <2>5 DEF WholeInv
  <1>6. CASE RewriteIndex(y)
    <2>1. /\ pc[y] = "rewriting" /\ at <= 3 /\ place = "emptied"
          /\ dest' = [dest EXCEPT ![<<RewriteOrder[at], "plain">>] =
                         Partition(listed[y])[RewriteOrder[at]]]
          /\ place' = "filled" /\ at' = at + 1
          /\ UNCHANGED <<server, pc, acked, tmp>>
      BY <1>6 DEF RewriteIndex, handlers, history
    <2>2. \A f \in IndexFile : f # <<RewriteOrder[at], "plain">> => Whole(f)
      BY <1>4, <2>1 DEF WholeInv, InHand
    <2>3. Partition(listed[y])[RewriteOrder[at]] \in SUBSET Gem
      <3>1. RewriteOrder[at] \in Index
        BY <2>1, OrderTypes DEF TypeOK
      <3>2. listed[y] \subseteq Gem
        BY <1>0 DEF TypeOK
      <3> QED
        BY <3>1, <3>2, PartitionType
    <2>4. \A f \in IndexFile : Whole(f)'
      BY <2>1, <2>2, <2>3, RepositoryAssumption DEF Whole, TypeOK
    <2>5. at \in Nat /\ at' <= 4
      BY <2>1 DEF TypeOK
    <2> QED
      BY <1>0, <1>4, <2>1, <2>4, <2>5 DEF WholeInv
  <1>7. CASE FinishRemove(y)
    <2>1. /\ pc[y] = "rewriting" /\ at = 4 /\ at' = 1
          /\ pc' = [pc EXCEPT ![y] = "unindexed"]
          /\ UNCHANGED <<dest, place, server, acked, tmp>>
      BY <1>7 DEF FinishRemove, GoTo, disk, history
    <2>2. place = "filled"
      BY <1>4, <2>1 DEF TypeOK
    <2>3. \A f \in IndexFile : Whole(f)
      BY <1>4, <2>1, <2>2 DEF WholeInv, InHand
    <2>4. \A u \in Uploads : pc'[u] # "moving"
      BY <1>0, <1>4, <2>1 DEF TypeOK, Requests
    <2>5. \A q \in Yanks : pc'[q] # "rewriting"
      BY <1>0, <1>4, <2>1 DEF TypeOK, Requests
    <2> QED
      BY <1>4, <2>1, <2>2, <2>3, <2>4, <2>5 DEF WholeInv, Whole
  <1>8. CASE RemoveGemFile(y)
    BY <1>0, <1>8, WholeQuiet DEF RemoveGemFile, work, history
  <1>9. CASE RemoveGemspec(y)
    BY <1>0, <1>9, WholeQuiet DEF RemoveGemspec, work, history
  <1>10. CASE ReadForDelete(y)
    BY <1>0, <1>10, WholeQuiet DEF ReadForDelete, work, disk, history
  <1>11. CASE PutRemaining(y)
    <2>1. GoTo(y, "notFound") \/ GoTo(y, "answered")
      BY <1>11 DEF PutRemaining
    <2> QED
      BY <1>0, <1>11, <2>1, WholeQuiet DEF PutRemaining, work, disk
  <1> QED
    BY <1>1, <1>2, <1>3, <1>5, <1>6, <1>7, <1>8, <1>9, <1>10, <1>11 DEF Yank

\* Moving the files into place, for an upload or at the start, keeps them whole.
LEMMA WholeMove ==
    ASSUME TypeOK, MutexInv, WholeInv, MoveIndexes
    PROVE  WholeInv'
  <1>1. UNCHANGED <<tmp, server, pc, acked>> /\ at \in 1 .. 6
    BY DEF MoveIndexes, RemoveOldIndex, MoveNewIndex, SkipIndex, handlers,
           history, TypeOK
  <1>2. MoveOrder[at] \in IndexFile /\ MoveOrder[at][1] \in Index
    BY <1>1, OrderTypes
  <1>3. \/ server = "installing" /\ \A r \in Requests : pc[r] \notin Critical
        \/ /\ server = "up"
           /\ \E u \in Uploads : pc[u] = "moving"
           /\ \A y \in Yanks : pc[y] # "rewriting"
    <2>1. CASE server = "installing"
      BY <2>1 DEF MutexInv, Done, Critical
    <2>2. ASSUME NEW r \in Requests, pc[r] = "moving"
          PROVE  /\ server = "up" /\ r \in Uploads
                 /\ \A y \in Yanks : pc[y] # "rewriting"
      BY <2>2, Kinds, MutualExclusion DEF Critical, Requests
    <2> QED
      BY <2>1, <2>2 DEF MoveIndexes, RemoveOldIndex, MoveNewIndex, SkipIndex,
                        Moving
  <1>4. CASE RemoveOldIndex
    <2>1. /\ place = "filled" /\ place' = "emptied" /\ at' = at
          /\ tmp[MoveOrder[at][1]] # Missing
          /\ dest' = [dest EXCEPT ![MoveOrder[at]] = Missing]
      BY <1>4 DEF RemoveOldIndex
    <2>2. \A f \in IndexFile : f # MoveOrder[at] => (Whole(f)' <=> Whole(f))
      BY <2>1 DEF Whole, TypeOK
    <2>3. CASE server = "installing"
      BY <1>1, <1>3, <2>1, <2>2, <2>3, MoveOrderLists, OrderTypes
         DEF WholeInv, Critical, Requests
    <2>4. CASE /\ server = "up"
               /\ \E u \in Uploads : pc[u] = "moving"
               /\ \A y \in Yanks : pc[y] # "rewriting"
      <3>1. InHand(MoveOrder[at])'
        BY <1>1, <2>1, <2>4 DEF InHand
      <3>2. \A f \in IndexFile : Whole(f)
        BY <2>1, <2>4 DEF WholeInv, InHand
      <3>3. \A f \in IndexFile : (Whole(f) \/ InHand(f))'
        BY <2>1, <2>2, <3>1, <3>2
      <3> QED
        BY <1>1, <2>1, <2>4, <3>3 DEF WholeInv, Requests
    <2> QED
      BY <1>3, <2>3, <2>4
  <1>5. CASE MoveNewIndex
    <2>1. /\ place = "emptied" /\ place' = "filled" /\ at' = at + 1
          /\ dest' = [dest EXCEPT ![MoveOrder[at]] = tmp[MoveOrder[at][1]]]
      BY <1>5 DEF MoveNewIndex
    <2>2. tmp[MoveOrder[at][1]] # Missing
      BY <1>2, <1>3, <2>1 DEF WholeInv
    <2>3. \A f \in IndexFile : f = MoveOrder[at] => Whole(f)'
      <3>1. tmp[MoveOrder[at][1]] \in SUBSET Gem
        BY <1>2, <2>2 DEF TypeOK
      <3>2. tmp[MoveOrder[at][1]] \notin {Missing, Truncated}
        BY <3>1, RepositoryAssumption
      <3>3. dest'[MoveOrder[at]] = tmp[MoveOrder[at][1]]
        BY <1>2, <2>1 DEF TypeOK
      <3> QED
        BY <3>2, <3>3 DEF Whole
    <2>4. \A f \in IndexFile : Whole(f) => Whole(f)'
      BY <2>1, <2>3 DEF Whole, TypeOK
    <2>5. CASE server = "installing"
      <3>1. \A j \in 1 .. 6 : j < at' => Whole(MoveOrder[j])'
        <4>1. \A j \in 1 .. 6 : j < at + 1 => j < at \/ j = at
          BY <1>1
        <4> QED
          BY <2>1, <2>3, <2>4, <2>5, <4>1, OrderTypes DEF WholeInv
      <3> QED
        BY <1>1, <1>3, <2>1, <2>5, <3>1 DEF WholeInv, Critical, Requests
    <2>6. CASE /\ server = "up"
               /\ \E u \in Uploads : pc[u] = "moving"
               /\ \A y \in Yanks : pc[y] # "rewriting"
      <3>1. \A f \in IndexFile : f # MoveOrder[at] => Whole(f)
        BY <2>6 DEF WholeInv, InHand
      <3>2. \A f \in IndexFile : Whole(f)'
        BY <2>3, <2>4, <3>1
      <3> QED
        BY <1>1, <2>1, <2>6, <3>2 DEF WholeInv, Requests
    <2> QED
      BY <1>3, <2>5, <2>6
  <1>6. CASE SkipIndex
    <2>1. /\ place = "filled" /\ place' = place /\ at' = at + 1 /\ dest' = dest
          /\ tmp[MoveOrder[at][1]] = Missing
      BY <1>6 DEF SkipIndex, disk
    <2>2. server # "installing"
      BY <1>2, <2>1 DEF WholeInv
    <2>3. \A f \in IndexFile : Whole(f)'
      BY <1>3, <2>1, <2>2 DEF WholeInv, Whole, InHand
    <2> QED
      BY <1>1, <1>3, <2>1, <2>2, <2>3 DEF WholeInv, Requests
  <1> QED
    BY <1>4, <1>5, <1>6 DEF MoveIndexes

\* The first start makes all the indexes.
LEMMA WholeStart ==
    ASSUME TypeOK, MutexInv, WholeInv, Start
    PROVE  WholeInv'
  <1>0. UNCHANGED <<pc, acked>> /\ server # "up"
    BY DEF Start, GenerateIndex, ClearGemspecs, InstallGemspecs, FinishInstall,
           handlers, history
  <1>1. \A r \in Requests : pc[r] \notin {"moving", "rewriting"}
    BY <1>0 DEF MutexInv, Done
  <1>2. CASE GenerateIndex
    <2>1. \A f \in IndexFile : dest[f] = Missing
      BY <1>2 DEF GenerateIndex, WholeInv
    <2>2. <<"specs", "plain">> \in IndexFile /\ <<"specs", "gz">> \in IndexFile
          /\ "specs" \in Index
      BY DEF IndexFile, Index
    <2>3. tmp' = Partition(Present) /\ server' = "clearing"
      BY <1>2, <2>1, <2>2 DEF GenerateIndex
    <2>4. \A i \in Index : tmp'[i] \in SUBSET Gem
      BY <2>3, PartitionType DEF Present
    <2>5. \A i \in Index : tmp'[i] # Missing
      BY <2>4, RepositoryAssumption
    <2> QED
      BY <1>0, <1>1, <1>2, <2>3, <2>5 DEF WholeInv, GenerateIndex, disk, Requests
  <1>3. CASE ClearGemspecs
    BY <1>0, <1>1, <1>3 DEF WholeInv, ClearGemspecs, work, Requests
  <1>4. CASE InstallGemspecs
    BY <1>0, <1>1, <1>4 DEF WholeInv, InstallGemspecs, work, Requests
  <1>5. CASE FinishInstall
    <2>1. /\ server = "installing" /\ at = 7 /\ at' = 1 /\ server' = "up"
          /\ UNCHANGED <<dest, place>>
      BY <1>5 DEF FinishInstall, disk
    <2>2. place = "filled"
      BY <2>1 DEF WholeInv, TypeOK
    <2>3. \A j \in 1 .. 6 : Whole(MoveOrder[j])
      BY <2>1 DEF WholeInv
    <2>4. \A f \in IndexFile : Whole(f)
      BY <2>3, MoveOrderLists
    <2> QED
      BY <1>0, <1>1, <2>1, <2>2, <2>4 DEF WholeInv, Whole, Requests
  <1> QED
    BY <1>2, <1>3, <1>4, <1>5 DEF Start

\* Every step keeps the indexes whole as long as the process is not killed.
LEMMA WholeStep ==
    ASSUME TypeOK, MutexInv, WholeInv, crashes' = 0, crashes = 0, [Next]_vars
    PROVE  WholeInv'
  <1>1. CASE UNCHANGED vars
    <2>1. UNCHANGED <<dest, tmp, at, place, server, acked, pc>>
      BY <1>1 DEF vars, disk, work, handlers, history
    <2> QED
      BY <2>1 DEF WholeInv, Whole, InHand
  <1>2. ~Crash
    BY DEF Crash
  <1> QED
    BY <1>1, <1>2, WholeUpload, WholeYank, WholeMove, WholeStart DEF Next

\* A handler's step that neither touches an index nor lists gems, and ends
\* where it works on none, keeps what is in the indexes.
LEMMA KeptQuiet ==
    ASSUME TypeOK, KeptInv, UNCHANGED <<dest, tmp, at, listed, acked>>,
           withdrawn \subseteq withdrawn',
           NEW r \in Requests, NEW label, GoTo(r, label),
           label \notin {"moving", "walking", "rewriting"},
           \A q \in Requests : q # r => gem'[q] = gem[q]
    PROVE  KeptInv'
  <1>1. \A q \in Requests : pc'[q] \in {"moving", "walking", "rewriting"} =>
           pc'[q] = pc[q] /\ q # r
    BY DEF GoTo, TypeOK
  <1>2. Kept' \subseteq Kept /\ Lasting' \subseteq Lasting
    BY DEF Kept, Lasting, Unlike
  <1>3. \A f : Whole(f)' <=> Whole(f)
    BY DEF Whole
  <1>4. ASSUME NEW u \in Uploads, pc'[u] = "moving"
        PROVE  pc[u] = "moving" /\ gem'[u] = gem[u]
    BY <1>1, <1>4 DEF Requests
  <1>5. ASSUME NEW y \in Yanks, pc'[y] \in {"walking", "rewriting"}
        PROVE  Kept' \subseteq listed'[y]
    BY <1>1, <1>2, <1>5 DEF KeptInv, ListedInv, Requests
  <1>6. \A g \in Lasting', c \in {"plain", "gz"} :
           Whole(<<IndexOf(g), c>>)' => g \in dest'[<<IndexOf(g), c>>]
    BY <1>2, <1>3 DEF KeptInv
  <1> QED
    BY <1>2, <1>4, <1>5, <1>6 DEF KeptInv, ListedInv, Unlike

\* Before anything is acknowledged there is nothing to keep.
LEMMA KeptIdle ==
    ASSUME acked' = {},
           \A r \in Requests : pc'[r] \notin {"moving", "walking", "rewriting"}
    PROVE  KeptInv'
  <1>1. Kept' = {}
    BY DEF Kept
  <1> QED
    BY <1>1 DEF KeptInv, ListedInv, Lasting, Requests

\* The indexes an upload builds have what the old ones had and its own gem,
\* unless it is taken for another.
LEMMA UpdatedIndexKeeps ==
    ASSUME NEW g \in Gem, NEW old, old \subseteq Gem,
           dest[<<IndexOf(g), "plain">>] = old, NEW new, new \subseteq Gem, new # {}
    PROVE  /\ UpdatedIndex(IndexOf(g), new) # Missing
           /\ Unlike(g) /\ g \in old \cup new => g \in UpdatedIndex(IndexOf(g), new)
  <1>1. old \notin {Missing, Truncated}
    BY RepositoryAssumption
  <1>2. IndexOf(g) # "latest"
    BY DEF IndexOf
  <1>3. UpdatedIndex(IndexOf(g), new) = MergeSpecs(old, new)
    BY <1>1, <1>2 DEF UpdatedIndex
  <1>4. MergeSpecs(old, new) # Missing
    <2>1. MergeSpecs(old, new) \subseteq Gem
      BY DEF MergeSpecs
    <2> QED
      BY <2>1, RepositoryAssumption
  <1>5. ~Before(g, g)
    <2>1. g.name \in Nat /\ g.number \in Nat /\ g.platform \in Nat
      BY SpecListAssumption DEF Gem
    <2> QED
      BY <2>1 DEF Before
  <1>6. ASSUME Unlike(g), g \in old \cup new PROVE g \in MergeSpecs(old, new)
    <2>1. \A h \in old : SameId(g, h) => h = g
      BY <1>6 DEF Unlike
    <2>2. CASE g \in old
      BY <1>5, <2>1, <2>2 DEF MergeSpecs
    <2>3. CASE g \notin old
      <3>1. g \in new /\ \A h \in old : ~SameId(g, h)
        BY <1>6, <2>1, <2>3
      <3> QED
        BY <3>1 DEF MergeSpecs
    <2> QED
      BY <2>2, <2>3
  <1> QED
    BY <1>3, <1>4, <1>6

\* An upload's steps keep what is acknowledged in the indexes.
LEMMA KeptUpload ==
    ASSUME TypeOK, MutexInv, WholeInv, KeptInv,
           NEW u \in Uploads, Upload(u)
    PROVE  KeptInv'
  <1>0. u \in Requests
    BY DEF Requests
  <1>1. CASE SaveUpload(u)
    <2>1. /\ UNCHANGED <<dest, tmp, at, listed, acked, withdrawn>>
          /\ GoTo(u, "saved")
      BY <1>1 DEF SaveUpload, work
    <2>2. \A q \in Requests : q # u => gem'[q] = gem[q]
      BY <1>1 DEF SaveUpload, TypeOK
    <2> QED
      BY <1>0, <2>1, <2>2, KeptQuiet
  <1>2. CASE BeginUpdate(u)
    BY <1>0, <1>2, KeptQuiet DEF BeginUpdate, work, disk, history
  <1>3. CASE ReadVersions(u)
    BY <1>0, <1>3, KeptQuiet DEF ReadVersions, work, disk, history
  <1>4. CASE PutVersions(u)
    BY <1>0, <1>4, KeptQuiet DEF PutVersions, work, disk, history
  <1>5. CASE CreateGemspec(u)
    BY <1>0, <1>5, KeptQuiet DEF CreateGemspec, work, history
  <1>6. CASE WriteGemspec(u)
    BY <1>0, <1>6, KeptQuiet DEF WriteGemspec, work, history
  <1>7. CASE UpdateSpecsIndexes(u)
    <2> DEFINE new == Partition({gem[u]})
    <2>1. /\ tmp' = [i \in Index |-> UpdatedIndex(i, new[i])] /\ at' = 1
          /\ pc' = [pc EXCEPT ![u] = "moving"] /\ pc[u] = "described"
          /\ UNCHANGED <<dest, listed, gem, acked, withdrawn>>
      BY <1>7 DEF UpdateSpecsIndexes, GoTo, disk, history
    <2>2. Kept' = Kept /\ (\A f : Whole(f)' <=> Whole(f))
      BY <2>1 DEF Kept, Whole
    <2>3. \A y \in Yanks : pc'[y] \notin {"walking", "rewriting"}
      <3>1. u \notin Yanks
        BY RepositoryAssumption
      <3>2. \A y \in Yanks : pc[y] \notin {"walking", "rewriting"}
        BY <1>0, <2>1, <3>1, MutualExclusion DEF Critical, Requests
      <3> QED
        BY <2>1, <3>1, <3>2 DEF TypeOK, Requests
    <2>4. \A q \in Uploads : pc'[q] = "moving" => q = u
      <3>1. \A q \in Uploads : pc[q] # "moving"
        BY <1>0, <2>1, MutualExclusion DEF Critical, Requests
      <3> QED
        BY <2>1, <3>1 DEF TypeOK, Requests
    <2>5. ASSUME NEW g \in Gem
          PROVE  /\ IndexOf(g) \in Index
                 /\ dest[<<IndexOf(g), "plain">>] \in SUBSET Gem
                 /\ Whole(<<IndexOf(g), "plain">>)
      <3>1. IndexOf(g) \in Index /\ <<IndexOf(g), "plain">> \in IndexFile
        BY DEF IndexOf, Index, IndexFile
      <3>2. Whole(<<IndexOf(g), "plain">>)
        BY <1>0, <2>1, <3>1, WholeInside DEF Critical
      <3> QED
        BY <3>1, <3>2 DEF Whole, TypeOK
    <2>6. ASSUME NEW g \in Gem, new[IndexOf(g)] # {}
          PROVE  /\ tmp'[IndexOf(g)] # Missing
                 /\ Unlike(g)
                    /\ g \in dest[<<IndexOf(g), "plain">>] \cup new[IndexOf(g)]
                    => g \in tmp'[IndexOf(g)]
      <3>1. new[IndexOf(g)] \subseteq Gem
        <4>1. gem[u] \in Gem /\ IndexOf(g) \in Index
          BY <1>0, <2>5 DEF TypeOK
        <4>2. new[IndexOf(g)] \subseteq {gem[u]}
          BY <4>1, PartitionType
        <4> QED
          BY <4>1, <4>2
      <3> QED
        BY <2>1, <2>5, <2>6, <3>1, UpdatedIndexKeeps
    <2>7. ASSUME NEW g \in Lasting, tmp'[IndexOf(g)] # Missing
          PROVE  g \in tmp'[IndexOf(g)]
      <3>1. g \in Gem /\ Unlike(g)
        BY DEF Lasting, Kept, TypeOK
      <3>2. new[IndexOf(g)] # {}
        BY <2>1, <2>5, <2>7, <3>1 DEF UpdatedIndex
      <3> QED
        BY <2>5, <2>6, <3>1, <3>2 DEF KeptInv
    <2>8. /\ tmp'[IndexOf(gem[u])] # Missing
          /\ Unlike(gem[u]) => gem[u] \in tmp'[IndexOf(gem[u])]
      <3>1. gem[u] \in Gem
        BY <1>0 DEF TypeOK
      <3>2. gem[u] \in new[IndexOf(gem[u])]
        BY PartitionHas
      <3> HIDE DEF new
      <3> QED
        BY <2>6, <3>1, <3>2
    <2>9. \A g \in Lasting', c \in {"plain", "gz"} :
             Whole(<<IndexOf(g), c>>)' => g \in dest'[<<IndexOf(g), c>>]
      BY <2>1, <2>2 DEF KeptInv, Lasting, Unlike
    <2>10. \A j \in 1 .. 6 : ~(j < at')
      BY <2>1
    <2> HIDE DEF new
    <2>11. gem'[u] = gem[u]
      BY <2>1
    <2> QED
      BY <2>2, <2>3, <2>4, <2>7, <2>8, <2>9, <2>10, <2>11
         DEF KeptInv, ListedInv, Lasting, Unlike
  <1>8. CASE FinishUpdate(u)
    <2>1. /\ pc[u] = "moving" /\ at = 7 /\ pc' = [pc EXCEPT ![u] = "answered"]
          /\ acked' = acked \cup {gem[u]}
          /\ UNCHANGED <<dest, listed, gem, withdrawn>>
      BY <1>8 DEF FinishUpdate, GoTo, disk
    <2>2. \A q \in Requests : pc'[q] \notin {"moving", "walking", "rewriting"}
      <3>1. \A q \in Requests : pc[q] \in Critical => q = u
        BY <1>0, <2>1, MutualExclusion DEF Critical
      <3> QED
        BY <1>0, <2>1, <3>1 DEF TypeOK, Critical
    <2>3. ASSUME NEW c \in {"plain", "gz"}, Unlike(gem[u])
          PROVE  gem[u] \in dest[<<IndexOf(gem[u]), c>>]
      <3>1. <<IndexOf(gem[u]), c>> \in IndexFile
        BY DEF IndexOf, Index, IndexFile
      <3>2. PICK j \in 1 .. 6 : MoveOrder[j] = <<IndexOf(gem[u]), c>>
        BY <3>1, MoveOrderLists
      <3>3. j < at /\ MoveOrder[j][1] = IndexOf(gem[u])
        BY <2>1, <3>2
      <3> QED
        BY <2>1, <2>3, <3>2, <3>3 DEF KeptInv
    <2>4. /\ Lasting' \subseteq Lasting \cup {gem[u]}
          /\ \A g \in Lasting' : Unlike(g)
      BY <2>1 DEF Lasting, Kept
    <2>5. \A f : Whole(f)' <=> Whole(f)
      BY <2>1 DEF Whole
    <2>6. \A g \in Lasting', c \in {"plain", "gz"} :
             Whole(<<IndexOf(g), c>>)' => g \in dest'[<<IndexOf(g), c>>]
      BY <2>1, <2>3, <2>4, <2>5 DEF KeptInv
    <2> QED
      BY <2>2, <2>6 DEF KeptInv, ListedInv, Requests
  <1> QED
    BY <1>1, <1>2, <1>3, <1>4, <1>5, <1>6, <1>7, <1>8, NoPanic DEF Upload

\* A step that changes one index file, and neither the temporary ones nor who
\* works on them, keeps what is in the others.
LEMMA KeptElsewhere ==
    ASSUME KeptInv, Kept' = Kept, NEW f, \A h : h # f => dest'[h] = dest[h],
           \A g \in Lasting, c \in {"plain", "gz"} :
              f = <<IndexOf(g), c>> /\ dest'[f] \notin {Missing, Truncated} => g \in dest'[f]
    PROVE  \A g \in Lasting', c \in {"plain", "gz"} :
              Whole(<<IndexOf(g), c>>)' => g \in dest'[<<IndexOf(g), c>>]
  <1> SUFFICES ASSUME NEW g \in Lasting, NEW c \in {"plain", "gz"},
                      dest'[<<IndexOf(g), c>>] \notin {Missing, Truncated}
               PROVE  g \in dest'[<<IndexOf(g), c>>]
    BY DEF Whole, Lasting
  <1>1. CASE f = <<IndexOf(g), c>>
    BY <1>1
  <1>2. CASE f # <<IndexOf(g), c>>
    BY <1>2 DEF KeptInv, Whole
  <1> QED
    BY <1>1, <1>2

\* A yank's steps keep what is acknowledged in the indexes.
LEMMA KeptYank ==
    ASSUME TypeOK, MutexInv, StorageInv, PublishInv, WholeInv, KeptInv,
           NEW y \in Yanks, Yank(y)
    PROVE  KeptInv'
  <1>0. y \in Requests /\ y \notin Uploads
    BY RepositoryAssumption DEF Requests
  <1>1. CASE ReceiveYank(y)
    <2>1. /\ UNCHANGED <<dest, tmp, at, listed, acked>>
          /\ withdrawn \subseteq withdrawn' /\ GoTo(y, "received")
      BY <1>1 DEF ReceiveYank, work, disk
    <2>2. \A q \in Requests : q # y => gem'[q] = gem[q]
      BY <1>1 DEF ReceiveYank, TypeOK
    <2> QED
      BY <1>0, <2>1, <2>2, KeptQuiet
  <1>2. ASSUME pc[y] \in Critical \/ lock = Free
        PROVE  \A q \in Requests : q # y => pc[q] \notin Critical
    BY <1>0, <1>2, RepositoryAssumption DEF MutexInv
  <1>3. CASE BeginRemove(y)
    <2>1. /\ listed' = [listed EXCEPT ![y] = Present] /\ lock = Free
          /\ pc' = [pc EXCEPT ![y] = "walking"]
          /\ UNCHANGED <<dest, tmp, at, gem, acked, withdrawn>>
      BY <1>3 DEF BeginRemove, GoTo, work, disk, history
    <2>2. Kept' = Kept /\ (\A f : Whole(f)' <=> Whole(f))
      BY <2>1 DEF Kept, Whole
    <2>3. Kept \subseteq Present
      BY PresentIsStored DEF StorageInv, Kept
    <2>4. \A u \in Uploads : pc'[u] # "moving"
      BY <1>0, <1>2, <2>1 DEF Critical, TypeOK, Requests
    <2>5. \A q \in Yanks : pc'[q] \in {"walking", "rewriting"} => q = y
      BY <1>0, <1>2, <2>1 DEF Critical, TypeOK, Requests
    <2>6. Kept' \subseteq listed'[y]
      BY <1>0, <2>1, <2>2, <2>3 DEF TypeOK
    <2> QED
      BY <2>1, <2>2, <2>4, <2>5, <2>6
         DEF KeptInv, ListedInv, Lasting, Unlike
  <1>4. CASE FindInIndex(y)
    <2>1. PICK late \in SUBSET (Present \ listed[y]) :
             LET found == listed[y] \cup late
                 specs == WalkOrder(found)
                 i == FindIndexOf(specs, gem[y])
             IN  IF i = -1
                 THEN /\ lock' = Free
                      /\ GoTo(y, "failed")
                      /\ UNCHANGED listed
                 ELSE /\ listed' = [listed EXCEPT ![y] = found \ {specs[i + 1]}]
                      /\ GoTo(y, "rewriting")
                      /\ UNCHANGED lock
      BY <1>4 DEF FindInIndex
    <2>2. pc[y] = "walking" /\ UNCHANGED <<dest, tmp, at, gem, acked, withdrawn>>
      BY <1>4 DEF FindInIndex, work, disk, history
    <2> DEFINE found == listed[y] \cup late
               i == FindIndexOf(WalkOrder(found), gem[y])
    <2>3. CASE i = -1
      BY <1>0, <2>1, <2>2, <2>3, KeptQuiet
    <2>4. CASE i # -1
      <3>1. WalkOrder(found)[i + 1] = gem[y]
        BY <2>4, FindIndexOfFinds
      <3>2. listed' = [listed EXCEPT ![y] = found \ {gem[y]}] /\ GoTo(y, "rewriting")
        BY <2>1, <2>4, <3>1
      <3>3. gem[y] \in withdrawn
        BY <2>2 DEF PublishInv, YankSteps
      <3>4. Kept \subseteq found \ {gem[y]}
        BY <2>2, <3>3 DEF KeptInv, ListedInv, Kept
      <3>5. Kept' = Kept /\ (\A f : Whole(f)' <=> Whole(f))
        BY <2>2 DEF Kept, Whole
      <3>6. Kept' \subseteq listed'[y]
        BY <1>0, <3>2, <3>4, <3>5 DEF TypeOK
      <3>7. \A q \in Requests : q # y => pc'[q] \notin {"moving", "walking", "rewriting"}
        BY <1>0, <1>2, <2>2, <3>2 DEF GoTo, TypeOK, Critical
      <3> QED
        BY <1>0, <2>2, <3>5, <3>6, <3>7
           DEF KeptInv, ListedInv, Lasting, Unlike, Requests
    <2> QED
      BY <2>3, <2>4
  <1>5. CASE TruncateIndex(y)
    <2> DEFINE f == <<RewriteOrder[at], "plain">>
    <2>1. /\ pc[y] = "rewriting" /\ dest' = [dest EXCEPT ![f] = Truncated]
          /\ f \in IndexFile
          /\ UNCHANGED <<at, pc, gem, listed, acked, withdrawn, tmp>>
      BY <1>5, OrderTypes DEF TruncateIndex, handlers, history, TypeOK, IndexFile
    <2>2. \A u \in Uploads : pc[u] # "moving"
      BY <1>0, <1>2, <2>1 DEF Critical, Requests
    <2>3. Kept' = Kept
      BY <2>1 DEF Kept
    <2>4. dest'[f] = Truncated /\ (\A h : h # f => dest'[h] = dest[h])
      BY <2>1 DEF TypeOK
    <2>5. \A g \in Lasting', c \in {"plain", "gz"} :
             Whole(<<IndexOf(g), c>>)' => g \in dest'[<<IndexOf(g), c>>]
      BY <2>3, <2>4, KeptElsewhere
    <2> QED
      BY <2>1, <2>2, <2>3, <2>5 DEF KeptInv, ListedInv
  <1>6. CASE RewriteIndex(y)
    <2> DEFINE f == <<RewriteOrder[at], "plain">>
               new == Partition(listed[y])[RewriteOrder[at]]
    <2>1. /\ pc[y] = "rewriting" /\ dest' = [dest EXCEPT ![f] = new]
          /\ f \in IndexFile
          /\ UNCHANGED <<pc, gem, listed, acked, withdrawn, tmp>>
      BY <1>6, OrderTypes DEF RewriteIndex, handlers, history, TypeOK, IndexFile
    <2>2. \A u \in Uploads : pc[u] # "moving"
      BY <1>0, <1>2, <2>1 DEF Critical, Requests
    <2>3. Kept' = Kept
      BY <2>1 DEF Kept
    <2>4. dest'[f] = new /\ (\A h : h # f => dest'[h] = dest[h])
      BY <2>1 DEF TypeOK
    <2>5. ASSUME NEW g \in Lasting, NEW c \in {"plain", "gz"}, f = <<IndexOf(g), c>>
          PROVE  g \in dest'[f]
      <3>1. g \in listed[y]
        BY <2>1 DEF KeptInv, ListedInv, Lasting
      <3>2. g \in Partition(listed[y])[IndexOf(g)]
        BY <3>1, PartitionHas
      <3>3. RewriteOrder[at] = IndexOf(g)
        BY <2>5
      <3> QED
        BY <2>4, <3>2, <3>3
    <2>6. \A g \in Lasting', c \in {"plain", "gz"} :
             Whole(<<IndexOf(g), c>>)' => g \in dest'[<<IndexOf(g), c>>]
      BY <2>3, <2>4, <2>5, KeptElsewhere
    <2> QED
      BY <2>1, <2>2, <2>3, <2>6 DEF KeptInv, ListedInv
  <1>7. CASE FinishRemove(y)
    <2>1. /\ pc[y] = "rewriting" /\ pc' = [pc EXCEPT ![y] = "unindexed"]
          /\ UNCHANGED <<dest, acked, withdrawn>>
      BY <1>7 DEF FinishRemove, GoTo, disk, history
    <2>2. \A q \in Requests : pc'[q] \notin {"moving", "walking", "rewriting"}
      BY <1>0, <1>2, <2>1 DEF TypeOK, Critical
    <2>3. Kept' = Kept /\ (\A f : Whole(f)' <=> Whole(f))
      BY <2>1 DEF Kept, Whole
    <2> QED
      BY <2>1, <2>2, <2>3 DEF KeptInv, ListedInv, Lasting, Unlike, Requests
  <1>8. CASE RemoveGemFile(y)
    BY <1>0, <1>8, KeptQuiet DEF RemoveGemFile, work, history
  <1>9. CASE RemoveGemspec(y)
    BY <1>0, <1>9, KeptQuiet DEF RemoveGemspec, work, history
  <1>10. CASE ReadForDelete(y)
    BY <1>0, <1>10, KeptQuiet DEF ReadForDelete, work, disk, history
  <1>11. CASE PutRemaining(y)
    <2>1. GoTo(y, "notFound") \/ GoTo(y, "answered")
      BY <1>11 DEF PutRemaining
    <2> QED
      BY <1>0, <1>11, <2>1, KeptQuiet DEF PutRemaining, work, disk
  <1> QED
    BY <1>1, <1>3, <1>4, <1>5, <1>6, <1>7, <1>8, <1>9, <1>10, <1>11 DEF Yank

\* Moving the files into place keeps what is acknowledged in the indexes, and
\* brings in the gem of the upload that moves them.
LEMMA KeptMove ==
    ASSUME TypeOK, MutexInv, WholeInv, KeptInv, MoveIndexes
    PROVE  KeptInv'
  <1>1. UNCHANGED <<tmp, server, pc, gem, listed, acked, withdrawn>> /\ at \in 1 .. 6
    BY DEF MoveIndexes, RemoveOldIndex, MoveNewIndex, SkipIndex, handlers,
           history, TypeOK
  <1>2. MoveOrder[at] \in IndexFile /\ MoveOrder[at][1] \in Index
    BY <1>1, OrderTypes
  <1>3. Kept' = Kept
    BY <1>1 DEF Kept
  <1>4. CASE server = "installing"
    <2>1. acked' = {}
      BY <1>1, <1>4 DEF WholeInv
    <2>2. \A r \in Requests : pc'[r] \notin {"moving", "walking", "rewriting"}
      BY <1>1, <1>4 DEF MutexInv, Done
    <2> QED
      BY <2>1, <2>2, KeptIdle
  <1>5. CASE \E r \in Requests : pc[r] = "moving"
    <2>1. PICK u \in Uploads : pc[u] = "moving"
      BY <1>5, Kinds
    <2>2. \A q \in Requests : pc'[q] \in {"moving", "walking", "rewriting"} => q = u
      BY <1>1, <2>1, MutualExclusion DEF Critical, Requests
    <2>3. u \in Requests /\ u \notin Yanks
      BY RepositoryAssumption DEF Requests
    <2> DEFINE idx == IndexOf(gem[u])
    <2>4. /\ \A g \in Lasting : tmp[IndexOf(g)] # Missing => g \in tmp[IndexOf(g)]
          /\ tmp[idx] # Missing
          /\ Unlike(gem[u]) =>
                /\ gem[u] \in tmp[idx]
                /\ \A j \in 1 .. 6 : j < at /\ MoveOrder[j][1] = idx =>
                      gem[u] \in dest[MoveOrder[j]]
      BY <2>1 DEF KeptInv
    <2>5. SUFFICES
            /\ \A g \in Lasting', c \in {"plain", "gz"} :
                  Whole(<<IndexOf(g), c>>)' => g \in dest'[<<IndexOf(g), c>>]
            /\ Unlike(gem[u]) =>
                  \A j \in 1 .. 6 : j < at' /\ MoveOrder[j][1] = idx =>
                     gem[u] \in dest'[MoveOrder[j]]
      <3>1. gem'[u] = gem[u] /\ tmp' = tmp
        BY <1>1
      <3> HIDE DEF idx
      <3>2. idx = IndexOf(gem[u])
        BY DEF idx
      <3> QED
        BY <1>3, <2>2, <2>3, <2>4, <3>1, <3>2
           DEF KeptInv, ListedInv, Lasting, Unlike, Requests
    <2>6. CASE RemoveOldIndex
      <3>1. dest' = [dest EXCEPT ![MoveOrder[at]] = Missing] /\ at' = at
        BY <2>6 DEF RemoveOldIndex
      <3>2. /\ dest'[MoveOrder[at]] = Missing
            /\ \A h : h # MoveOrder[at] => dest'[h] = dest[h]
        BY <1>2, <3>1 DEF TypeOK
      <3>3. \A g \in Lasting', c \in {"plain", "gz"} :
               Whole(<<IndexOf(g), c>>)' => g \in dest'[<<IndexOf(g), c>>]
        BY <1>3, <3>2, KeptElsewhere
      <3>4. ASSUME Unlike(gem[u]), NEW j \in 1 .. 6, j < at', MoveOrder[j][1] = idx
            PROVE  gem[u] \in dest'[MoveOrder[j]]
        <4>1. MoveOrder[j] # MoveOrder[at]
          BY <1>1, <3>1, <3>4, MoveOrderLists
        <4> QED
          BY <2>4, <3>1, <3>2, <3>4, <4>1
      <3> QED
        BY <3>3, <3>4
    <2>7. CASE MoveNewIndex
      <3>1. /\ dest' = [dest EXCEPT ![MoveOrder[at]] = tmp[MoveOrder[at][1]]]
            /\ at' = at + 1 /\ place = "emptied"
        BY <2>7 DEF MoveNewIndex
      <3>2. /\ dest'[MoveOrder[at]] = tmp[MoveOrder[at][1]]
            /\ \A h : h # MoveOrder[at] => dest'[h] = dest[h]
        BY <1>2, <3>1 DEF TypeOK
      <3>3. tmp[MoveOrder[at][1]] # Missing
        BY <2>1, <3>1 DEF WholeInv
      <3>4. ASSUME NEW g \in Lasting, NEW c \in {"plain", "gz"},
                   MoveOrder[at] = <<IndexOf(g), c>>
            PROVE  g \in dest'[MoveOrder[at]]
        <4>1. MoveOrder[at][1] = IndexOf(g)
          BY <3>4
        <4> QED
          BY <2>4, <3>2, <3>3, <4>1
      <3>5. \A g \in Lasting', c \in {"plain", "gz"} :
               Whole(<<IndexOf(g), c>>)' => g \in dest'[<<IndexOf(g), c>>]
        BY <1>3, <3>2, <3>4, KeptElsewhere
      <3>6. ASSUME Unlike(gem[u]), NEW j \in 1 .. 6, j < at', MoveOrder[j][1] = idx
            PROVE  gem[u] \in dest'[MoveOrder[j]]
        <4>1. CASE j = at
          BY <2>4, <3>2, <3>6, <4>1
        <4>2. CASE j # at
          <5>1. MoveOrder[j] # MoveOrder[at] /\ j < at
            BY <1>1, <3>1, <3>6, <4>2, MoveOrderLists
          <5> QED
            BY <2>4, <3>2, <3>6, <5>1
        <4> QED
          BY <4>1, <4>2
      <3> QED
        BY <3>5, <3>6
    <2>8. CASE SkipIndex
      <3>1. tmp[MoveOrder[at][1]] = Missing /\ at' = at + 1 /\ dest' = dest
        BY <2>8 DEF SkipIndex, disk
      <3>2. ASSUME Unlike(gem[u]), NEW j \in 1 .. 6, j < at', MoveOrder[j][1] = idx
            PROVE  gem[u] \in dest'[MoveOrder[j]]
        <4>1. j # at
          BY <2>4, <3>1, <3>2
        <4>2. j < at
          BY <1>1, <3>1, <3>2, <4>1
        <4> QED
          BY <2>4, <3>1, <3>2, <4>2
      <3>3. \A g \in Lasting', c \in {"plain", "gz"} :
               Whole(<<IndexOf(g), c>>)' => g \in dest'[<<IndexOf(g), c>>]
        BY <1>3, <3>1 DEF KeptInv, Lasting, Whole
      <3> QED
        BY <3>2, <3>3
    <2> QED
      BY <2>6, <2>7, <2>8 DEF MoveIndexes
  <1> QED
    BY <1>4, <1>5 DEF MoveIndexes, RemoveOldIndex, MoveNewIndex, SkipIndex, Moving

\* Nothing is acknowledged before the first start has ended.
LEMMA KeptStart ==
    ASSUME MutexInv, WholeInv, Start
    PROVE  KeptInv'
  <1>1. UNCHANGED <<pc, acked>> /\ server # "up"
    BY DEF Start, GenerateIndex, ClearGemspecs, InstallGemspecs, FinishInstall,
           handlers, history
  <1> QED
    BY <1>1, KeptIdle DEF MutexInv, WholeInv, Done

\* A process that was not killed after a step was not before, and the step was
\* no kill.
LEMMA NotKilled ==
    ASSUME TypeOK, [Next]_vars, crashes' = 0
    PROVE  crashes = 0 /\ ~Crash
  <1>1. ~Crash => crashes' = crashes
    <2>1. ASSUME NEW u \in Uploads, Upload(u) PROVE crashes' = crashes
      BY <2>1 DEF Upload, history, SaveUpload, BeginUpdate, ReadVersions,
              PutVersions, CreateGemspec, WriteGemspec, UpdateSpecsIndexes,
              PanicOnTruncated, FinishUpdate
    <2>2. ASSUME NEW y \in Yanks, Yank(y) PROVE crashes' = crashes
      BY <2>2 DEF Yank, history, ReceiveYank, BeginRemove, FindInIndex,
              TruncateIndex, RewriteIndex, FinishRemove, RemoveGemFile,
              RemoveGemspec, ReadForDelete, PutRemaining
    <2>3. ASSUME MoveIndexes \/ Start PROVE crashes' = crashes
      BY <2>3 DEF MoveIndexes, Start, history, RemoveOldIndex, MoveNewIndex,
              SkipIndex, GenerateIndex, ClearGemspecs, InstallGemspecs,
              FinishInstall
    <2>4. UNCHANGED vars => crashes' = crashes
      BY DEF vars, history
    <2> QED
      BY <2>1, <2>2, <2>3, <2>4, Zenon DEF Next
  <1>2. ~Crash
    <2>1. crashes \in Nat /\ crashes + 1 # 0
      BY DEF TypeOK
    <2> QED
      BY <2>1 DEF Crash
  <1> QED
    BY <1>1, <1>2

\* Every step keeps IndexInv, whether the process is killed or not.
LEMMA IndexStep ==
    ASSUME TypeOK, MutexInv, StorageInv, PublishInv, IndexInv, [Next]_vars
    PROVE  IndexInv'
  <1> SUFFICES ASSUME crashes' = 0 PROVE WholeInv' /\ KeptInv'
    BY DEF IndexInv
  <1>1. crashes = 0 /\ ~Crash
    BY NotKilled
  <1>2. WholeInv /\ KeptInv
    BY <1>1 DEF IndexInv
  <1>3. WholeInv'
    BY <1>1, <1>2, WholeStep
  <1>4. KeptInv'
    <2>1. CASE UNCHANGED vars
      <3>1. UNCHANGED <<dest, tmp, at, listed, acked, withdrawn, gem, pc>>
        BY <2>1 DEF vars, disk, work, handlers, history
      <3> QED
        BY <1>2, <3>1 DEF KeptInv, ListedInv, Lasting, Kept, Unlike, Whole
    <2> QED
      BY <1>1, <1>2, <2>1, KeptUpload, KeptYank, KeptMove, KeptStart DEF Next
  <1> QED
    BY <1>3, <1>4

\* An acknowledged upload that nobody yanked is in its index, plain and
\* compressed, for any number of uploads and yanks, unless the process is killed
\* or another gem runs together with it to one id.
THEOREM AckedIndexed == Spec => []AckedIsIndexed
  <1> DEFINE Inv == TypeOK /\ MutexInv /\ StorageInv /\ PublishInv /\ IndexInv
  <1>1. Init => Inv
    <2>1. Init => MutexInv /\ PublishInv
      BY RepositoryAssumption
         DEF Init, MutexInv, PublishInv, AckedIsPublished, Critical, YankSteps,
             UploadSteps, Done, Requests
    <2>2. Init => StorageInv
      BY RepositoryAssumption
         DEF Init, StorageInv, ListedIsServable, Whole, NoTmp, UploadSteps, Path,
             IndexFile, Requests, Stored, StorePath
    <2>3. Init => WholeInv /\ KeptInv
      BY DEF Init, WholeInv, KeptInv, ListedInv, Lasting, Kept, Requests
    <2> QED
      BY <2>1, <2>2, <2>3, InitType DEF IndexInv
  <1>2. Inv /\ [Next]_vars => Inv'
    BY TypeStep, MutexStep, StorageStep, PublishStep, IndexStep
  <1>3. Inv => AckedIsIndexed
    <2> SUFFICES ASSUME Inv, crashes = 0, NEW g \in acked \ withdrawn,
                        NEW c \in {"plain", "gz"}
                 PROVE  LET f == <<IndexOf(g), c>> IN
                        /\ lock = Free => Whole(f)
                        /\ Whole(f) /\ Unlike(g) => g \in dest[f]
      BY DEF AckedIsIndexed
    <2>1. <<IndexOf(g), c>> \in IndexFile
      BY DEF IndexOf, Index, IndexFile
    <2>2. server = "up"
      BY DEF IndexInv, WholeInv
    <2>3. lock = Free => \A r \in Requests : pc[r] \notin Critical
      BY RepositoryAssumption DEF MutexInv
    <2>4. lock = Free => ~InHand(<<IndexOf(g), c>>)
      BY <2>3 DEF InHand, Critical, Requests
    <2> QED
      BY <2>1, <2>2, <2>4 DEF IndexInv, WholeInv, KeptInv, Lasting, Kept
  <1> QED
    BY <1>1, <1>2, <1>3, PTL DEF Spec

=============================================================================

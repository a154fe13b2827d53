-------------------------- MODULE MirrorCacheProofs -------------------------
(***************************************************************************)
(* Theorems about MirrorCache: for any number of requests, parts, refusals *)
(* broken connections and kills.                                           *)
(***************************************************************************)
EXTENDS MirrorCache, TLAPS

(* Who writes to an inode by its own offset. *)
Writing(w, i) == pc[w] = "copying" /\ fd[w] = i

(* A handler past its download, which will add what is at the gem's path to *)
(* the database or remove it.                                               *)
Adding(w, i) ==
    \/ pc[w] \in {"copied", "listed", "unindexed"}
    \/ pc[w] = "hashed" /\ fd[w] = i

(* What is written to the gem's file always has somebody to finish it.      *)
GemInv ==
    LET i == inode["gem"]
        d == data["gem"][i]
    IN
    i # None =>
      /\ 1 \in d =>
           \/ d = Whole
           \/ \E w \in GemRequests : Writing(w, i) /\ 1 .. pos[w] \subseteq d
      /\ d # {} /\ 1 \notin d =>
           \E w \in GemRequests : Writing(w, i) \/ Adding(w, i)
      /\ d # {} /\ row = None =>
           \E w \in GemRequests :
              Writing(w, i) \/ Adding(w, i) \/ pc[w] = "parsed"

(* An empty gemspec has somebody who is about to write its first part. *)
SpecInv ==
    LET i == inode["spec"] IN
    i # None /\ data["spec"][i] = {} =>
       \/ \E s \in SpecRequests :
             pc[s] \in {"asking", "copying"} /\ fd[s] = i /\ pos[s] = 0
       \/ \E q \in GemRequests : pc[q] = "described" /\ fd[q] = i

(* Descriptors are open while they are written or read through. *)
OpenInv ==
    /\ \A r \in Requests :
          /\ pc[r] \in {"asking", "copying", "hashed", "described"} =>
                fd[r] \in Requests
          /\ pc[r] \in {"new", "absent", "asking"} => pos[r] = 0
    /\ \A s \in SpecRequests :
          pc[s] \in Done \cup {"new", "present", "absent", "asking", "copying"}

WarmInv ==
    /\ \A r \in warm : pc[r] \in {"present", "answered", "failed", "lost"}
    /\ warm # {} => /\ inode["gem"] # None
                    /\ File("gem") = Whole
                    /\ \A q \in GemRequests : pc[q] \notin Fetching
    /\ WarmIsServedWhole
-----------------------------------------------------------------------------
(* Types and descriptors.                                                  *)

LEMMA TypeInit == Init => TypeOK /\ OpenInv
  BY MirrorAssumption
     DEF Init, TypeOK, OpenInv, Kind, Content, Done, Fetching, Requests

LEMMA TypeFetch ==
    ASSUME NEW r \in Requests, TypeOK, OpenInv, Fetch(r)
    PROVE  TypeOK' /\ OpenInv'
  <1> USE MirrorAssumption DEF TypeOK, OpenInv, Kind, KindOf, Done, Fetching
  <1>1. CASE Stat(r)
    <2>1. /\ UNCHANGED <<inode, data, row, lock, fd, sum, pos, sent, bounds>>
          /\ pc' \in {[pc EXCEPT ![r] = "present"], [pc EXCEPT ![r] = "absent"]}
          /\ warm' \in {warm, warm \cup {r}}
          /\ warm' # warm => KindOf(r) = "gem"
          /\ pc[r] = "new"
      BY <1>1 DEF Stat, GoTo, files
    <2>2. warm' \subseteq GemRequests
      BY <2>1
    <2> QED
      BY <2>1, <2>2 DEF bounds, Content, Requests
  <1>2. CASE CreateFile(r)
    BY <1>2 DEF CreateFile, GoTo, Create, history, bounds, Content, Requests
  <1>3. CASE UpstreamAnswers(r)
    BY <1>3 DEF UpstreamAnswers, GoTo, files, history, bounds, Content, Requests
  <1>4. CASE UpstreamRefuses(r)
    BY <1>4 DEF UpstreamRefuses, GoTo, Unlink, Content, Requests
  <1>5. CASE ConnectionBreaks(r)
    BY <1>5 DEF ConnectionBreaks, GoTo, files, Content, Requests
  <1>6. CASE CopyPart(r)
    BY <1>6 DEF CopyPart, history, bounds, Content, Requests
  <1>7. CASE EndCopy(r)
    BY <1>7 DEF EndCopy, GoTo, files, history, bounds, Content, Requests
  <1>8. CASE Serve(r)
    BY <1>8 DEF Serve, GoTo, files, bounds, File, Content, Content, Requests
  <1> QED
    BY <1>1, <1>2, <1>3, <1>4, <1>5, <1>6, <1>7, <1>8 DEF Fetch

LEMMA TypeAddGem ==
    ASSUME NEW q \in GemRequests, TypeOK, OpenInv, AddGem(q)
    PROVE  TypeOK' /\ OpenInv'
  <1> USE MirrorAssumption DEF TypeOK, OpenInv, Kind, Done, Fetching
  <1>1. CASE BeginIndex(q)
    BY <1>1 DEF BeginIndex, GoTo, files, history, bounds, Content, Requests
  <1>2. CASE HashGem(q)
    BY <1>2 DEF HashGem, GoTo, files, history, bounds, File, Content, Requests
  <1>3. CASE ParseGem(q)
    BY <1>3 DEF ParseGem, GoTo, files, history, bounds, Content, Requests
  <1>4. CASE SaveRow(q)
    BY <1>4 DEF SaveRow, GoTo, files, history, bounds, Content, Requests
  <1>5. CASE CreateSpec(q)
    BY <1>5 DEF CreateSpec, GoTo, Create, history, bounds, Content, Requests
  <1>6. CASE WriteSpec(q)
    BY <1>6 DEF WriteSpec, GoTo, history, bounds, Content, Requests
  <1>7. CASE EndIndex(q)
    BY <1>7 DEF EndIndex, GoTo, files, history, bounds, Content, Requests
  <1>8. CASE RemoveGem(q)
    BY <1>8 DEF RemoveGem, GoTo, Unlink, history, bounds, Content, Requests
  <1> QED
    BY <1>1, <1>2, <1>3, <1>4, <1>5, <1>6, <1>7, <1>8 DEF AddGem

LEMMA TypeStep == TypeOK /\ OpenInv /\ [Next]_vars => TypeOK' /\ OpenInv'
  <1> SUFFICES ASSUME TypeOK, OpenInv, [Next]_vars PROVE TypeOK' /\ OpenInv'
    OBVIOUS
  <1>1. CASE Kill
    BY <1>1, MirrorAssumption
       DEF Kill, Running, files, TypeOK, OpenInv, Kind, Content, Done, Fetching,
           Requests
  <1>2. CASE UNCHANGED vars
    BY <1>2 DEF vars, files, handlers, history, bounds, TypeOK, OpenInv
  <1> QED
    BY <1>1, <1>2, TypeFetch, TypeAddGem DEF Next

(* No request leads the mirror into a state outside its types: above all, a *)
(* handler only writes and reads through a descriptor that it has opened.   *)
THEOREM MirrorTypeCorrect == Spec => []TypeOK
  <1>1. Init => TypeOK /\ OpenInv
    BY TypeInit
  <1>2. TypeOK /\ OpenInv /\ [Next]_vars => TypeOK' /\ OpenInv'
    BY TypeStep
  <1> QED
    BY <1>1, <1>2, PTL DEF Spec

-----------------------------------------------------------------------------
(* The warm cache.                                                         *)

(* A step that neither touches the gem's file nor moves a request for it,  *)
(* except to end it with the process.                                      *)
LEMMA WarmElsewhere ==
    ASSUME TypeOK, WarmInv,
           warm' = warm, sent' = sent,
           warm # {} => /\ inode'["gem"] = inode["gem"]
                        /\ data'["gem"] = data["gem"]
                        /\ \A q \in GemRequests : pc'[q] \in {pc[q], "lost"}
    PROVE  WarmInv'
  <1>1. CASE warm = {}
    BY <1>1 DEF WarmInv, WarmIsServedWhole
  <1>2. CASE warm # {}
    BY <1>2 DEF WarmInv, WarmIsServedWhole, File, TypeOK, Fetching
  <1> QED
    BY <1>1, <1>2

LEMMA WarmStep ==
    ASSUME TypeOK, OpenInv, WarmInv, [Next]_vars
    PROVE  WarmInv'
  <1> USE MirrorAssumption
  <1>1. ASSUME NEW r \in Requests, Stat(r) PROVE WarmInv'
    <2>1. /\ UNCHANGED <<inode, data, sent>>
          /\ pc[r] = "new"
          /\ pc' = [pc EXCEPT ![r] =
                      IF Fetched(KindOf(r)) THEN "present" ELSE "absent"]
      BY <1>1 DEF Stat, GoTo, files
    <2>2. r \notin warm
      BY <2>1 DEF WarmInv
    <2>3. warm' # {} => /\ inode["gem"] # None
                        /\ File("gem") = Whole
                        /\ \A q \in GemRequests : pc[q] \notin Fetching
      BY <1>1 DEF Stat, WarmInv, File, Whole
    <2>4. warm' # {} /\ r \in GemRequests => Fetched(KindOf(r))
      BY <2>3 DEF Fetched, KindOf, Whole
    <2>5. r \in warm' => r \in GemRequests
      BY <1>1, <2>2 DEF Stat, KindOf
    <2>6. warm' \subseteq warm \cup {r}
      BY <1>1 DEF Stat
    <2>7. \A x \in warm' : pc'[x] \in {"present", "answered", "failed", "lost"}
                           /\ pc'[x] # "notFound"
                           /\ (pc'[x] = "answered" => sent'[x] = Whole)
      BY <2>1, <2>2, <2>4, <2>5, <2>6 DEF WarmInv, WarmIsServedWhole, TypeOK, Requests
    <2>8. warm' # {} => \A q \in GemRequests : pc'[q] \notin Fetching
      BY <2>1, <2>3, <2>4 DEF TypeOK, Requests, Fetching
    <2> QED
      BY <2>1, <2>3, <2>7, <2>8 DEF WarmInv, WarmIsServedWhole, File
  <1>2. ASSUME NEW r \in Requests, CreateFile(r) PROVE WarmInv'
    <2>1. warm' = warm /\ sent' = sent
      BY <1>2 DEF CreateFile, history
    <2>2. warm # {} => KindOf(r) = "spec"
      BY <1>2 DEF CreateFile, KindOf, WarmInv, Fetching
    <2>3. /\ KindOf(r) = "spec" => inode'["gem"] = inode["gem"]
          /\ KindOf(r) = "spec" => data'["gem"] = data["gem"]
          /\ \A x \in Requests : x # r => pc'[x] = pc[x]
      BY <1>2 DEF CreateFile, GoTo, Create, TypeOK, OpenInv, Kind
    <2> QED
      BY <2>1, <2>2, <2>3, WarmElsewhere DEF KindOf, Requests
  <1>3. ASSUME NEW r \in Requests, UpstreamAnswers(r) PROVE WarmInv'
    <2>1. warm' = warm /\ sent' = sent
      BY <1>3 DEF UpstreamAnswers, history
    <2>2. warm # {} => KindOf(r) = "spec"
      BY <1>3 DEF UpstreamAnswers, KindOf, WarmInv, Fetching
    <2>3. /\ KindOf(r) = "spec" => inode'["gem"] = inode["gem"]
          /\ KindOf(r) = "spec" => data'["gem"] = data["gem"]
          /\ \A x \in Requests : x # r => pc'[x] = pc[x]
      BY <1>3 DEF UpstreamAnswers, GoTo, files, TypeOK, OpenInv, Kind
    <2> QED
      BY <2>1, <2>2, <2>3, WarmElsewhere DEF KindOf, Requests
  <1>4. ASSUME NEW r \in Requests, UpstreamRefuses(r) PROVE WarmInv'
    <2>1. warm' = warm /\ sent' = sent
      BY <1>4 DEF UpstreamRefuses, history
    <2>2. warm # {} => KindOf(r) = "spec"
      BY <1>4 DEF UpstreamRefuses, KindOf, WarmInv, Fetching
    <2>3. /\ KindOf(r) = "spec" => inode'["gem"] = inode["gem"]
          /\ KindOf(r) = "spec" => data'["gem"] = data["gem"]
          /\ \A x \in Requests : x # r => pc'[x] = pc[x]
      BY <1>4 DEF UpstreamRefuses, GoTo, Unlink, TypeOK, OpenInv, Kind
    <2> QED
      BY <2>1, <2>2, <2>3, WarmElsewhere DEF KindOf, Requests
  <1>5. ASSUME NEW r \in Requests, ConnectionBreaks(r) PROVE WarmInv'
    <2>1. warm' = warm /\ sent' = sent
      BY <1>5 DEF ConnectionBreaks, history
    <2>2. warm # {} => KindOf(r) = "spec"
      BY <1>5 DEF ConnectionBreaks, KindOf, WarmInv, Fetching
    <2>3. /\ KindOf(r) = "spec" => inode'["gem"] = inode["gem"]
          /\ KindOf(r) = "spec" => data'["gem"] = data["gem"]
          /\ \A x \in Requests : x # r => pc'[x] = pc[x]
      BY <1>5 DEF ConnectionBreaks, GoTo, files, TypeOK, OpenInv, Kind
    <2> QED
      BY <2>1, <2>2, <2>3, WarmElsewhere DEF KindOf, Requests
  <1>6. ASSUME NEW r \in Requests, CopyPart(r) PROVE WarmInv'
    <2>1. /\ UNCHANGED <<warm, sent, pc, inode>>
          /\ pc[r] = "copying"
      BY <1>6 DEF CopyPart, history
    <2>2. warm # {} => KindOf(r) = "spec"
      BY <2>1 DEF KindOf, WarmInv, Fetching
    <2>3. KindOf(r) = "spec" => data'["gem"] = data["gem"]
      BY <1>6 DEF CopyPart, TypeOK, Kind
    <2> QED
      BY <2>1, <2>2, <2>3, WarmElsewhere
  <1>7. ASSUME NEW r \in Requests, EndCopy(r) PROVE WarmInv'
    <2>1. warm' = warm /\ sent' = sent
      BY <1>7 DEF EndCopy, history
    <2>2. warm # {} => KindOf(r) = "spec"
      BY <1>7 DEF EndCopy, KindOf, WarmInv, Fetching
    <2>3. /\ KindOf(r) = "spec" => inode'["gem"] = inode["gem"]
          /\ KindOf(r) = "spec" => data'["gem"] = data["gem"]
          /\ \A x \in Requests : x # r => pc'[x] = pc[x]
      BY <1>7 DEF EndCopy, GoTo, files, TypeOK, OpenInv, Kind
    <2> QED
      BY <2>1, <2>2, <2>3, WarmElsewhere DEF KindOf, Requests
  <1>8. ASSUME NEW r \in Requests, Serve(r) PROVE WarmInv'
    <2>1. /\ UNCHANGED <<inode, data, warm>>
          /\ pc[r] = "present"
          /\ \/ inode[KindOf(r)] = None /\ UNCHANGED sent
                /\ pc' = [pc EXCEPT ![r] = "notFound"]
             \/ inode[KindOf(r)] # None
                /\ sent' = [sent EXCEPT ![r] = File(KindOf(r))]
                /\ pc' = [pc EXCEPT ![r] = "answered"]
      BY <1>8 DEF Serve, GoTo, files
    <2>2. \A q \in GemRequests : pc[q] \notin Fetching => pc'[q] \notin Fetching
      BY <2>1 DEF TypeOK, Fetching, Requests
    <2>3. r \in warm => KindOf(r) = "gem"
      BY DEF TypeOK, KindOf
    <2>4. \A x \in warm : /\ pc'[x] \in {"present", "answered", "failed", "lost"}
                          /\ pc'[x] = "answered" => sent'[x] = Whole
      BY <2>1, <2>3 DEF WarmInv, WarmIsServedWhole, TypeOK, Requests
    <2>5. warm # {} => File("gem")' = Whole /\ inode'["gem"] # None
      BY <2>1 DEF WarmInv, File
    <2> QED
      BY <2>1, <2>2, <2>4, <2>5 DEF WarmInv, WarmIsServedWhole
  <1>9. ASSUME NEW q \in GemRequests, AddGem(q) PROVE WarmInv'
    <2>1. warm = {} /\ warm' = {}
      BY <1>9 DEF AddGem, BeginIndex, HashGem, ParseGem, SaveRow, CreateSpec,
                  WriteSpec, EndIndex, RemoveGem, WarmInv, Fetching, history
    <2> QED
      BY <2>1 DEF WarmInv, WarmIsServedWhole
  <1>10. CASE Kill
    <2>1. UNCHANGED <<warm, sent, inode, data>>
      BY <1>10 DEF Kill, files
    <2>2. \A q \in GemRequests : pc'[q] \in {pc[q], "lost"}
      BY <1>10 DEF Kill, Requests
    <2> QED
      BY <2>1, <2>2, WarmElsewhere
  <1>11. CASE UNCHANGED vars
    <2>1. UNCHANGED <<warm, sent, inode, data, pc>>
      BY <1>11 DEF vars, history, files, handlers
    <2> QED
      BY <2>1, WarmElsewhere
  <1> QED
    BY <1>1, <1>2, <1>3, <1>4, <1>5, <1>6, <1>7, <1>8, <1>9, <1>10, <1>11
       DEF Next, Fetch

(* Once the gem is cached whole and nobody fetches it any more, every request *)
(* that comes is answered with the whole gem, through refusals, broken        *)
(* connections and kills of anything else.                                    *)
THEOREM WarmServed == Spec => []WarmIsServedWhole
  <1> DEFINE Inv == TypeOK /\ OpenInv /\ WarmInv
  <1>1. Init => Inv
    BY TypeInit DEF Init, WarmInv, WarmIsServedWhole
  <1>2. Inv /\ [Next]_vars => Inv'
    BY TypeStep, WarmStep
  <1>3. Inv => WarmIsServedWhole
    BY DEF WarmInv
  <1> QED
    BY <1>1, <1>2, <1>3, PTL DEF Spec

-----------------------------------------------------------------------------
(* The gem's file.                                                         *)

(* A step that changes neither the file nor a handler that GemInv needs. *)
LEMMA GemElsewhere ==
    ASSUME GemInv, row' = row,
           inode'["gem"] = inode["gem"], data'["gem"] = data["gem"],
           \A w \in GemRequests :
              pc[w] \in {"copying", "copied", "listed", "unindexed", "hashed",
                         "parsed"} =>
                 pc'[w] = pc[w] /\ fd'[w] = fd[w] /\ pos'[w] = pos[w]
    PROVE  GemInv'
  <1> DEFINE i == inode["gem"]
             d == data["gem"][i]
  <1> SUFFICES ASSUME i # None
               PROVE  /\ 1 \in d => \/ d = Whole
                                    \/ \E w \in GemRequests :
                                          Writing(w, i)' /\ 1 .. pos'[w] \subseteq d
                      /\ d # {} /\ 1 \notin d =>
                            \E w \in GemRequests : Writing(w, i)' \/ Adding(w, i)'
                      /\ d # {} /\ row = None =>
                            \E w \in GemRequests :
                               Writing(w, i)' \/ Adding(w, i)' \/ pc'[w] = "parsed"
    BY DEF GemInv, Writing, Adding, Whole
  <1>1. \A w \in GemRequests : /\ Writing(w, i) => Writing(w, i)' /\ pos'[w] = pos[w]
                               /\ Adding(w, i) => Adding(w, i)'
                               /\ pc[w] = "parsed" => pc'[w] = "parsed"
    BY DEF Writing, Adding
  <1> QED
    BY <1>1 DEF GemInv

(* A file that was just emptied, or that is gone, satisfies GemInv. *)
LEMMA GemEmptied ==
    ASSUME inode'["gem"] = None \/ data'["gem"][inode'["gem"]] = {}
    PROVE  GemInv'
  BY DEF GemInv

(* What a request for a gemspec does is done to the gemspec's file.  *)
LEMMA GemBySpec ==
    ASSUME NEW r \in SpecRequests, TypeOK, OpenInv, GemInv, Fetch(r)
    PROVE  GemInv'
  <1>1. KindOf(r) = "spec" /\ r \in Requests /\ r \notin GemRequests
    BY MirrorAssumption DEF KindOf, Requests
  <1>2. row' = row
    BY DEF Fetch, Stat, CreateFile, UpstreamAnswers, UpstreamRefuses,
           ConnectionBreaks, CopyPart, EndCopy, Serve
  <1>3. inode'["gem"] = inode["gem"]
    BY <1>1 DEF Fetch, Stat, CreateFile, UpstreamAnswers, UpstreamRefuses,
           ConnectionBreaks, CopyPart, EndCopy, Serve, Create, Unlink, files,
           TypeOK, Kind
  <1>4. data'["gem"] = data["gem"]
    BY <1>1 DEF Fetch, Stat, CreateFile, UpstreamAnswers, UpstreamRefuses,
           ConnectionBreaks, CopyPart, EndCopy, Serve, Create, files,
           TypeOK, Kind
  <1>5. \A w \in GemRequests : pc'[w] = pc[w]
    BY <1>1 DEF Fetch, Stat, CreateFile, UpstreamAnswers, UpstreamRefuses,
           ConnectionBreaks, CopyPart, EndCopy, Serve, GoTo, TypeOK, Requests
  <1>6. \A w \in GemRequests : fd'[w] = fd[w] /\ pos'[w] = pos[w]
    BY <1>1 DEF Fetch, Stat, CreateFile, UpstreamAnswers, UpstreamRefuses,
           ConnectionBreaks, CopyPart, EndCopy, Serve, Create, TypeOK, Requests
  <1> QED
    BY <1>2, <1>3, <1>4, <1>5, <1>6, GemElsewhere

LEMMA GemByGem ==
    ASSUME NEW r \in GemRequests, TypeOK, OpenInv, GemInv, Fetch(r),
           breaks' = 0
    PROVE  GemInv'
  <1>0. KindOf(r) = "gem" /\ r \in Requests
    BY DEF KindOf, Requests
  <1> USE <1>0
  <1>1. ASSUME Stat(r) PROVE GemInv'
    BY <1>1, GemElsewhere
       DEF Stat, GoTo, files, TypeOK, OpenInv, Kind, Done, Requests
  <1>2. ASSUME CreateFile(r) PROVE GemInv'
    BY <1>2, GemEmptied DEF CreateFile, Create, TypeOK, Kind
  <1>3. ASSUME UpstreamAnswers(r) PROVE GemInv'
    BY <1>3, GemElsewhere
       DEF UpstreamAnswers, GoTo, files, TypeOK, OpenInv, Kind, Done, Requests
  <1>4. ASSUME UpstreamRefuses(r) PROVE GemInv'
    BY <1>4, GemElsewhere
       DEF UpstreamRefuses, GoTo, files, Unlink, TypeOK, OpenInv, Kind, Done, Requests
  <1>5. ~ConnectionBreaks(r)
    BY DEF ConnectionBreaks, TypeOK
  <1>6. ASSUME CopyPart(r) PROVE GemInv'
    <2> DEFINE i == inode["gem"]
               d == data["gem"][i]
    <2>1. /\ pc[r] = "copying" /\ pos[r] < Parts
          /\ UNCHANGED <<inode, row, pc, fd>>
          /\ pos' = [pos EXCEPT ![r] = pos[r] + 1]
          /\ data' = [data EXCEPT !["gem"][fd[r]] = @ \cup {pos[r] + 1}]
          /\ fd[r] \in Requests /\ pos[r] \in Nat
      BY <1>6 DEF CopyPart, OpenInv, TypeOK
    <2>2. CASE fd[r] # i
      <3>1. i # None => data'["gem"][i] = d
        BY <2>1, <2>2 DEF TypeOK, Kind
      <3>2. \A w \in GemRequests : Writing(w, i) => pos'[w] = pos[w]
        BY <2>1, <2>2 DEF TypeOK, Requests, Writing
      <3> QED
        BY <2>1, <3>1, <3>2 DEF GemInv, Writing, Adding, Whole
    <2>3. CASE fd[r] = i
      <3>1. data'["gem"][i] = d \cup {pos[r] + 1}
        BY <2>1, <2>3 DEF TypeOK, Kind
      <3>2. Writing(r, i)'
        BY <2>1, <2>3 DEF Writing
      <3>3. ASSUME 1 \in d \cup {pos[r] + 1}
            PROVE  \/ d \cup {pos[r] + 1} = Whole
                   \/ \E w \in GemRequests :
                         Writing(w, i)' /\ 1 .. pos'[w] \subseteq d \cup {pos[r] + 1}
        <4>1. CASE 1 \notin d
          <5>0. pos[r] + 1 = 1
            BY <3>3, <4>1
          <5>1. 1 .. pos'[r] \subseteq d \cup {pos[r] + 1}
            BY <2>1, <5>0 DEF TypeOK
          <5> QED
            BY <3>2, <5>1
        <4>2. CASE d = Whole
          <5>1. pos[r] + 1 \in Whole
            BY <2>1, MirrorAssumption DEF Whole
          <5> QED
            BY <4>2, <5>1
        <4>3. CASE \E w \in GemRequests : Writing(w, i) /\ 1 .. pos[w] \subseteq d
          <5>1. PICK w \in GemRequests : Writing(w, i) /\ 1 .. pos[w] \subseteq d
            BY <4>3
          <5>2. Writing(w, i)'
            BY <2>1, <5>1 DEF Writing
          <5>3. pos[w] \in Nat /\ pos'[w] \in {pos[w], pos[r] + 1}
                /\ (w # r => pos'[w] = pos[w])
            BY <2>1 DEF TypeOK, Requests
          <5>4. 1 .. pos'[w] \subseteq d \cup {pos[r] + 1}
            BY <2>1, <5>1, <5>3
          <5> QED
            BY <5>2, <5>4
        <4> QED
          BY <2>3, <2>1, <4>1, <4>2, <4>3, MirrorAssumption DEF GemInv, Requests
      <3>4. i' = i
        BY <2>1
      <3> QED
        BY <3>1, <3>2, <3>3, <3>4 DEF GemInv, Whole
    <2> QED
      BY <2>2, <2>3
  <1>7. ASSUME EndCopy(r) PROVE GemInv'
    <2> DEFINE i == inode["gem"]
               d == data["gem"][i]
    <2>1. /\ pc[r] = "copying" /\ pos[r] = Parts
          /\ UNCHANGED <<inode, data, row, fd, pos>>
          /\ pc' = [pc EXCEPT ![r] = "copied"]
      BY <1>7 DEF EndCopy, GoTo, files
    <2>2. \A w \in GemRequests :
             /\ w # r => /\ Writing(w, i) => Writing(w, i)'
                         /\ Adding(w, i) => Adding(w, i)'
                         /\ pc[w] = "parsed" => pc'[w] = "parsed"
             /\ w = r => Adding(w, i)'
      BY <2>1 DEF Writing, Adding, TypeOK, Requests
    <2>3. i # None /\ 1 .. pos[r] \subseteq d => d = Whole
      BY <2>1 DEF Whole, TypeOK, Content, Kind
    <2> QED
      BY <2>1, <2>2, <2>3 DEF GemInv, Whole
  <1>8. ASSUME Serve(r) PROVE GemInv'
    BY <1>8, GemElsewhere
       DEF Serve, GoTo, files, TypeOK, OpenInv, Kind, Done, Requests
  <1> QED
    BY <1>1, <1>2, <1>3, <1>4, <1>5, <1>6, <1>7, <1>8 DEF Fetch

(* A handler moves from one step that GemInv counts on to another, and the  *)
(* file stays as it is.                                                     *)
LEMMA GemPassedOn ==
    ASSUME NEW q \in GemRequests, GemInv,
           UNCHANGED <<inode, data, row, pos>>,
           \A w \in GemRequests :
              w # q => pc'[w] = pc[w] /\ fd'[w] = fd[w],
           ~Writing(q, inode["gem"]),
           \/ Adding(q, inode["gem"])'
           \/ pc'[q] = "parsed" /\ 1 \in data["gem"][inode["gem"]]
    PROVE  GemInv'
  <1> DEFINE i == inode["gem"]
             d == data["gem"][i]
  <1>1. \A w \in GemRequests :
           /\ w # q => /\ Writing(w, i) => Writing(w, i)'
                       /\ Adding(w, i) => Adding(w, i)'
                       /\ pc[w] = "parsed" => pc'[w] = "parsed"
    BY DEF Writing, Adding
  <1> QED
    BY <1>1 DEF GemInv, Whole

LEMMA GemByAdding ==
    ASSUME NEW q \in GemRequests, TypeOK, OpenInv, GemInv, AddGem(q)
    PROVE  GemInv'
  <1>0. q \in Requests
    BY DEF Requests
  <1> USE <1>0
  <1>1. ASSUME BeginIndex(q) PROVE GemInv'
    <2>1. UNCHANGED <<inode, data, row, fd, pos>> /\ pc[q] = "copied"
          /\ \A w \in GemRequests : w # q => pc'[w] = pc[w]
      <3>1. \E l \in {"unindexed", "present", "listed"} :
               pc' = [pc EXCEPT ![q] = l]
        BY <1>1 DEF BeginIndex, GoTo
      <3> QED
        BY <1>1, <3>1 DEF BeginIndex, files, TypeOK, Requests
    <2>2. CASE inode["gem"] = None \/ File("gem") = {}
      BY <2>1, <2>2, GemEmptied DEF File
    <2>3. CASE inode["gem"] # None /\ File("gem") # {}
      <3>1. pc'[q] = "listed"
        BY <1>1, <2>3 DEF BeginIndex, GoTo, TypeOK
      <3> QED
        BY <2>1, <3>1, GemPassedOn DEF Writing, Adding
    <2> QED
      BY <2>2, <2>3
  <1>2. ASSUME HashGem(q) PROVE GemInv'
    <2>1. /\ UNCHANGED <<inode, data, row, pos>> /\ pc[q] = "listed"
          /\ \A w \in GemRequests : w # q => pc'[w] = pc[w] /\ fd'[w] = fd[w]
      <3>1. \E l \in {"unindexed", "hashed"} : pc' = [pc EXCEPT ![q] = l]
        BY <1>2 DEF HashGem, GoTo
      <3>2. \E f \in Requests \cup {None} : fd' = [fd EXCEPT ![q] = f]
        BY <1>2 DEF HashGem, TypeOK, Kind
      <3> QED
        BY <1>2, <3>1, <3>2 DEF HashGem, files, TypeOK, Requests
    <2>2. CASE inode["gem"] = None
      BY <2>1, <2>2, GemEmptied
    <2>3. CASE inode["gem"] # None
      <3>1. pc'[q] = "hashed" /\ fd'[q] = inode["gem"]
        BY <1>2, <2>3 DEF HashGem, GoTo, TypeOK
      <3> QED
        BY <2>1, <3>1, GemPassedOn DEF Writing, Adding
    <2> QED
      BY <2>2, <2>3
  <1>3. ASSUME ParseGem(q) PROVE GemInv'
    <2>1. /\ UNCHANGED <<inode, data, row, fd, pos>> /\ pc[q] = "hashed"
          /\ \A w \in GemRequests : w # q => pc'[w] = pc[w]
          /\ \/ pc'[q] = "parsed" /\ 1 \in data["gem"][fd[q]]
             \/ pc'[q] = "unindexed"
      <3>1. \/ pc' = [pc EXCEPT ![q] = "parsed"] /\ 1 \in data["gem"][fd[q]]
            \/ pc' = [pc EXCEPT ![q] = "unindexed"]
        BY <1>3 DEF ParseGem, GoTo
      <3>2. UNCHANGED <<inode, data, row, fd, pos>> /\ pc[q] = "hashed"
        BY <1>3 DEF ParseGem, files
      <3> QED
        BY <3>1, <3>2 DEF TypeOK, Requests
    <2>2. CASE pc'[q] = "unindexed" \/ fd[q] = inode["gem"]
      BY <2>1, <2>2, GemPassedOn DEF Writing, Adding
    <2>3. CASE pc'[q] = "parsed" /\ fd[q] # inode["gem"]
      BY <2>1, <2>3 DEF GemInv, Writing, Adding, Whole
    <2> QED
      BY <2>1, <2>2, <2>3
  <1>4. ASSUME SaveRow(q) PROVE GemInv'
    <2>1. /\ UNCHANGED <<inode, data, fd, pos>> /\ pc[q] = "parsed"
          /\ \A w \in GemRequests : w # q => pc'[w] = pc[w]
      BY <1>4 DEF SaveRow, GoTo, files, TypeOK
    <2>2. row' # None
      BY <1>4, MirrorAssumption DEF SaveRow, TypeOK, Content
    <2> QED
      BY <2>1, <2>2 DEF GemInv, Writing, Adding, Whole
  <1>5. ASSUME CreateSpec(q) PROVE GemInv'
    <2>1. data'["gem"] = data["gem"] /\ inode'["gem"] = inode["gem"]
      BY <1>5 DEF CreateSpec, Create, TypeOK, Kind
    <2> QED
      BY <1>5, <2>1, GemElsewhere DEF CreateSpec, Create, GoTo, TypeOK, Requests
  <1>6. ASSUME WriteSpec(q) PROVE GemInv'
    <2>1. data'["gem"] = data["gem"] /\ inode'["gem"] = inode["gem"]
      BY <1>6 DEF WriteSpec, TypeOK, Kind
    <2> QED
      BY <1>6, <2>1, GemElsewhere DEF WriteSpec, GoTo, TypeOK, Requests
  <1>7. ASSUME EndIndex(q) PROVE GemInv'
    BY <1>7, GemElsewhere DEF EndIndex, GoTo, files, TypeOK, Requests
  <1>8. ASSUME RemoveGem(q) PROVE GemInv'
    BY <1>8, GemEmptied DEF RemoveGem, Unlink, TypeOK, Kind
  <1> QED
    BY <1>1, <1>2, <1>3, <1>4, <1>5, <1>6, <1>7, <1>8 DEF AddGem

-----------------------------------------------------------------------------
(* The gemspec's file.                                                     *)

(* A step that leaves the file alone, and whoever is about to write it.  *)
LEMMA SpecElsewhere ==
    ASSUME SpecInv,
           inode'["spec"] = inode["spec"], data'["spec"] = data["spec"],
           \A s \in SpecRequests :
              pc[s] \in {"asking", "copying"} =>
                 /\ pc'[s] \in {"asking", "copying"}
                 /\ fd'[s] = fd[s] /\ pos'[s] = pos[s],
           \A q \in GemRequests :
              pc[q] = "described" => pc'[q] = "described" /\ fd'[q] = fd[q]
    PROVE  SpecInv'
  BY DEF SpecInv

(* A file that is gone or has something in it satisfies SpecInv. *)
LEMMA SpecFilled ==
    ASSUME inode'["spec"] = None \/ data'["spec"][inode'["spec"]] # {}
    PROVE  SpecInv'
  BY DEF SpecInv

LEMMA SpecBySpec ==
    ASSUME NEW r \in SpecRequests, TypeOK, OpenInv, SpecInv, Fetch(r),
           breaks' = 0
    PROVE  SpecInv'
  <1>0. KindOf(r) = "spec" /\ r \in Requests /\ r \notin GemRequests
    BY MirrorAssumption DEF KindOf, Requests
  <1> USE <1>0
  <1>1. ASSUME Stat(r) PROVE SpecInv'
    BY <1>1, SpecElsewhere DEF Stat, GoTo, files, TypeOK, Requests
  <1>2. ASSUME CreateFile(r) PROVE SpecInv'
    <2>1. /\ fd'[r] = inode'["spec"]
          /\ pc'[r] = "asking" /\ pos'[r] = 0
      BY <1>2 DEF CreateFile, Create, GoTo, TypeOK, OpenInv, Kind
    <2> QED
      BY <2>1 DEF SpecInv
  <1>3. ASSUME UpstreamAnswers(r) PROVE SpecInv'
    BY <1>3, SpecElsewhere DEF UpstreamAnswers, GoTo, files, TypeOK, Requests
  <1>4. ASSUME UpstreamRefuses(r) PROVE SpecInv'
    BY <1>4, SpecFilled DEF UpstreamRefuses, Unlink, TypeOK, Kind
  <1>5. ~ConnectionBreaks(r)
    BY DEF ConnectionBreaks, TypeOK
  <1>6. ASSUME CopyPart(r) PROVE SpecInv'
    <2> DEFINE i == inode["spec"]
    <2>1. /\ UNCHANGED <<inode, pc, fd>>
          /\ pos' = [pos EXCEPT ![r] = pos[r] + 1]
          /\ data' = [data EXCEPT !["spec"][fd[r]] = @ \cup {pos[r] + 1}]
          /\ fd[r] \in Requests
      BY <1>6 DEF CopyPart, OpenInv
    <2>2. CASE fd[r] = i
      BY <2>1, <2>2, SpecFilled DEF TypeOK, Kind
    <2>3. CASE fd[r] # i
      <3>1. i # None => data'["spec"][i] = data["spec"][i]
        BY <2>1, <2>3 DEF TypeOK, Kind
      <3>2. \A s \in SpecRequests : fd[s] = i => pos'[s] = pos[s]
        BY <2>1, <2>3 DEF TypeOK, Requests
      <3> QED
        BY <2>1, <3>1, <3>2 DEF SpecInv
    <2> QED
      BY <2>2, <2>3
  <1>7. ASSUME EndCopy(r) PROVE SpecInv'
    <2>1. /\ UNCHANGED <<inode, data, fd, pos>>
          /\ pos[r] # 0
          /\ \A x \in Requests : x # r => pc'[x] = pc[x]
      BY <1>7, MirrorAssumption DEF EndCopy, GoTo, files, TypeOK
    <2>2. \A s \in SpecRequests : pos[s] = 0 => pc'[s] = pc[s]
      BY <2>1 DEF Requests
    <2>3. \A q \in GemRequests : pc'[q] = pc[q]
      BY <2>1 DEF Requests
    <2> QED
      BY <2>1, <2>2, <2>3 DEF SpecInv
  <1>8. ASSUME Serve(r) PROVE SpecInv'
    <2>1. /\ UNCHANGED <<inode, data, fd, pos>> /\ pc[r] = "present"
          /\ \A x \in Requests : x # r => pc'[x] = pc[x]
      BY <1>8 DEF Serve, GoTo, files, TypeOK
    <2> QED
      BY <2>1, SpecElsewhere DEF Requests
  <1> QED
    BY <1>1, <1>2, <1>3, <1>4, <1>5, <1>6, <1>7, <1>8 DEF Fetch

(* The download of the gem does not touch the gemspec's file.  *)
LEMMA SpecByGem ==
    ASSUME NEW r \in GemRequests, TypeOK, OpenInv, SpecInv, Fetch(r)
    PROVE  SpecInv'
  <1>1. KindOf(r) = "gem" /\ r \in Requests /\ r \notin SpecRequests
    BY MirrorAssumption DEF KindOf, Requests
  <1>2. inode'["spec"] = inode["spec"]
    BY <1>1 DEF Fetch, Stat, CreateFile, UpstreamAnswers, UpstreamRefuses,
           ConnectionBreaks, CopyPart, EndCopy, Serve, Create, Unlink, files,
           TypeOK, Kind
  <1>3. data'["spec"] = data["spec"]
    BY <1>1 DEF Fetch, Stat, CreateFile, UpstreamAnswers, UpstreamRefuses,
           ConnectionBreaks, CopyPart, EndCopy, Serve, Create, files,
           TypeOK, Kind
  <1>4. pc[r] # "described" /\ \A x \in Requests : x # r => pc'[x] = pc[x]
    BY <1>1 DEF Fetch, Stat, CreateFile, UpstreamAnswers, UpstreamRefuses,
           ConnectionBreaks, CopyPart, EndCopy, Serve, GoTo, TypeOK
  <1>5. \A x \in Requests : x # r => fd'[x] = fd[x] /\ pos'[x] = pos[x]
    BY <1>1 DEF Fetch, Stat, CreateFile, UpstreamAnswers, UpstreamRefuses,
           ConnectionBreaks, CopyPart, EndCopy, Serve, Create, TypeOK
  <1> QED
    BY <1>1, <1>2, <1>3, <1>4, <1>5, SpecElsewhere DEF Requests

LEMMA SpecByAdding ==
    ASSUME NEW q \in GemRequests, TypeOK, OpenInv, SpecInv, AddGem(q)
    PROVE  SpecInv'
  <1>0. q \in Requests /\ q \notin SpecRequests
    BY MirrorAssumption DEF Requests
  <1> USE <1>0
  <1>1. CASE CreateSpec(q)
    <2>1. fd'[q] = inode'["spec"] /\ pc'[q] = "described"
      BY <1>1 DEF CreateSpec, Create, GoTo, TypeOK, Kind
    <2> QED
      BY <2>1 DEF SpecInv
  <1>2. CASE WriteSpec(q)
    <2> DEFINE i == inode["spec"]
    <2>1. /\ UNCHANGED <<inode, fd, pos>>
          /\ pc[q] = "described"
          /\ \A x \in Requests : x # q => pc'[x] = pc[x]
          /\ data' = [data EXCEPT !["spec"][fd[q]] = @ \cup {1}]
          /\ fd[q] \in Requests
      BY <1>2 DEF WriteSpec, GoTo, TypeOK, OpenInv
    <2>2. CASE fd[q] = i
      BY <2>1, <2>2, SpecFilled DEF TypeOK, Kind
    <2>3. CASE fd[q] # i
      <3>1. i # None => data'["spec"][i] = data["spec"][i]
        BY <2>1, <2>3 DEF TypeOK, Kind
      <3>2. \A w \in GemRequests : fd[w] = i => pc'[w] = pc[w]
        BY <2>1, <2>3 DEF Requests
      <3>3. \A s \in SpecRequests : pc'[s] = pc[s]
        BY <2>1 DEF Requests
      <3> QED
        BY <2>1, <3>1, <3>2, <3>3 DEF SpecInv
    <2> QED
      BY <2>2, <2>3
  <1>3. CASE \/ BeginIndex(q) \/ HashGem(q) \/ ParseGem(q) \/ SaveRow(q)
             \/ EndIndex(q) \/ RemoveGem(q)
    <2>1. inode'["spec"] = inode["spec"] /\ data' = data /\ pos' = pos
      BY <1>3 DEF BeginIndex, HashGem, ParseGem, SaveRow, EndIndex, RemoveGem,
                  Unlink, files, TypeOK, Kind
    <2>2. pc[q] # "described" /\ \A x \in Requests : x # q => pc'[x] = pc[x]
      BY <1>3 DEF BeginIndex, HashGem, ParseGem, SaveRow, EndIndex, RemoveGem,
                  GoTo, TypeOK
    <2>3. \A x \in Requests : x # q => fd'[x] = fd[x]
      BY <1>3 DEF BeginIndex, HashGem, ParseGem, SaveRow, EndIndex, RemoveGem,
                  TypeOK
    <2> QED
      BY <2>1, <2>2, <2>3, SpecElsewhere DEF Requests
  <1> QED
    BY <1>1, <1>2, <1>3 DEF AddGem

-----------------------------------------------------------------------------
(* What is left when nobody is at work.                                    *)

Unbroken == breaks = 0 /\ kills = 0

FileInv == Unbroken => GemInv /\ SpecInv

LEMMA FileStep ==
    ASSUME TypeOK, OpenInv, FileInv, [Next]_vars
    PROVE  FileInv'
  <1> SUFFICES ASSUME breaks' = 0, kills' = 0
               PROVE  GemInv' /\ SpecInv'
    BY DEF FileInv, Unbroken
  <1>1. breaks = 0
    BY MirrorAssumption
       DEF Next, Fetch, AddGem, Kill, Stat, CreateFile, UpstreamAnswers,
           UpstreamRefuses, ConnectionBreaks, CopyPart, EndCopy, Serve,
           BeginIndex, HashGem, ParseGem, SaveRow, CreateSpec, WriteSpec,
           EndIndex, RemoveGem, vars, history, bounds, TypeOK
  <1>2. kills = 0
    BY MirrorAssumption
       DEF Next, Fetch, AddGem, Kill, Stat, CreateFile, UpstreamAnswers,
           UpstreamRefuses, ConnectionBreaks, CopyPart, EndCopy, Serve,
           BeginIndex, HashGem, ParseGem, SaveRow, CreateSpec, WriteSpec,
           EndIndex, RemoveGem, vars, history, bounds, TypeOK
  <1>3. GemInv /\ SpecInv
    BY <1>1, <1>2 DEF FileInv, Unbroken
  <1>4. ASSUME NEW r \in Requests, Fetch(r) PROVE GemInv' /\ SpecInv'
    BY <1>3, <1>4, GemBySpec, GemByGem, SpecBySpec, SpecByGem DEF Requests
  <1>5. ASSUME NEW q \in GemRequests, AddGem(q) PROVE GemInv' /\ SpecInv'
    BY <1>3, <1>5, GemByAdding, SpecByAdding
  <1>6. ~Kill
    BY <1>2 DEF Kill
  <1>7. CASE UNCHANGED vars
    BY <1>3, <1>7, GemElsewhere, SpecElsewhere DEF vars, files, handlers
  <1> QED
    BY <1>4, <1>5, <1>6, <1>7 DEF Next

(* With nobody at work nobody is left to finish a file, so it is finished. *)
LEMMA FileAtRest ==
    ASSUME TypeOK, FileInv
    PROVE  GemRestsWhole /\ SpecRestsFilled /\ WholeIsIndexed
  <1> SUFFICES ASSUME AtRest, breaks = 0, kills = 0
               PROVE  /\ File("gem") \in {{}, Whole}
                      /\ inode["spec"] # None => File("spec") # {}
                      /\ File("gem") = Whole => row # None
    BY DEF GemRestsWhole, SpecRestsFilled, WholeIsIndexed
  <1>1. GemInv /\ SpecInv
    BY DEF FileInv, Unbroken
  <1>2. \A r \in Requests : pc[r] \in Done \cup {"new"}
    BY DEF AtRest, Running
  <1>3. \A r \in GemRequests :
           /\ \A i \in Requests : ~Writing(r, i) /\ ~Adding(r, i)
           /\ pc[r] # "parsed" /\ pc[r] # "described"
    BY <1>2 DEF Requests, Writing, Adding, Done
  <1>4. inode["gem"] \in Requests \cup {None} /\ inode["spec"] \in Requests \cup {None}
    BY DEF TypeOK, Kind
  <1>5. File("gem") \in {{}, Whole}
    BY <1>1, <1>3, <1>4 DEF GemInv, File
  <1>6. inode["spec"] # None => File("spec") # {}
    BY <1>1, <1>2, <1>3 DEF SpecInv, File, Done, Requests
  <1>7. File("gem") = Whole => row # None
    <2>1. Whole # {}
      BY MirrorAssumption DEF Whole
    <2> QED
      BY <1>1, <1>3, <1>4, <2>1 DEF GemInv, File
  <1> QED
    BY <1>5, <1>6, <1>7

LEMMA FilesSettle ==
    Spec => [](GemRestsWhole /\ SpecRestsFilled /\ WholeIsIndexed)
  <1> DEFINE Inv == TypeOK /\ OpenInv /\ FileInv
  <1>1. Init => Inv
    BY TypeInit DEF Init, FileInv, GemInv, SpecInv, Kind
  <1>2. Inv /\ [Next]_vars => Inv'
    BY TypeStep, FileStep
  <1>3. Inv => GemRestsWhole /\ SpecRestsFilled /\ WholeIsIndexed
    BY FileAtRest
  <1> QED
    BY <1>1, <1>2, <1>3, PTL DEF Spec

(* However many downloads of a gem overlap in one file, and whatever the    *)
(* upstream refuses, what they leave is the whole gem or a file that the    *)
(* next request fetches again.                                              *)
THEOREM GemSettles == Spec => []GemRestsWhole
  BY FilesSettle, PTL

(* They leave no empty gemspec, which would be served for ever.  *)
THEOREM SpecSettles == Spec => []SpecRestsFilled
  BY FilesSettle, PTL

(* A gem that they leave whole is in the database.  *)
THEOREM CachedIsIndexed == Spec => []WholeIsIndexed
  BY FilesSettle, PTL

=============================================================================

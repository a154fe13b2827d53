------------------------- MODULE CompactIndexProofs --------------------------
(***************************************************************************)
(* Theorems about CompactIndex: for any versions, contents, uploads and    *)
(* yanks of a name, and any number of kills.                               *)
(***************************************************************************)
EXTENDS CompactIndex, TLAPS

(* The two facts about a list that its appends and deletions keep; A is the *)
(* set of versions that yanks were asked to remove.                        *)
Once(list) ==
    \A i, j \in DOMAIN list : list[i].version = list[j].version => i = j

Covers(list, A) ==
    \A i \in DOMAIN list :
        /\ \A j \in 1 .. i : LineOf(list[j]) \in list[i].info.lines
        /\ \A l \in list[i].info.lines :
              l.version \in A \/ \E j \in 1 .. i : l = LineOf(list[j])

Good(list, A) == list # Absent => Once(list) /\ Covers(list, A)
In(list) == IF list = Absent THEN {} ELSE VersionsOf(list)

(* Between its read and its write, a request may write back what it read.  *)
InFlight(label) == label \in {"viewed", "decoded", "read"}

LockInv ==
    \A u \in Uploads :
        pc[u] \in {"begun", "viewed", "decoded", "stored"} => lock = u

(* Only yanks read as yanks do, and only uploads as uploads do.             *)
RoleInv ==
    /\ \A u \in Uploads : pc[u] \notin {"unindexed", "read"}
    /\ \A y \in Yanks : pc[y] \notin {"begun", "viewed", "decoded", "stored"}

ListInv == Good(value, asked) /\ \A r \in Requests : Good(seen[r], asked)

StoredInv ==
    /\ In(value) \subseteq stored
    /\ \A r \in Requests : In(seen[r]) \subseteq stored
    /\ \A u \in Uploads : pc[u] = "stored" => version[u] \in stored
    /\ acked \subseteq stored

YankInv ==
    \A y \in Yanks : pc[y] \in {"unindexed", "read"} =>
        version[y] \in withdrawn /\ version[y] \in asked

(* What nothing excuses for missing is not missed by anyone who will write. *)
Kept == {v \in stored : Unlike(v)} \ (withdrawn \cup exposed)
KeptInv ==
    /\ Kept \subseteq In(value)
    /\ \A r \in Requests : InFlight(pc[r]) => Kept \subseteq In(seen[r])

GoneInv ==
    /\ gone \cap In(value) = {}
    /\ \A r \in Requests : InFlight(pc[r]) => gone \cap In(seen[r]) = {}

IInv ==
    /\ TypeOK /\ LockInv /\ RoleInv /\ ListInv
    /\ StoredInv /\ YankInv /\ KeptInv /\ GoneInv
-----------------------------------------------------------------------------
(* Lists.                                                                  *)

\* The list an upload reads decodes to, and the one a yank starts from.
LEMMA EmptyIsGood ==
  ASSUME NEW A
  PROVE  /\ << >> \in Seq(Row)
         /\ Good(<< >>, A) /\ In(<< >>) = {} /\ << >> # Absent
<1>1. << >> \in Seq(Row)
  OBVIOUS
<1>2. << >> # Absent
  BY <1>1, AbsentAssumption
<1>3. DOMAIN << >> = {}
  OBVIOUS
<1>4. QED
  BY <1>1, <1>2, <1>3 DEF Good, Once, Covers, In, VersionsOf

LEMMA ListIsNotAbsent ==
  ASSUME NEW list \in Seq(Row)
  PROVE  list # Absent /\ In(list) = VersionsOf(list)
  BY AbsentAssumption DEF In

LEMMA GoodGrows ==
  ASSUME NEW list, NEW A, NEW B, A \subseteq B, Good(list, A)
  PROVE  Good(list, B)
  BY DEF Good, Covers

LEMMA RowIsRow ==
  ASSUME TypeOK, NEW u \in Uploads, NEW list \in Seq(Row)
  PROVE  /\ RowFor(u, list) \in Row
         /\ RowFor(u, list).version = version[u]
         /\ RowFor(u, list).info.lines = LinesOf(list) \cup {LineOf(RowFor(u, list))}
<1>1. version[u] \in Version /\ build[u] \in Builds
  BY DEF TypeOK, Requests
<1>2. LinesOf(list) \in SUBSET Line
  <2>1. \A i \in DOMAIN list : list[i] \in Row
    OBVIOUS
  <2>2. \A row \in Row : LineOf(row) \in Line
    BY DEF LineOf, Line, Row
  <2>3. QED
    BY <2>1, <2>2 DEF LinesOf
<1>3. LineOf(RowFor(u, list)) = [version |-> version[u], build |-> build[u]]
  BY DEF LineOf, RowFor
<1>4. [version |-> version[u], build |-> build[u]] \in Line
  BY <1>1 DEF Line
<1>5. CompactIndexInfo(LinesOf(list) \cup {LineOf(RowFor(u, list))}) \in Text
  BY <1>2, <1>3, <1>4 DEF CompactIndexInfo, Text
<1>6. QED
  BY <1>1, <1>3, <1>5 DEF RowFor, CompactIndexInfo, Row

\* An upload that adds its row.
LEMMA AppendIsGood ==
  ASSUME TypeOK, NEW u \in Uploads, NEW list \in Seq(Row), NEW A,
         Good(list, A), version[u] \notin VersionsOf(list)
  PROVE  /\ Append(list, RowFor(u, list)) \in Seq(Row)
         /\ VersionsOf(Append(list, RowFor(u, list)))
              = VersionsOf(list) \cup {version[u]}
         /\ Good(Append(list, RowFor(u, list)), A)
<1> DEFINE row == RowFor(u, list)
           new == Append(list, row)
<1>1. /\ row \in Row /\ row.version = version[u]
      /\ row.info.lines = LinesOf(list) \cup {LineOf(row)}
  BY RowIsRow
<1> HIDE DEF row
<1>2. /\ new \in Seq(Row) /\ Len(new) = Len(list) + 1 /\ Len(list) \in Nat
      /\ DOMAIN list = 1 .. Len(list) /\ DOMAIN new = 1 .. Len(new)
      /\ \A i \in 1 .. Len(list) : new[i] = list[i]
      /\ new[Len(list) + 1] = row
  BY <1>1
<1> HIDE DEF new
<1>3. VersionsOf(new) = VersionsOf(list) \cup {version[u]}
  <2>1. VersionsOf(new) \subseteq VersionsOf(list) \cup {version[u]}
    BY <1>1, <1>2 DEF VersionsOf
  <2>2. ASSUME NEW v \in VersionsOf(list) PROVE v \in VersionsOf(new)
    <3>1. PICK i \in 1 .. Len(list) : v = list[i].version
      BY <1>2 DEF VersionsOf
    <3>2. i \in 1 .. Len(new) /\ new[i].version = v
      BY <1>2, <3>1
    <3>3. QED
      BY <1>2, <3>2 DEF VersionsOf
  <2>3. version[u] \in VersionsOf(new)
    <3>1. Len(list) + 1 \in DOMAIN new /\ new[Len(list) + 1].version = version[u]
      BY <1>1, <1>2
    <3>2. QED
      BY <3>1 DEF VersionsOf
  <2>4. QED
    BY <2>1, <2>2, <2>3
<1>4. Once(list) /\ Covers(list, A)
  BY ListIsNotAbsent DEF Good
<1>5. \A i \in 1 .. Len(list) : list[i].version # version[u]
  BY <1>2 DEF VersionsOf
<1>6. Once(new)
  <2>1. ASSUME NEW i \in 1 .. Len(new), NEW j \in 1 .. Len(new),
               new[i].version = new[j].version
        PROVE  i = j
    <3>1. CASE i \in 1 .. Len(list) /\ j \in 1 .. Len(list)
      BY <1>2, <1>4, <2>1, <3>1 DEF Once
    <3>2. CASE i \notin 1 .. Len(list) \/ j \notin 1 .. Len(list)
      BY <1>1, <1>2, <1>5, <2>1, <3>2
    <3>3. QED
      BY <3>1, <3>2
  <2>2. QED
    BY <1>2, <2>1 DEF Once
<1>7. Covers(new, A)
  <2>1. ASSUME NEW i \in 1 .. Len(list)
        PROVE  /\ \A j \in 1 .. i : LineOf(new[j]) \in new[i].info.lines
               /\ \A l \in new[i].info.lines :
                     l.version \in A \/ \E j \in 1 .. i : l = LineOf(new[j])
    <3>1. \A j \in 1 .. i : new[j] = list[j] /\ j \in 1 .. Len(list)
      BY <1>2
    <3>2. new[i] = list[i]
      BY <1>2
    <3>3. /\ \A j \in 1 .. i : LineOf(list[j]) \in list[i].info.lines
          /\ \A l \in list[i].info.lines :
                l.version \in A \/ \E j \in 1 .. i : l = LineOf(list[j])
      BY <1>2, <1>4 DEF Covers
    <3>4. QED
      BY <3>1, <3>2, <3>3
  <2>2. LinesOf(list) = {LineOf(new[j]) : j \in 1 .. Len(list)}
    BY <1>2 DEF LinesOf
  <2>3. new[Len(list) + 1].info.lines = {LineOf(new[j]) : j \in 1 .. Len(list) + 1}
    BY <1>1, <1>2, <2>2
  <2>4. ASSUME NEW i \in DOMAIN new
        PROVE  /\ \A j \in 1 .. i : LineOf(new[j]) \in new[i].info.lines
               /\ \A l \in new[i].info.lines :
                     l.version \in A \/ \E j \in 1 .. i : l = LineOf(new[j])
    <3>1. CASE i \in 1 .. Len(list)
      BY <2>1, <3>1
    <3>2. CASE i = Len(list) + 1
      BY <2>3, <3>2
    <3>3. QED
      BY <1>2, <3>1, <3>2
  <2>5. QED
    BY <2>4 DEF Covers
<1>8. QED
  BY <1>2, <1>3, <1>6, <1>7 DEF Good, new, row

\* A yank that deletes a row.
LEMMA DeletedIsGood ==
  ASSUME NEW list \in Seq(Row), NEW A, NEW k \in DOMAIN list,
         Once(list), Covers(list, A), list[k].version \in A
  PROVE  /\ Deleted(list, k) \in Seq(Row)
         /\ VersionsOf(Deleted(list, k)) = VersionsOf(list) \ {list[k].version}
         /\ Once(Deleted(list, k))
         /\ Covers(Deleted(list, k), A)
<1> DEFINE new == Deleted(list, k)
           n == Len(list)
           from(j) == IF j < k THEN j ELSE j + 1
<1>1. n \in Nat /\ DOMAIN list = 1 .. n /\ k \in 1 .. n
  OBVIOUS
<1>2. \A i \in 1 .. n : list[i] \in Row
  OBVIOUS
<1>3. \A j \in 1 .. n - 1 : from(j) \in 1 .. n /\ from(j) # k
  BY <1>1
<1>4. \A j \in 1 .. n - 1 : new[j] = list[from(j)]
  BY DEF Deleted
<1>5. new \in Seq(Row) /\ DOMAIN new = 1 .. n - 1
  <2>1. new = [j \in 1 .. n - 1 |-> list[from(j)]]
    BY DEF Deleted
  <2>2. \A j \in 1 .. n - 1 : list[from(j)] \in Row
    BY <1>2, <1>3
  <2>3. n - 1 \in Nat
    BY <1>1
  <2>4. QED
    BY <2>1, <2>2, <2>3
<1>6. \A i, j \in 1 .. n - 1 : from(i) = from(j) => i = j
  BY <1>1
<1>7. \A m \in 1 .. n : m # k => \E j \in 1 .. n - 1 : from(j) = m
  <2>1. ASSUME NEW m \in 1 .. n, m # k
        PROVE  \E j \in 1 .. n - 1 : from(j) = m
    <3>1. CASE m < k
      BY <1>1, <2>1, <3>1
    <3>2. CASE m > k
      <4>1. m - 1 \in 1 .. n - 1 /\ from(m - 1) = m
        BY <1>1, <2>1, <3>2
      <4>2. QED
        BY <4>1
    <3>3. QED
      BY <1>1, <2>1, <3>1, <3>2
  <2>2. QED
    BY <2>1
<1>8. \A j \in 1 .. n - 1 : \A m \in 1 .. n :
        m <= from(j) /\ m # k => \E i \in 1 .. j : from(i) = m
  <2>1. ASSUME NEW j \in 1 .. n - 1, NEW m \in 1 .. n, m <= from(j), m # k
        PROVE  \E i \in 1 .. j : from(i) = m
    <3>1. CASE m < k
      <4>1. m \in 1 .. j /\ from(m) = m
        BY <1>1, <2>1, <3>1
      <4>2. QED
        BY <4>1
    <3>2. CASE m > k
      <4>1. m - 1 \in 1 .. j /\ from(m - 1) = m
        BY <1>1, <2>1, <3>2
      <4>2. QED
        BY <4>1
    <3>3. QED
      BY <1>1, <2>1, <3>1, <3>2
  <2>2. QED
    BY <2>1
<1>9. \A j \in 1 .. n - 1 : \A i \in 1 .. j : from(i) \in 1 .. from(j)
  BY <1>1
<1> HIDE DEF new, from
<1>10. VersionsOf(new) = VersionsOf(list) \ {list[k].version}
  <2>1. ASSUME NEW v \in VersionsOf(new)
        PROVE  v \in VersionsOf(list) /\ v # list[k].version
    <3>1. PICK j \in 1 .. n - 1 : v = new[j].version
      BY <1>5 DEF VersionsOf
    <3>2. from(j) \in 1 .. n /\ from(j) # k /\ v = list[from(j)].version
      BY <1>3, <1>4, <3>1
    <3>3. QED
      BY <1>1, <3>2 DEF VersionsOf, Once
  <2>2. ASSUME NEW v \in VersionsOf(list), v # list[k].version
        PROVE  v \in VersionsOf(new)
    <3>1. PICK m \in 1 .. n : v = list[m].version
      BY <1>1 DEF VersionsOf
    <3>2. PICK j \in 1 .. n - 1 : from(j) = m
      BY <1>7, <2>2, <3>1
    <3>3. QED
      BY <1>4, <1>5, <3>1, <3>2 DEF VersionsOf
  <2>3. QED
    BY <2>1, <2>2
<1>11. Once(new)
  <2>1. ASSUME NEW i \in 1 .. n - 1, NEW j \in 1 .. n - 1,
               new[i].version = new[j].version
        PROVE  i = j
    <3>1. list[from(i)].version = list[from(j)].version
      BY <1>4, <2>1
    <3>2. from(i) = from(j)
      BY <1>1, <1>3, <3>1 DEF Once
    <3>3. QED
      BY <1>6, <3>2
  <2>2. QED
    BY <1>5, <2>1 DEF Once
<1>12. Covers(new, A)
  <2>1. ASSUME NEW j \in 1 .. n - 1
        PROVE  /\ \A i \in 1 .. j : LineOf(new[i]) \in new[j].info.lines
               /\ \A l \in new[j].info.lines :
                     l.version \in A \/ \E i \in 1 .. j : l = LineOf(new[i])
    <3>1. new[j] = list[from(j)] /\ from(j) \in 1 .. n
      BY <1>3, <1>4
    <3>2. /\ \A m \in 1 .. from(j) : LineOf(list[m]) \in list[from(j)].info.lines
          /\ \A l \in list[from(j)].info.lines :
                l.version \in A \/ \E m \in 1 .. from(j) : l = LineOf(list[m])
      BY <1>1, <3>1 DEF Covers
    <3>3. ASSUME NEW i \in 1 .. j PROVE LineOf(new[i]) \in new[j].info.lines
      <4>1. i \in 1 .. n - 1 /\ from(i) \in 1 .. from(j)
        BY <1>1, <1>9
      <4>2. QED
        BY <1>4, <3>1, <3>2, <4>1
    <3>4. ASSUME NEW l \in new[j].info.lines, l.version \notin A
          PROVE  \E i \in 1 .. j : l = LineOf(new[i])
      <4>1. PICK m \in 1 .. from(j) : l = LineOf(list[m])
        BY <3>1, <3>2, <3>4
      <4>2. m # k
        BY <3>4, <4>1 DEF LineOf
      <4>3. m \in 1 .. n /\ m <= from(j)
        BY <1>1, <3>1, <4>1
      <4>4. PICK i \in 1 .. j : from(i) = m
        BY <1>8, <4>2, <4>3
      <4>5. i \in 1 .. n - 1
        BY <1>1, <4>4
      <4>6. QED
        BY <1>4, <4>1, <4>4, <4>5
    <3>5. QED
      BY <3>3, <3>4
  <2>2. QED
    BY <1>5, <2>1 DEF Covers
<1>13. QED
  BY <1>5, <1>10, <1>11, <1>12 DEF new

LEMMA RemainingIsGood ==
  ASSUME NEW list \in Seq(Row), NEW A, NEW v \in A, Good(list, A)
  PROVE  /\ Remaining(list, v) \in Seq(Row)
         /\ In(Remaining(list, v)) = In(list) \ {v}
         /\ Good(Remaining(list, v), A)
<1>1. Once(list) /\ Covers(list, A)
  BY ListIsNotAbsent DEF Good
<1>2. CASE v \in VersionsOf(list)
  <2> DEFINE k == CHOOSE i \in DOMAIN list : list[i].version = v
  <2>1. k \in DOMAIN list /\ list[k].version = v
    BY <1>2 DEF VersionsOf
  <2>2. Remaining(list, v) = Deleted(list, k)
    BY <1>2 DEF Remaining
  <2> HIDE DEF k
  <2>3. QED
    BY <1>1, <2>1, <2>2, DeletedIsGood, ListIsNotAbsent DEF Good
<1>3. CASE v \notin VersionsOf(list)
  BY <1>3, ListIsNotAbsent DEF Remaining
<1>4. QED
  BY <1>2, <1>3

(* What the two writes make of the list.                                   *)
LEMMA StoreValue ==
  ASSUME TypeOK, ListInv, NEW u \in Uploads, Store(u)
  PROVE  /\ Adds(u) => /\ value' \in Seq(Row)
                       /\ In(value') = In(seen[u]) \cup {version[u]}
                       /\ Good(value', asked)
         /\ ~Adds(u) => /\ value' = value
                        /\ Unlike(version[u]) => version[u] \in In(seen[u])
<1> DEFINE old == IF seen[u] = Absent THEN << >> ELSE seen[u]
<1>1. seen[u] \in Seq(Row) \cup {Absent} /\ Good(seen[u], asked)
  BY DEF TypeOK, ListInv, Requests
<1>2. old \in Seq(Row) /\ Good(old, asked) /\ In(old) = In(seen[u])
  BY <1>1, EmptyIsGood DEF In
<1>3. In(old) = VersionsOf(old)
  BY <1>2, ListIsNotAbsent
<1>4. ASSUME Adds(u)
      PROVE  /\ value' \in Seq(Row)
             /\ In(value') = In(seen[u]) \cup {version[u]}
             /\ Good(value', asked)
  <2>1. value' = Append(old, RowFor(u, old))
    BY <1>4 DEF Store
  <2>2. version[u] \notin VersionsOf(old)
    BY <1>2, <1>3, <1>4 DEF Adds, In, SameId
  <2> HIDE DEF old
  <2>3. /\ value' \in Seq(Row) /\ Good(value', asked)
        /\ VersionsOf(value') = VersionsOf(old) \cup {version[u]}
    BY <1>2, <2>1, <2>2, AppendIsGood
  <2>4. QED
    BY <1>2, <1>3, <2>3, ListIsNotAbsent
<1>5. ASSUME ~Adds(u)
      PROVE  /\ value' = value
             /\ Unlike(version[u]) => version[u] \in In(seen[u])
  <2>1. seen[u] \in Seq(Row) /\ In(seen[u]) = VersionsOf(seen[u])
    BY <1>1, <1>5 DEF Adds, In
  <2>2. PICK v \in VersionsOf(seen[u]) : SameId(version[u], v)
    BY <1>5 DEF Adds
  <2>3. v \in Version
    <3>1. PICK i \in DOMAIN seen[u] : v = seen[u][i].version
      BY <2>2 DEF VersionsOf
    <3>2. seen[u][i] \in Row
      BY <2>1, <3>1
    <3>3. QED
      BY <3>1, <3>2 DEF Row
  <2>4. QED
    BY <1>5, <2>1, <2>2, <2>3 DEF Store, Unlike
<1>6. QED
  BY <1>4, <1>5

LEMMA PutValue ==
  ASSUME TypeOK, ListInv, YankInv, NEW y \in Yanks, PutRemaining(y)
  PROVE  /\ value' \in Seq(Row)
         /\ In(value') = In(seen[y]) \ {version[y]}
         /\ Good(value', asked)
<1>1. pc[y] = "read" /\ value' = Remaining(seen[y], version[y])
  BY DEF PutRemaining
<1>2. seen[y] \in Seq(Row) /\ version[y] \in asked /\ Good(seen[y], asked)
  BY <1>1 DEF TypeOK, YankInv, ListInv, Requests
<1>3. QED
  BY <1>1, <1>2, RemainingIsGood
-----------------------------------------------------------------------------
(* Types.                                                                  *)

LEMMA TypeInit == Init => TypeOK
<1>1. SUFFICES ASSUME Init PROVE TypeOK
  OBVIOUS
<1>2. (CHOOSE v \in Version : TRUE) \in Version
  <2>1. PICK n \in Numbers : TRUE
    BY CompactAssumption
  <2>2. [number |-> n, platform |-> Ruby] \in Version
    BY CompactAssumption DEF Version
  <2>3. QED
    BY <2>2
<1>3. (CHOOSE b \in Builds : TRUE) \in Builds
  BY CompactAssumption
<1>4. QED
  BY <1>1, <1>2, <1>3 DEF Init, TypeOK, Requests

LEMMA OverwriteTypes ==
  ASSUME TypeOK, Overwrite
  PROVE  others' \in [Uploads -> 0 .. 2]
<1>1. \A u \in Uploads : others[u] \in 0 .. 2
  BY DEF TypeOK
<1>2. \A u \in Uploads : others[u] < 2 => others[u] + 1 \in 0 .. 2
  BY <1>1
<1>3. \A u \in Uploads :
        (IF pc[u] = "viewed" /\ others[u] < 2 THEN others[u] + 1 ELSE others[u])
            \in 0 .. 2
  BY <1>1, <1>2
<1>4. QED
  BY <1>3 DEF Overwrite

LEMMA UploadTypes ==
  ASSUME TypeOK, ListInv, NEW u \in Uploads,
         BeginUpdate(u) \/ View(u) \/ Decode(u) \/ Store(u) \/ FinishUpdate(u)
  PROVE  TypeOK'
<1>1. u \in Requests /\ u \notin Yanks /\ version[u] \in Version
  BY CompactAssumption DEF TypeOK, Requests
<1>2. CASE BeginUpdate(u)
  BY <1>1, <1>2 DEF BeginUpdate, GoTo, TypeOK, history
<1>3. CASE View(u)
  <2>1. seen' \in [Requests -> Seq(Row) \cup {Absent}]
    BY <1>1, <1>3 DEF View, TypeOK
  <2>2. \A y \in Yanks : pc'[y] = "read" => seen'[y] \in Seq(Row)
    BY <1>1, <1>3 DEF View, GoTo, TypeOK, Requests
  <2>3. others' \in [Uploads -> 0 .. 2]
    BY <1>3 DEF View, TypeOK
  <2>4. QED
    BY <1>1, <1>3, <2>1, <2>2, <2>3 DEF View, GoTo, TypeOK, history
<1>4. CASE Decode(u)
  <2>1. seen' \in [Requests -> Seq(Row) \cup {Absent}]
    BY <1>1, <1>4, EmptyIsGood DEF Decode, TypeOK
  <2>2. \A y \in Yanks : pc'[y] = "read" => seen'[y] \in Seq(Row)
    BY <1>1, <1>4 DEF Decode, GoTo, TypeOK, Requests
  <2>3. exposed' \subseteq Version
    BY <1>4 DEF Decode, TypeOK
  <2>4. QED
    BY <1>1, <1>4, <2>1, <2>2, <2>3 DEF Decode, GoTo, TypeOK
<1>5. CASE Store(u)
  <2>1. value' \in Seq(Row) \cup {Absent}
    BY <1>5, StoreValue DEF TypeOK
  <2>2. others' \in [Uploads -> 0 .. 2]
    <3>1. Overwrite \/ others' = others
      BY <1>5 DEF Store
    <3>2. QED
      BY <3>1, OverwriteTypes DEF TypeOK
  <2>3. /\ stored' \subseteq Version /\ withdrawn' \subseteq Version
        /\ exposed' \subseteq Version /\ gone' \subseteq Version
    BY <1>1, <1>5 DEF Store, TypeOK
  <2>4. pc' = [pc EXCEPT ![u] = "stored"]
    BY <1>5 DEF Store, GoTo
  <2>5. UNCHANGED <<lock, version, build, seen, acked, asked>>
    BY <1>5 DEF Store
  <2>6. QED
    BY <1>1, <2>1, <2>2, <2>3, <2>4, <2>5 DEF TypeOK
<1>6. CASE FinishUpdate(u)
  <2>1. \/ pc' = [pc EXCEPT ![u] = "answered"]
        \/ pc' = [pc EXCEPT ![u] = "failed"]
    BY <1>6 DEF FinishUpdate, GoTo
  <2>2. acked' \subseteq Version
    BY <1>1, <1>6 DEF FinishUpdate, TypeOK
  <2>3. lock' = Free
    BY <1>6 DEF FinishUpdate
  <2>4. UNCHANGED <<value, version, build, seen, others, stored, asked, withdrawn,
                    exposed, gone>>
    BY <1>6 DEF FinishUpdate
  <2>5. \A z \in Yanks : pc'[z] = pc[z]
    BY <1>1, <2>1 DEF TypeOK, Requests
  <2>6. pc' \in [Requests -> {"new", "begun", "viewed", "decoded", "stored",
                             "unindexed", "read", "answered", "notFound",
                             "failed", "lost"}]
    BY <2>1 DEF TypeOK
  <2>7. QED
    BY <2>2, <2>3, <2>4, <2>5, <2>6 DEF TypeOK
<1>7. QED
  BY <1>2, <1>3, <1>4, <1>5, <1>6

LEMMA YankTypes ==
  ASSUME TypeOK, ListInv, YankInv, NEW y \in Yanks,
         RemoveGemFromIndex(y) \/ GetGemVersions(y) \/ PutRemaining(y)
  PROVE  TypeOK'
<1>1. y \in Requests /\ version[y] \in Version
  BY DEF TypeOK, Requests
<1>2. CASE RemoveGemFromIndex(y)
  <2>1. version' \in [Requests -> Version] /\ version'[y] \in Version
    <3>1. PICK n \in Numbers, p \in Platforms \cup {Unset} :
            version' = [version EXCEPT ![y] =
                          [number |-> n, platform |-> IF p = Unset THEN Ruby ELSE p]]
      BY <1>2 DEF RemoveGemFromIndex
    <3>2. [number |-> n, platform |-> IF p = Unset THEN Ruby ELSE p] \in Version
      BY CompactAssumption DEF Version
    <3>3. QED
      BY <1>1, <3>1, <3>2 DEF TypeOK
  <2>2. asked' \subseteq Version /\ withdrawn' \subseteq Version
    BY <1>2, <2>1 DEF RemoveGemFromIndex, TypeOK
  <2>3. \/ pc' = [pc EXCEPT ![y] = "unindexed"]
        \/ pc' = [pc EXCEPT ![y] = "failed"]
    BY <1>2 DEF RemoveGemFromIndex, GoTo
  <2>4. UNCHANGED <<value, lock, build, seen, others, stored, acked, exposed, gone>>
    BY <1>2 DEF RemoveGemFromIndex
  <2>5. pc' \in [Requests -> {"new", "begun", "viewed", "decoded", "stored",
                             "unindexed", "read", "answered", "notFound",
                             "failed", "lost"}]
    BY <2>3 DEF TypeOK
  <2>6. \A z \in Yanks : pc'[z] = "read" => pc[z] = "read"
    BY <1>1, <2>3 DEF TypeOK, Requests
  <2>7. QED
    BY <2>1, <2>2, <2>4, <2>5, <2>6 DEF TypeOK
<1>3. CASE GetGemVersions(y)
  <2>1. (IF value = Absent THEN << >> ELSE value) \in Seq(Row)
    BY EmptyIsGood DEF TypeOK
  <2>2. /\ seen' \in [Requests -> Seq(Row) \cup {Absent}]
        /\ \A z \in Yanks : pc'[z] = "read" => seen'[z] \in Seq(Row)
    BY <1>1, <1>3, <2>1 DEF GetGemVersions, GoTo, TypeOK, Requests
  <2>3. QED
    BY <1>1, <1>3, <2>2 DEF GetGemVersions, GoTo, TypeOK, history
<1>4. CASE PutRemaining(y)
  <2>1. value' \in Seq(Row)
    BY <1>4, PutValue
  <2>2. others' \in [Uploads -> 0 .. 2]
    BY <1>4, OverwriteTypes DEF PutRemaining
  <2>3. gone' \subseteq Version
    BY <1>1, <1>4 DEF PutRemaining, TypeOK
  <2>4. \/ pc' = [pc EXCEPT ![y] = "answered"]
        \/ pc' = [pc EXCEPT ![y] = "notFound"]
    BY <1>4 DEF PutRemaining, GoTo
  <2>5. UNCHANGED <<lock, version, build, seen, stored, acked, asked, withdrawn,
                    exposed>>
    BY <1>4 DEF PutRemaining
  <2>6. pc' \in [Requests -> {"new", "begun", "viewed", "decoded", "stored",
                             "unindexed", "read", "answered", "notFound",
                             "failed", "lost"}]
    BY <2>4 DEF TypeOK
  <2>7. \A z \in Yanks : pc'[z] = "read" => pc[z] = "read"
    BY <1>1, <2>4 DEF TypeOK, Requests
  <2>8. QED
    BY <2>1, <2>2, <2>3, <2>5, <2>6, <2>7 DEF TypeOK
<1>5. QED
  BY <1>2, <1>3, <1>4

LEMMA TypeNext ==
  ASSUME TypeOK, ListInv, YankInv, [Next]_vars
  PROVE  TypeOK'
<1>1. CASE OtherWrite
  <2>1. others' \in [Uploads -> 0 .. 2]
    BY <1>1, OverwriteTypes DEF OtherWrite
  <2>2. QED
    BY <1>1, <2>1 DEF OtherWrite, TypeOK, history
<1>2. CASE Kill
  BY <1>2 DEF Kill, TypeOK, history, Requests
<1>3. CASE UNCHANGED vars
  BY <1>3 DEF TypeOK, vars, handlers, history
<1>4. QED
  BY <1>1, <1>2, <1>3, UploadTypes, YankTypes DEF Next
-----------------------------------------------------------------------------
(* The mutex, and the requests to yank.                                    *)

LEMMA LockNext ==
  ASSUME TypeOK, LockInv, [Next]_vars
  PROVE  LockInv'
<1>1. ASSUME NEW u \in Uploads, BeginUpdate(u) PROVE LockInv'
  BY <1>1, CompactAssumption DEF BeginUpdate, GoTo, LockInv, TypeOK, Requests
<1>2. ASSUME NEW u \in Uploads, View(u) \/ Decode(u) \/ Store(u) PROVE LockInv'
  <2>1. /\ pc[u] \in {"begun", "viewed", "decoded"} /\ lock' = lock
        /\ \A v \in Uploads \ {u} : pc'[v] = pc[v]
    BY <1>2 DEF View, Decode, Store, GoTo, TypeOK, Requests
  <2>2. QED
    BY <2>1 DEF LockInv
<1>3. ASSUME NEW u \in Uploads, FinishUpdate(u) PROVE LockInv'
  <2>1. /\ pc[u] = "stored" /\ pc'[u] \in {"answered", "failed"}
        /\ \A v \in Uploads \ {u} : pc'[v] = pc[v]
    BY <1>3 DEF FinishUpdate, GoTo, TypeOK, Requests
  <2>2. QED
    BY <2>1 DEF LockInv
<1>4. ASSUME NEW y \in Yanks,
             RemoveGemFromIndex(y) \/ GetGemVersions(y) \/ PutRemaining(y)
      PROVE  LockInv'
  <2>1. lock' = lock /\ \A v \in Uploads : pc'[v] = pc[v]
    BY <1>4, CompactAssumption
       DEF RemoveGemFromIndex, GetGemVersions, PutRemaining, GoTo, TypeOK, Requests
  <2>2. QED
    BY <2>1 DEF LockInv
<1>5. CASE Kill
  <2>1. \A u \in Uploads : pc'[u] \notin {"begun", "viewed", "decoded", "stored"}
    BY <1>5 DEF Kill, Requests
  <2>2. QED
    BY <2>1 DEF LockInv
<1>6. CASE OtherWrite \/ UNCHANGED vars
  BY <1>6 DEF OtherWrite, LockInv, vars, handlers
<1>7. QED
  BY <1>1, <1>2, <1>3, <1>4, <1>5, <1>6 DEF Next

LEMMA RoleNext ==
  ASSUME TypeOK, RoleInv, [Next]_vars
  PROVE  RoleInv'
<1>1. ASSUME NEW u \in Uploads,
             BeginUpdate(u) \/ View(u) \/ Decode(u) \/ Store(u) \/ FinishUpdate(u)
      PROVE  RoleInv'
  <2>1. /\ \A r \in Requests \ {u} : pc'[r] = pc[r]
        /\ pc'[u] \in {"begun", "viewed", "decoded", "stored", "answered", "failed"}
    BY <1>1 DEF BeginUpdate, View, Decode, Store, FinishUpdate, GoTo, TypeOK, Requests
  <2>2. u \notin Yanks
    BY CompactAssumption
  <2>3. QED
    BY <2>1, <2>2 DEF RoleInv, Requests
<1>2. ASSUME NEW y \in Yanks,
             RemoveGemFromIndex(y) \/ GetGemVersions(y) \/ PutRemaining(y)
      PROVE  RoleInv'
  <2>1. \A r \in Requests \ {y} : pc'[r] = pc[r]
    BY <1>2 DEF RemoveGemFromIndex, GetGemVersions, PutRemaining, GoTo, TypeOK, Requests
  <2>2. pc'[y] \in {"unindexed", "failed", "read", "answered", "notFound"}
    BY <1>2 DEF RemoveGemFromIndex, GetGemVersions, PutRemaining, GoTo, TypeOK, Requests
  <2>3. y \notin Uploads
    BY CompactAssumption
  <2>4. QED
    BY <2>1, <2>2, <2>3 DEF RoleInv, Requests
<1>3. CASE OtherWrite \/ Kill \/ UNCHANGED vars
  <2>1. \A r \in Requests : pc'[r] = pc[r] \/ pc'[r] = "lost"
    BY <1>3 DEF OtherWrite, Kill, vars, handlers
  <2>2. QED
    BY <2>1 DEF RoleInv, Requests
<1>4. QED
  BY <1>1, <1>2, <1>3 DEF Next

LEMMA YankNext ==
  ASSUME TypeOK, YankInv, [Next]_vars
  PROVE  YankInv'
<1>1. ASSUME NEW u \in Uploads,
             BeginUpdate(u) \/ View(u) \/ Decode(u) \/ FinishUpdate(u)
      PROVE  YankInv'
  <2>1. /\ \A y \in Yanks : pc'[y] = pc[y] /\ version'[y] = version[y]
        /\ UNCHANGED <<withdrawn, asked>>
    BY <1>1, CompactAssumption
       DEF BeginUpdate, View, Decode, FinishUpdate, GoTo, TypeOK, Requests, history
  <2>2. QED
    BY <2>1 DEF YankInv
<1>2. ASSUME NEW u \in Uploads, Store(u) PROVE YankInv'
  <2>1. /\ \A y \in Yanks : pc'[y] = pc[y] /\ version'[y] = version[y]
        /\ asked' = asked
    BY <1>2, CompactAssumption DEF Store, GoTo, TypeOK, Requests
  <2>2. ASSUME NEW y \in Yanks, pc[y] \in {"unindexed", "read"}
        PROVE  version[y] \in withdrawn'
    <3>1. version[y] \in withdrawn
      BY <2>2 DEF YankInv
    <3>2. CASE version[y] = version[u]
      BY <1>2, <2>2, <3>1, <3>2 DEF Store
    <3>3. CASE version[y] # version[u]
      BY <1>2, <3>1, <3>3 DEF Store
    <3>4. QED
      BY <3>2, <3>3
  <2>3. QED
    BY <2>1, <2>2 DEF YankInv
<1>3. ASSUME NEW y \in Yanks, RemoveGemFromIndex(y) PROVE YankInv'
  <2>1. \A z \in Yanks \ {y} : pc'[z] = pc[z] /\ version'[z] = version[z]
    BY <1>3 DEF RemoveGemFromIndex, GoTo, TypeOK, Requests
  <2>2. withdrawn \subseteq withdrawn' /\ asked \subseteq asked'
    BY <1>3 DEF RemoveGemFromIndex
  <2>3. \/ pc'[y] = "failed"
        \/ version'[y] \in withdrawn' /\ version'[y] \in asked'
    BY <1>3 DEF RemoveGemFromIndex, GoTo, TypeOK, Requests
  <2>4. QED
    BY <2>1, <2>2, <2>3 DEF YankInv
<1>4. ASSUME NEW y \in Yanks, GetGemVersions(y) \/ PutRemaining(y) PROVE YankInv'
  <2>1. /\ pc[y] \in {"unindexed", "read"}
        /\ \A z \in Yanks \ {y} : pc'[z] = pc[z]
        /\ UNCHANGED <<version, withdrawn, asked>>
    BY <1>4 DEF GetGemVersions, PutRemaining, GoTo, TypeOK, Requests, history
  <2>2. QED
    BY <2>1 DEF YankInv
<1>5. CASE Kill
  <2>1. \A y \in Yanks : pc'[y] \notin {"unindexed", "read"}
    BY <1>5 DEF Kill, Requests
  <2>2. QED
    BY <2>1 DEF YankInv
<1>6. CASE OtherWrite \/ UNCHANGED vars
  BY <1>6 DEF OtherWrite, YankInv, vars, handlers, history
<1>7. QED
  BY <1>1, <1>2, <1>3, <1>4, <1>5, <1>6 DEF Next
-----------------------------------------------------------------------------
(* What a request holds after each of its steps.                           *)

LEMMA Steps ==
  ASSUME TypeOK
  PROVE  /\ \A u \in Uploads : View(u) =>
               /\ seen'[u] = value /\ pc'[u] = "viewed"
               /\ \A r \in Requests \ {u} : seen'[r] = seen[r] /\ pc'[r] = pc[r]
         /\ \A u \in Uploads : Decode(u) =>
               /\ seen'[u] = seen[u] \/ (seen'[u] = << >> /\ stored \subseteq exposed')
               /\ pc[u] = "viewed" /\ pc'[u] = "decoded"
               /\ \A r \in Requests \ {u} : seen'[r] = seen[r] /\ pc'[r] = pc[r]
         /\ \A y \in Yanks : GetGemVersions(y) =>
               /\ seen'[y] = value \/ (seen'[y] = << >> /\ value = Absent)
               /\ pc'[y] = "read"
               /\ \A r \in Requests \ {y} : seen'[r] = seen[r] /\ pc'[r] = pc[r]
<1>1. ASSUME NEW u \in Uploads, View(u)
      PROVE  /\ seen'[u] = value /\ pc'[u] = "viewed"
             /\ \A r \in Requests \ {u} : seen'[r] = seen[r] /\ pc'[r] = pc[r]
  BY <1>1 DEF View, GoTo, TypeOK, Requests
<1>2. ASSUME NEW u \in Uploads, Decode(u)
      PROVE  /\ seen'[u] = seen[u] \/ (seen'[u] = << >> /\ stored \subseteq exposed')
             /\ pc[u] = "viewed" /\ pc'[u] = "decoded"
             /\ \A r \in Requests \ {u} : seen'[r] = seen[r] /\ pc'[r] = pc[r]
  <2>1. /\ pc[u] = "viewed" /\ pc'[u] = "decoded"
        /\ \A r \in Requests \ {u} : seen'[r] = seen[r] /\ pc'[r] = pc[r]
    BY <1>2 DEF Decode, GoTo, TypeOK, Requests
  <2>2. seen'[u] = seen[u] \/ (seen'[u] = << >> /\ others[u] = 2)
    BY <1>2 DEF Decode, TypeOK, Requests
  <2>3. others[u] = 2 => stored \subseteq exposed'
    BY <1>2 DEF Decode
  <2>4. QED
    BY <2>1, <2>2, <2>3
<1>3. ASSUME NEW y \in Yanks, GetGemVersions(y)
      PROVE  /\ seen'[y] = value \/ (seen'[y] = << >> /\ value = Absent)
             /\ pc'[y] = "read"
             /\ \A r \in Requests \ {y} : seen'[r] = seen[r] /\ pc'[r] = pc[r]
  BY <1>3 DEF GetGemVersions, GoTo, TypeOK, Requests
<1>4. QED
  BY <1>1, <1>2, <1>3

LEMMA EmptyAndAbsent == In(<< >>) = {} /\ In(Absent) = {}
  BY EmptyIsGood DEF In

LEMMA ListNext ==
  ASSUME TypeOK, ListInv, YankInv, [Next]_vars
  PROVE  ListInv'
<1>1. ASSUME UNCHANGED <<value, seen>>, asked \subseteq asked' PROVE ListInv'
  <2>1. Good(value, asked') /\ \A r \in Requests : Good(seen[r], asked')
    BY <1>1, GoodGrows DEF ListInv
  <2>2. QED
    BY <1>1, <2>1 DEF ListInv
<1>2. ASSUME NEW u \in Uploads, BeginUpdate(u) \/ FinishUpdate(u) PROVE ListInv'
  BY <1>1, <1>2 DEF BeginUpdate, FinishUpdate, history
<1>3. ASSUME NEW u \in Uploads, View(u) PROVE ListInv'
  <2>1. UNCHANGED <<value, asked>>
    BY <1>3 DEF View, history
  <2>2. \A r \in Requests : Good(seen'[r], asked)
    BY <1>3, Steps DEF ListInv
  <2>3. QED
    BY <2>1, <2>2 DEF ListInv
<1>4. ASSUME NEW u \in Uploads, Decode(u) PROVE ListInv'
  <2>1. UNCHANGED <<value, asked>>
    BY <1>4 DEF Decode
  <2>2. \A r \in Requests : Good(seen'[r], asked)
    BY <1>4, Steps, EmptyIsGood DEF ListInv
  <2>3. QED
    BY <2>1, <2>2 DEF ListInv
<1>5. ASSUME NEW u \in Uploads, Store(u) PROVE ListInv'
  <2>1. UNCHANGED <<seen, asked>>
    BY <1>5 DEF Store
  <2>2. Good(value', asked)
    BY <1>5, StoreValue DEF ListInv
  <2>3. QED
    BY <2>1, <2>2 DEF ListInv
<1>6. ASSUME NEW y \in Yanks, RemoveGemFromIndex(y) PROVE ListInv'
  BY <1>1, <1>6 DEF RemoveGemFromIndex
<1>7. ASSUME NEW y \in Yanks, GetGemVersions(y) PROVE ListInv'
  <2>1. UNCHANGED <<value, asked>>
    BY <1>7 DEF GetGemVersions, history
  <2>2. \A r \in Requests : Good(seen'[r], asked)
    BY <1>7, Steps, EmptyIsGood DEF ListInv
  <2>3. QED
    BY <2>1, <2>2 DEF ListInv
<1>8. ASSUME NEW y \in Yanks, PutRemaining(y) PROVE ListInv'
  <2>1. UNCHANGED <<seen, asked>>
    BY <1>8 DEF PutRemaining
  <2>2. Good(value', asked)
    BY <1>8, PutValue
  <2>3. QED
    BY <2>1, <2>2 DEF ListInv
<1>9. CASE OtherWrite \/ Kill \/ UNCHANGED vars
  BY <1>1, <1>9 DEF OtherWrite, Kill, vars, handlers, history
<1>10. QED
  BY <1>2, <1>3, <1>4, <1>5, <1>6, <1>7, <1>8, <1>9 DEF Next

LEMMA StoredNext ==
  ASSUME TypeOK, ListInv, YankInv, StoredInv, [Next]_vars
  PROVE  StoredInv'
<1>1. ASSUME UNCHANGED <<value, stored, acked, version>>,
             \A r \in Requests : In(seen'[r]) \subseteq stored,
             \A u \in Uploads : pc'[u] = "stored" => pc[u] = "stored"
      PROVE  StoredInv'
  BY <1>1 DEF StoredInv
<1>2. ASSUME NEW u \in Uploads, View(u) \/ Decode(u) PROVE StoredInv'
  <2>1. UNCHANGED <<value, stored, acked, version>>
    BY <1>2 DEF View, Decode, history
  <2>2. \A r \in Requests : In(seen'[r]) \subseteq stored
    BY <1>2, Steps, EmptyAndAbsent DEF StoredInv, Requests
  <2>3. \A v \in Uploads : pc'[v] = "stored" => pc[v] = "stored"
    BY <1>2, Steps DEF Requests
  <2>4. QED
    BY <1>1, <2>1, <2>2, <2>3
<1>3. ASSUME NEW u \in Uploads, BeginUpdate(u) PROVE StoredInv'
  <2>1. UNCHANGED <<value, stored, acked, seen>>
    BY <1>3 DEF BeginUpdate, history
  <2>2. \A v \in Uploads : pc'[v] = "stored" => v # u /\ pc[v] = "stored"
    BY <1>3 DEF BeginUpdate, GoTo, TypeOK, Requests
  <2>3. \A v \in Uploads : v # u => version'[v] = version[v]
    BY <1>3 DEF BeginUpdate, TypeOK, Requests
  <2>4. QED
    BY <2>1, <2>2, <2>3 DEF StoredInv
<1>4. ASSUME NEW u \in Uploads, Store(u) PROVE StoredInv'
  <2>1. stored' = stored \cup {version[u]} /\ UNCHANGED <<seen, version, acked>>
    BY <1>4 DEF Store
  <2>2. In(value') \subseteq stored'
    BY <1>4, <2>1, StoreValue DEF StoredInv, Requests
  <2>3. \A v \in Uploads : pc'[v] = "stored" => v = u \/ pc[v] = "stored"
    BY <1>4 DEF Store, GoTo, TypeOK, Requests
  <2>4. QED
    BY <2>1, <2>2, <2>3 DEF StoredInv
<1>5. ASSUME NEW u \in Uploads, FinishUpdate(u) PROVE StoredInv'
  <2>1. UNCHANGED <<value, seen, version, stored>>
    BY <1>5 DEF FinishUpdate
  <2>2. acked' \subseteq acked \cup {version[u]} /\ pc[u] = "stored"
    BY <1>5 DEF FinishUpdate
  <2>3. \A v \in Uploads : pc'[v] = "stored" => pc[v] = "stored"
    BY <1>5 DEF FinishUpdate, GoTo, TypeOK, Requests
  <2>4. QED
    BY <2>1, <2>2, <2>3 DEF StoredInv
<1>6. ASSUME NEW y \in Yanks, RemoveGemFromIndex(y) PROVE StoredInv'
  <2>1. UNCHANGED <<value, seen, stored, acked>>
    BY <1>6 DEF RemoveGemFromIndex
  <2>2. \A v \in Uploads : pc'[v] = pc[v] /\ version'[v] = version[v]
    BY <1>6, CompactAssumption DEF RemoveGemFromIndex, GoTo, TypeOK, Requests
  <2>3. QED
    BY <2>1, <2>2 DEF StoredInv
<1>7. ASSUME NEW y \in Yanks, GetGemVersions(y) PROVE StoredInv'
  <2>1. UNCHANGED <<value, stored, acked, version>>
    BY <1>7 DEF GetGemVersions, history
  <2>2. \A r \in Requests : In(seen'[r]) \subseteq stored
    BY <1>7, Steps, EmptyAndAbsent DEF StoredInv, Requests
  <2>3. \A v \in Uploads : pc'[v] = pc[v]
    BY <1>7, Steps, CompactAssumption DEF Requests
  <2>4. QED
    BY <1>1, <2>1, <2>2, <2>3
<1>8. ASSUME NEW y \in Yanks, PutRemaining(y) PROVE StoredInv'
  <2>1. UNCHANGED <<seen, stored, acked, version>>
    BY <1>8 DEF PutRemaining
  <2>2. In(value') \subseteq stored
    BY <1>8, PutValue DEF StoredInv, Requests
  <2>3. \A v \in Uploads : pc'[v] = pc[v]
    BY <1>8, CompactAssumption DEF PutRemaining, GoTo, TypeOK, Requests
  <2>4. QED
    BY <2>1, <2>2, <2>3 DEF StoredInv
<1>9. CASE OtherWrite \/ Kill \/ UNCHANGED vars
  <2>1. UNCHANGED <<value, seen, stored, acked, version>>
    BY <1>9 DEF OtherWrite, Kill, vars, handlers, history
  <2>2. \A v \in Uploads : pc'[v] = "stored" => pc[v] = "stored"
    BY <1>9 DEF OtherWrite, Kill, vars, handlers, Requests
  <2>3. QED
    BY <2>1, <2>2 DEF StoredInv
<1>10. QED
  BY <1>2, <1>3, <1>4, <1>5, <1>6, <1>7, <1>8, <1>9 DEF Next
-----------------------------------------------------------------------------
(* What must not be lost, and what must not come back.                     *)

\* Steps that neither write the list nor read it.
LEMMA Idle ==
  ASSUME TypeOK, [Next]_vars,
         \A u \in Uploads : ~View(u) /\ ~Decode(u) /\ ~Store(u),
         \A y \in Yanks : ~GetGemVersions(y) /\ ~PutRemaining(y)
  PROVE  /\ UNCHANGED <<value, seen, stored, exposed, gone>>
         /\ withdrawn \subseteq withdrawn'
         /\ \A r \in Requests : InFlight(pc'[r]) => InFlight(pc[r])
<1>1. ASSUME NEW u \in Uploads, BeginUpdate(u) \/ FinishUpdate(u)
      PROVE  /\ UNCHANGED <<value, seen, stored, exposed, gone, withdrawn>>
             /\ \A r \in Requests : InFlight(pc'[r]) => InFlight(pc[r])
  <2>1. UNCHANGED <<value, seen, stored, exposed, gone, withdrawn>>
    BY <1>1 DEF BeginUpdate, FinishUpdate, history
  <2>2. /\ \A r \in Requests \ {u} : pc'[r] = pc[r]
        /\ pc'[u] \in {"begun", "answered", "failed"}
    BY <1>1 DEF BeginUpdate, FinishUpdate, GoTo, TypeOK, Requests
  <2>3. QED
    BY <2>1, <2>2 DEF InFlight
<1>2. ASSUME NEW y \in Yanks, RemoveGemFromIndex(y)
      PROVE  /\ UNCHANGED <<value, seen, stored, exposed, gone>>
             /\ withdrawn \subseteq withdrawn'
             /\ \A r \in Requests : InFlight(pc'[r]) => InFlight(pc[r])
  <2>1. UNCHANGED <<value, seen, stored, exposed, gone>>
    BY <1>2 DEF RemoveGemFromIndex
  <2>2. withdrawn \subseteq withdrawn'
    BY <1>2 DEF RemoveGemFromIndex
  <2>3. /\ \A r \in Requests \ {y} : pc'[r] = pc[r]
        /\ pc'[y] \in {"unindexed", "failed"}
    BY <1>2 DEF RemoveGemFromIndex, GoTo, TypeOK, Requests
  <2>4. QED
    BY <2>1, <2>2, <2>3 DEF InFlight
<1>3. CASE OtherWrite \/ Kill \/ UNCHANGED vars
  <2>1. UNCHANGED <<value, seen, stored, exposed, gone, withdrawn>>
    BY <1>3 DEF OtherWrite, Kill, vars, handlers, history
  <2>2. \A r \in Requests : pc'[r] = pc[r] \/ pc'[r] = "lost"
    BY <1>3 DEF OtherWrite, Kill, vars, handlers
  <2>3. QED
    BY <2>1, <2>2 DEF InFlight
<1>4. QED
  BY <1>1, <1>2, <1>3 DEF Next

\* While one upload is between its read and its write, every other request that
\* is so is a yank.
LEMMA OneUpload ==
  ASSUME LockInv, RoleInv, NEW u \in Uploads, NEW r \in Requests,
         pc[u] \in {"viewed", "decoded"}, r # u, InFlight(pc[r])
  PROVE  r \in Yanks /\ pc[r] = "read"
<1>1. CASE r \in Uploads
  BY <1>1 DEF LockInv, RoleInv, InFlight
<1>2. CASE r \in Yanks
  BY <1>2 DEF RoleInv, InFlight
<1>3. QED
  BY <1>1, <1>2 DEF Requests

LEMMA KeptNext ==
  ASSUME IInv, [Next]_vars
  PROVE  KeptInv'
<1>1. /\ TypeOK /\ LockInv /\ RoleInv /\ ListInv
      /\ StoredInv /\ YankInv /\ KeptInv
  BY DEF IInv
<1>2. ASSUME NEW u \in Uploads, View(u) PROVE KeptInv'
  <2>1. UNCHANGED <<value, stored, withdrawn, exposed>>
    BY <1>2 DEF View, history
  <2>2. QED
    BY <1>1, <1>2, <2>1, Steps DEF KeptInv, Kept, InFlight
<1>3. ASSUME NEW u \in Uploads, Decode(u) PROVE KeptInv'
  <2>1. UNCHANGED <<value, stored, withdrawn>> /\ exposed \subseteq exposed'
    BY <1>3 DEF Decode
  <2>2. Kept' \subseteq Kept
    BY <2>1 DEF Kept
  <2>3. seen'[u] = seen[u] \/ Kept' = {}
    BY <1>1, <1>3, <2>1, Steps DEF Kept
  <2>4. InFlight(pc[u])
    BY <1>1, <1>3, Steps DEF InFlight
  <2>5. \A r \in Requests \ {u} : seen'[r] = seen[r] /\ pc'[r] = pc[r]
    BY <1>1, <1>3, Steps
  <2>6. QED
    BY <1>1, <2>1, <2>2, <2>3, <2>4, <2>5 DEF KeptInv, Requests
<1>4. ASSUME NEW u \in Uploads, Store(u) PROVE KeptInv'
  <2>1. /\ pc[u] = "decoded" /\ pc'[u] = "stored" /\ u \in Requests
        /\ \A r \in Requests \ {u} : pc'[r] = pc[r]
        /\ UNCHANGED <<seen, version>>
        /\ stored' = stored \cup {version[u]}
    BY <1>1, <1>4 DEF Store, GoTo, TypeOK, Requests
  <2>2. Kept \subseteq In(seen[u]) /\ In(seen[u]) \subseteq stored
    BY <1>1, <2>1 DEF KeptInv, InFlight, StoredInv
  <2>3. Kept' \subseteq Kept \cup {version[u]}
    BY <1>4, <2>1 DEF Kept, Store, Unlike
  <2>4. CASE Adds(u)
    <3>1. In(value') = In(seen[u]) \cup {version[u]}
      BY <1>1, <1>4, <2>4, StoreValue
    <3>2. ASSUME NEW r \in Requests, InFlight(pc'[r])
          PROVE  Kept' \subseteq In(seen'[r])
      <4>1. r # u /\ InFlight(pc[r])
        BY <2>1, <3>2 DEF InFlight
      <4>2. pc[r] = "read" /\ r \in Yanks
        BY <1>1, <2>1, <4>1, OneUpload
      <4>3. version[u] \in exposed'
        BY <1>4, <2>4, <4>2 DEF Store, Reading
      <4>4. Kept' \subseteq Kept
        BY <2>3, <4>3 DEF Kept
      <4>5. QED
        BY <1>1, <2>1, <4>1, <4>4 DEF KeptInv
    <3>3. Kept' \subseteq In(value')
      BY <2>2, <2>3, <3>1
    <3>4. QED
      BY <3>2, <3>3 DEF KeptInv
  <2>5. CASE ~Adds(u)
    <3>1. value' = value /\ (Unlike(version[u]) => version[u] \in stored)
      BY <1>1, <1>4, <2>2, <2>5, StoreValue
    <3>2. withdrawn' = withdrawn /\ exposed \subseteq exposed'
      BY <1>4, <2>5 DEF Store
    <3>3. Kept' \subseteq Kept
      BY <2>1, <3>1, <3>2 DEF Kept, Unlike
    <3>4. \A r \in Requests : InFlight(pc'[r]) => InFlight(pc[r])
      BY <2>1 DEF InFlight
    <3>5. QED
      BY <1>1, <2>1, <3>1, <3>3, <3>4 DEF KeptInv
  <2>6. QED
    BY <2>4, <2>5
<1>5. ASSUME NEW y \in Yanks, GetGemVersions(y) PROVE KeptInv'
  <2>1. UNCHANGED <<value, stored, withdrawn, exposed>>
    BY <1>5 DEF GetGemVersions, history
  <2>2. In(seen'[y]) = In(value)
    BY <1>1, <1>5, Steps, EmptyAndAbsent
  <2>3. \A r \in Requests \ {y} : seen'[r] = seen[r] /\ pc'[r] = pc[r]
    BY <1>1, <1>5, Steps
  <2>4. QED
    BY <1>1, <2>1, <2>2, <2>3 DEF KeptInv, Kept
<1>6. ASSUME NEW y \in Yanks, PutRemaining(y) PROVE KeptInv'
  <2>1. /\ pc[y] = "read" /\ pc'[y] \in {"answered", "notFound"}
        /\ \A r \in Requests \ {y} : pc'[r] = pc[r]
        /\ UNCHANGED <<seen, stored, withdrawn, exposed>>
    BY <1>1, <1>6 DEF PutRemaining, GoTo, TypeOK, Requests
  <2>2. In(value') = In(seen[y]) \ {version[y]}
    BY <1>1, <1>6, PutValue
  <2>3. version[y] \in withdrawn
    BY <1>1, <2>1 DEF YankInv
  <2>4. Kept \subseteq In(seen[y])
    BY <1>1, <2>1 DEF KeptInv, InFlight, Requests
  <2>5. Kept' = Kept /\ Kept \subseteq In(value')
    BY <2>1, <2>2, <2>3, <2>4 DEF Kept
  <2>6. \A r \in Requests : InFlight(pc'[r]) => InFlight(pc[r])
    BY <2>1 DEF InFlight
  <2>7. QED
    BY <1>1, <2>1, <2>5, <2>6 DEF KeptInv
<1>7. CASE /\ \A u \in Uploads : ~View(u) /\ ~Decode(u) /\ ~Store(u)
           /\ \A y \in Yanks : ~GetGemVersions(y) /\ ~PutRemaining(y)
  <2>1. /\ UNCHANGED <<value, seen, stored, exposed, gone>>
        /\ withdrawn \subseteq withdrawn'
        /\ \A r \in Requests : InFlight(pc'[r]) => InFlight(pc[r])
    BY <1>1, <1>7, Idle
  <2>2. Kept' \subseteq Kept
    BY <2>1 DEF Kept
  <2>3. QED
    BY <1>1, <2>1, <2>2 DEF KeptInv
<1>8. QED
  BY <1>2, <1>3, <1>4, <1>5, <1>6, <1>7

LEMMA GoneNext ==
  ASSUME IInv, [Next]_vars
  PROVE  GoneInv'
<1>1. TypeOK /\ RoleInv /\ ListInv /\ YankInv /\ GoneInv
  BY DEF IInv
<1>2. ASSUME NEW u \in Uploads, View(u) PROVE GoneInv'
  <2>1. UNCHANGED <<value, gone>>
    BY <1>2 DEF View, history
  <2>2. QED
    BY <1>1, <1>2, <2>1, Steps DEF GoneInv
<1>3. ASSUME NEW u \in Uploads, Decode(u) PROVE GoneInv'
  <2>1. UNCHANGED <<value, gone>>
    BY <1>3 DEF Decode
  <2>2. In(seen'[u]) \subseteq In(seen[u]) /\ InFlight(pc[u])
    BY <1>1, <1>3, Steps, EmptyAndAbsent DEF InFlight
  <2>3. \A r \in Requests \ {u} : seen'[r] = seen[r] /\ pc'[r] = pc[r]
    BY <1>1, <1>3, Steps
  <2>4. QED
    BY <1>1, <2>1, <2>2, <2>3 DEF GoneInv, Requests
<1>4. ASSUME NEW u \in Uploads, Store(u) PROVE GoneInv'
  <2>1. /\ pc[u] = "decoded" /\ pc'[u] = "stored" /\ u \in Requests
        /\ \A r \in Requests \ {u} : pc'[r] = pc[r]
        /\ UNCHANGED seen
    BY <1>1, <1>4 DEF Store, GoTo, TypeOK, Requests
  <2>2. gone' \subseteq gone /\ gone \cap In(seen[u]) = {}
    BY <1>1, <1>4, <2>1 DEF Store, GoneInv, InFlight
  <2>3. gone' \cap In(value') = {}
    <3>1. CASE Adds(u)
      <4>1. In(value') = In(seen[u]) \cup {version[u]}
        BY <1>1, <1>4, <3>1, StoreValue
      <4>2. version[u] \notin gone'
        BY <1>4, <3>1 DEF Store
      <4>3. QED
        BY <2>2, <4>1, <4>2
    <3>2. CASE ~Adds(u)
      <4>1. value' = value
        BY <1>4, <3>2 DEF Store
      <4>2. QED
        BY <1>1, <2>2, <4>1 DEF GoneInv
    <3>3. QED
      BY <3>1, <3>2
  <2>4. \A r \in Requests : InFlight(pc'[r]) => InFlight(pc[r])
    BY <2>1 DEF InFlight
  <2>5. QED
    BY <1>1, <2>1, <2>2, <2>3, <2>4 DEF GoneInv
<1>5. ASSUME NEW y \in Yanks, GetGemVersions(y) PROVE GoneInv'
  <2>1. UNCHANGED <<value, gone>>
    BY <1>5 DEF GetGemVersions, history
  <2>2. In(seen'[y]) = In(value)
    BY <1>1, <1>5, Steps, EmptyAndAbsent
  <2>3. \A r \in Requests \ {y} : seen'[r] = seen[r] /\ pc'[r] = pc[r]
    BY <1>1, <1>5, Steps
  <2>4. QED
    BY <1>1, <2>1, <2>2, <2>3 DEF GoneInv
<1>6. ASSUME NEW y \in Yanks, PutRemaining(y) PROVE GoneInv'
  <2>1. /\ pc[y] = "read" /\ pc'[y] \in {"answered", "notFound"}
        /\ \A r \in Requests \ {y} : pc'[r] = pc[r]
        /\ seen' = seen
    BY <1>1, <1>6 DEF PutRemaining, GoTo, TypeOK, Requests
  <2>2. In(value') = In(seen[y]) \ {version[y]}
    BY <1>1, <1>6, PutValue
  <2>3. gone \cap In(seen[y]) = {}
    BY <1>1, <2>1 DEF GoneInv, InFlight, Requests
  <2>4. gone' \subseteq gone \cup {version[y]}
    BY <1>6 DEF PutRemaining
  <2>5. gone' \cap In(value') = {}
    BY <2>2, <2>3, <2>4
  <2>6. ASSUME NEW r \in Requests, InFlight(pc'[r])
        PROVE  gone' \cap In(seen'[r]) = {}
    <3>1. r # y /\ InFlight(pc[r])
      BY <2>1, <2>6 DEF InFlight
    <3>2. gone' \subseteq gone
      <4>1. CASE r \in Uploads
        <5>1. pc[r] \in {"viewed", "decoded"}
          BY <1>1, <3>1, <4>1 DEF RoleInv, InFlight
        <5>2. QED
          BY <1>6, <4>1, <5>1 DEF PutRemaining
      <4>2. CASE r \in Yanks
        <5>1. Reading(r) /\ r \in Yanks \ {y}
          BY <1>1, <3>1, <4>2 DEF RoleInv, InFlight, Reading
        <5>2. QED
          BY <1>6, <5>1 DEF PutRemaining
      <4>3. QED
        BY <4>1, <4>2 DEF Requests
    <3>3. QED
      BY <1>1, <2>1, <3>1, <3>2 DEF GoneInv
  <2>7. QED
    BY <2>5, <2>6 DEF GoneInv
<1>7. CASE /\ \A u \in Uploads : ~View(u) /\ ~Decode(u) /\ ~Store(u)
           /\ \A y \in Yanks : ~GetGemVersions(y) /\ ~PutRemaining(y)
  BY <1>1, <1>7, Idle DEF GoneInv
<1>8. QED
  BY <1>2, <1>3, <1>4, <1>5, <1>6, <1>7
-----------------------------------------------------------------------------
LEMMA IInvInit == Init => IInv
<1>1. SUFFICES ASSUME Init PROVE IInv
  OBVIOUS
<1>2. /\ LockInv /\ RoleInv /\ YankInv
  BY <1>1 DEF Init, LockInv, RoleInv, YankInv, Requests
<1>3. ListInv
  BY <1>1 DEF Init, ListInv, Good
<1>4. StoredInv /\ KeptInv /\ GoneInv
  BY <1>1 DEF Init, StoredInv, KeptInv, Kept, GoneInv, InFlight, In, Requests
<1>5. QED
  BY <1>1, <1>2, <1>3, <1>4, TypeInit DEF IInv

LEMMA IInvNext == IInv /\ [Next]_vars => IInv'
<1>1. SUFFICES ASSUME IInv, [Next]_vars PROVE IInv'
  OBVIOUS
<1>2. TypeOK /\ LockInv /\ RoleInv /\ ListInv /\ StoredInv /\ YankInv
  BY <1>1 DEF IInv
<1>3. TypeOK' /\ LockInv' /\ RoleInv' /\ ListInv' /\ StoredInv' /\ YankInv'
  BY <1>1, <1>2, TypeNext, LockNext, RoleNext, ListNext, StoredNext, YankNext
<1>4. KeptInv' /\ GoneInv'
  BY <1>1, KeptNext, GoneNext
<1>5. QED
  BY <1>3, <1>4 DEF IInv

\* Every variable keeps its type: no upload and no yank ever stores anything but
\* a list of rows.
THEOREM CompactTypeCorrect == Spec => []TypeOK
<1>1. Init => IInv
  BY IInvInit
<1>2. IInv /\ [Next]_vars => IInv'
  BY IInvNext
<1>3. IInv => TypeOK
  BY DEF IInv
<1>4. QED
  BY <1>1, <1>2, <1>3, PTL DEF Spec

\* No version is listed twice, whatever uploads, yanks and kills overlap.
THEOREM VersionsAreOnce == Spec => []EachVersionOnce
<1>1. Init => IInv
  BY IInvInit
<1>2. IInv /\ [Next]_vars => IInv'
  BY IInvNext
<1>3. IInv => EachVersionOnce
  BY DEF IInv, ListInv, Good, Once, EachVersionOnce
<1>4. QED
  BY <1>1, <1>2, <1>3, PTL DEF Spec

\* A stored checksum is of what is listed up to its row, and of what was yanked.
THEOREM ChecksumsCover == Spec => []ChecksumCoversInfo
<1>1. Init => IInv
  BY IInvInit
<1>2. IInv /\ [Next]_vars => IInv'
  BY IInvNext
<1>3. IInv => ChecksumCoversInfo
  BY DEF IInv, ListInv, Good, Covers, ChecksumCoversInfo
<1>4. QED
  BY <1>1, <1>2, <1>3, PTL DEF Spec

\* What was acknowledged is listed, but for the named ways to lose it.
THEOREM AckedAreListed == Spec => []AckedIsListed
<1>1. Init => IInv
  BY IInvInit
<1>2. IInv /\ [Next]_vars => IInv'
  BY IInvNext
<1>3. IInv => AckedIsListed
  BY DEF IInv, StoredInv, KeptInv, Kept, In, Listed, AckedIsListed
<1>4. QED
  BY <1>1, <1>2, <1>3, PTL DEF Spec

\* What an undisturbed yank removed does not come back by itself.
THEOREM YankedStayOut == Spec => []YankedStaysOut
<1>1. Init => IInv
  BY IInvInit
<1>2. IInv /\ [Next]_vars => IInv'
  BY IInvNext
<1>3. IInv => YankedStaysOut
  BY DEF IInv, GoneInv, In, Listed, YankedStaysOut
<1>4. QED
  BY <1>1, <1>2, <1>3, PTL DEF Spec
-----------------------------------------------------------------------------
(* What nobody yanks from is a registry.                                   *)

(* The files that uploads brought, and the versions that are listed.       *)
Delivered ==
    {[gem |-> version[u], checksum |-> build[u]] : u \in {v \in Uploads : pc[v] # "new"}}
Catalogue ==
    IF value = Absent THEN {}
    ELSE {[gem |-> value[i].version, checksum |-> value[i].build] : i \in DOMAIN value}
Registry ==
    INSTANCE GemRegistry
    WITH Gems <- Version, delivered <- Delivered, catalogue <- Catalogue

(* No two write transactions come between an upload's read and its decoding. *)
NoneReused == \A u \in Uploads : pc[u] = "viewed" => others[u] < 2

(* What an upload has read is still what is stored.                        *)
FreshInv == \A u \in Uploads : pc[u] \in {"viewed", "decoded"} => seen[u] = value

\* Without yanks only the holder of the mutex writes the list, so what it has read
\* stays what is stored.
LEMMA FreshNext ==
  ASSUME Yanks = {}, TypeOK, LockInv, NoneReused, FreshInv, [Next]_vars
  PROVE  FreshInv'
<1>0. \A u \in Uploads : u \in Requests
  BY DEF Requests
<1>1. ASSUME NEW u \in Uploads, BeginUpdate(u) \/ FinishUpdate(u) PROVE FreshInv'
  BY <1>0, <1>1 DEF BeginUpdate, FinishUpdate, FreshInv, GoTo, TypeOK
<1>2. ASSUME NEW u \in Uploads, View(u) PROVE FreshInv'
  <2>1. seen'[u] = value /\ \A r \in Requests \ {u} : seen'[r] = seen[r] /\ pc'[r] = pc[r]
    BY <1>2, Steps
  <2>2. QED
    BY <1>0, <1>2, <2>1 DEF View, FreshInv
<1>3. ASSUME NEW u \in Uploads, Decode(u) PROVE FreshInv'
  <2>1. pc[u] = "viewed" /\ seen' = seen /\ value' = value
    BY <1>3 DEF Decode, NoneReused
  <2>2. \A r \in Requests \ {u} : pc'[r] = pc[r]
    BY <1>3, Steps
  <2>3. QED
    BY <1>0, <2>1, <2>2 DEF FreshInv
<1>4. ASSUME NEW u \in Uploads, Store(u) PROVE FreshInv'
  <2>1. pc[u] = "decoded" /\ pc' = [pc EXCEPT ![u] = "stored"]
    BY <1>4 DEF Store, GoTo
  <2>2. \A v \in Uploads \ {u} : pc[v] \notin {"viewed", "decoded"}
    BY <2>1 DEF LockInv
  <2>3. QED
    BY <1>0, <2>1, <2>2 DEF FreshInv, TypeOK
<1>5. CASE OtherWrite
  BY <1>5 DEF OtherWrite, FreshInv
<1>6. CASE Kill
  BY <1>0, <1>6 DEF Kill, FreshInv
<1>7. CASE UNCHANGED vars
  BY <1>7 DEF vars, handlers, FreshInv
<1>8. QED
  BY <1>1, <1>2, <1>3, <1>4, <1>5, <1>6, <1>7 DEF Next

\* What a list says to the registry after an upload's row is added.
LEMMA CatalogueGrows ==
  ASSUME NEW old \in Seq(Row), NEW row \in Row, value' = Append(old, row),
         old = value \/ (value = Absent /\ old = << >>)
  PROVE  Catalogue' = Catalogue \cup {[gem |-> row.version, checksum |-> row.build]}
<1> DEFINE Said(list) ==
      {[gem |-> list[i].version, checksum |-> list[i].build] : i \in DOMAIN list}
<1>1. value' \in Seq(Row) /\ value' # Absent
  BY ListIsNotAbsent
<1>2. Catalogue' = Said(value')
  BY <1>1 DEF Catalogue
<1>3. Catalogue = Said(old)
  <2>1. CASE old = value
    BY <2>1, ListIsNotAbsent DEF Catalogue
  <2>2. CASE value = Absent /\ old = << >>
    BY <2>2 DEF Catalogue
  <2>3. QED
    BY <2>1, <2>2
<1>4. /\ DOMAIN value' = 1 .. Len(old) + 1 /\ DOMAIN old = 1 .. Len(old)
      /\ Len(old) \in Nat
      /\ \A i \in DOMAIN old : value'[i] = old[i]
      /\ value'[Len(old) + 1] = row
  OBVIOUS
<1>5. DOMAIN value' = DOMAIN old \cup {Len(old) + 1}
  BY <1>4
<1>6. Said(value') = Said(old) \cup {[gem |-> row.version, checksum |-> row.build]}
  BY <1>4, <1>5
<1>7. QED
  BY <1>2, <1>3, <1>6

\* Each step of the name is a step of the registry, or none.
LEMMA RegistryNext ==
  ASSUME Yanks = {}, TypeOK, LockInv, FreshInv, [Next]_vars
  PROVE  [Registry!Next]_(Registry!registryVars)
<1>0. \A u \in Uploads : u \in Requests
  BY DEF Requests
<1> DEFINE RowOf(u) == [gem |-> version[u], checksum |-> build[u]]
<1>1. ASSUME NEW u \in Uploads, BeginUpdate(u) PROVE Registry!Next
  <2>1. PICK v \in Version, b \in Builds :
           /\ version' = [version EXCEPT ![u] = v] /\ build' = [build EXCEPT ![u] = b]
    BY <1>1 DEF BeginUpdate
  <2> DEFINE row == [gem |-> v, checksum |-> b]
  <2>2. /\ pc[u] = "new" /\ pc' = [pc EXCEPT ![u] = "begun"] /\ value' = value
    BY <1>1 DEF BeginUpdate, GoTo
  <2>3. /\ pc'[u] # "new" /\ version'[u] = v /\ build'[u] = b
        /\ \A r \in Uploads \ {u} :
              pc'[r] = pc[r] /\ version'[r] = version[r] /\ build'[r] = build[r]
    BY <1>0, <2>1, <2>2 DEF TypeOK
  <2>4. Delivered' = Delivered \cup {row}
    BY <2>2, <2>3 DEF Delivered
  <2>5. Catalogue' = Catalogue
    BY <2>2 DEF Catalogue
  <2>6. row \in Registry!Row
    BY DEF Registry!Row
  <2>7. QED
    BY <2>4, <2>5, <2>6 DEF Registry!Next, Registry!Deliver
<1>2. ASSUME \A u \in Uploads : pc'[u] = "new" <=> pc[u] = "new",
             UNCHANGED <<version, build>>
      PROVE  Delivered' = Delivered
  BY <1>2 DEF Delivered
<1>3. ASSUME NEW u \in Uploads, View(u) \/ Decode(u) \/ FinishUpdate(u)
      PROVE  UNCHANGED <<Delivered, Catalogue>>
  <2>1. /\ \A v \in Uploads : pc'[v] = "new" <=> pc[v] = "new"
        /\ UNCHANGED <<version, build, value>>
    BY <1>0, <1>3 DEF View, Decode, FinishUpdate, GoTo, TypeOK
  <2>2. QED
    BY <1>2, <2>1 DEF Catalogue
<1>4. ASSUME NEW u \in Uploads, Store(u)
      PROVE  Registry!Next \/ UNCHANGED <<Delivered, Catalogue>>
  <2>1. /\ pc[u] = "decoded" /\ pc' = [pc EXCEPT ![u] = "stored"]
        /\ UNCHANGED <<version, build>>
    BY <1>4 DEF Store, GoTo
  <2>2. Delivered' = Delivered
    BY <1>0, <1>2, <2>1 DEF TypeOK
  <2>3. CASE ~Adds(u)
    BY <1>4, <2>2, <2>3 DEF Store, Catalogue
  <2>4. CASE Adds(u)
    <3> DEFINE old == IF seen[u] = Absent THEN << >> ELSE seen[u]
               row == RowFor(u, old)
    <3>1. seen[u] = value
      BY <2>1 DEF FreshInv
    <3>2. old \in Seq(Row) /\ (old = value \/ (value = Absent /\ old = << >>))
      BY <1>0, <3>1 DEF TypeOK
    <3>3. value' = Append(old, row)
      BY <1>4, <2>4 DEF Store
    <3>4. row \in Row /\ row.version = version[u] /\ row.build = build[u]
      <4>1. version[u] \in Version /\ build[u] \in Builds
        BY <1>0 DEF TypeOK
      <4>2. row \in Row
        BY <3>2, <4>1, RowIsRow
      <4>3. QED
        BY <4>2 DEF RowFor
    <3> HIDE DEF old, row
    <3>5. Catalogue' = Catalogue \cup {RowOf(u)}
      BY <3>2, <3>3, <3>4, CatalogueGrows
    <3>6. \A r \in Catalogue : r.gem # version[u]
      <4>1. SameId(version[u], version[u])
        BY DEF SameId
      <4>2. value = Absent \/ version[u] \notin VersionsOf(value)
        BY <2>4, <3>1, <4>1 DEF Adds
      <4>3. QED
        BY <4>2 DEF Catalogue, VersionsOf
    <3>7. RowOf(u) \in Delivered /\ RowOf(u) \in Registry!Row
      BY <1>0, <2>1 DEF Delivered, Registry!Row, TypeOK
    <3>8. Registry!Publish(RowOf(u))
      BY <2>2, <3>5, <3>6, <3>7 DEF Registry!Publish
    <3>9. QED
      BY <3>7, <3>8 DEF Registry!Next
  <2>5. QED
    BY <2>3, <2>4
<1>5. CASE OtherWrite \/ Kill \/ UNCHANGED vars
  <2>1. /\ \A v \in Uploads : pc'[v] = "new" <=> pc[v] = "new"
        /\ UNCHANGED <<version, build, value>>
    BY <1>0, <1>5 DEF OtherWrite, Kill, vars, handlers
  <2>2. QED
    BY <1>2, <2>1 DEF Catalogue, Registry!registryVars
<1>6. QED
  BY <1>1, <1>3, <1>4, <1>5 DEF Next, Registry!registryVars

\* The name's list implements the registry that the rows of GemRepository
\* implement: for any number of uploads and kills, as long as nobody yanks and no
\* upload decodes what it has read after two other write transactions.
THEOREM NameIsRegistry ==
  ASSUME Yanks = {}
  PROVE  Spec /\ []NoneReused => Registry!Spec
<1>1. Init => IInv
  BY IInvInit
<1>2. IInv /\ [Next]_vars => IInv'
  BY IInvNext
<1>3. Init => FreshInv
  BY DEF Init, FreshInv, Requests
<1>4. IInv /\ NoneReused /\ FreshInv /\ [Next]_vars => FreshInv'
  BY FreshNext DEF IInv
<1>5. Init => Registry!Init
  <2>1. ASSUME Init PROVE Delivered = {} /\ Catalogue = {}
    BY <2>1 DEF Init, Delivered, Catalogue, Requests
  <2>2. QED
    BY <2>1 DEF Registry!Init
<1>6. IInv /\ FreshInv /\ [Next]_vars => [Registry!Next]_(Registry!registryVars)
  BY RegistryNext DEF IInv
<1>7. QED
  BY <1>1, <1>2, <1>3, <1>4, <1>5, <1>6, PTL DEF Spec, Registry!Spec
=============================================================================

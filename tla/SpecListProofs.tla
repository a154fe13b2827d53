--------------------------- MODULE SpecListProofs ---------------------------
(***************************************************************************)
(* Theorems about the pure functions of SpecList, for every set of specs.  *)
(***************************************************************************)
EXTENDS SpecList, FiniteSetTheorems, TLAPS

-----------------------------------------------------------------------------
(* Least and greatest numbers, which stand for induction.                  *)

\* A set of natural numbers that is not empty has a least one.
LEMMA LeastNumber ==
    ASSUME NEW S, S \subseteq Nat, S # {}
    PROVE  \E x \in S : \A y \in S : x <= y
  <1>1. PICK x \in S : \A y \in S : ~ (<<y, x>> \in OpToRel(<, Nat))
    BY NatLessThanWellFounded, WFMin
  <1>2. ASSUME NEW y \in S PROVE x <= y
    <2>1. <<y, x>> \in OpToRel(<, Nat) <=> y < x
      BY DEF OpToRel
    <2>2. x \in Nat /\ y \in Nat /\ ~(y < x)
      BY <1>1, <2>1
    <2> QED
      BY <2>2
  <1> QED
    BY <1>2

\* One that is bounded has a greatest one.
LEMMA GreatestNumber ==
    ASSUME NEW S, S \subseteq Nat, S # {}, NEW n \in Nat, \A x \in S : x <= n
    PROVE  \E x \in S : \A y \in S : y <= x
  <1> DEFINE D == {n - x : x \in S}
  <1>1. D \subseteq Nat /\ D # {}
    <2>1. \A x \in S : x \in Nat /\ n - x \in Nat
      OBVIOUS
    <2> QED
      BY <2>1
  <1>2. PICK d \in D : \A e \in D : d <= e
    BY <1>1, LeastNumber
  <1>3. PICK x \in S : d = n - x
    OBVIOUS
  <1>4. ASSUME NEW y \in S PROVE y <= x
    <2>1. d <= n - y
      BY <1>2
    <2> QED
      BY <1>3, <2>1
  <1> QED
    BY <1>4

-----------------------------------------------------------------------------
(* Partition and merge.                                                    *)

\* Every release has, in the latest index of a bounded set, one of its name
\* that is not less (PartitionSpecs).
LEMMA LatestMatches ==
    ASSUME NEW S, S \subseteq Gem, NEW n \in Nat, \A h \in S : h.number <= n,
           NEW g \in ReleasesOf(S)
    PROVE  \E h \in LatestOf(S) : h.name = g.name /\ h.number >= g.number
  <1> USE SpecListAssumption
  <1> DEFINE Same == {h \in ReleasesOf(S) : h.name = g.name}
             Ns == {h.number : h \in Same}
  <1>1. Same \subseteq Gem /\ g \in Same
    BY DEF ReleasesOf
  <1>2. \A h \in Gem : h.number \in Nat /\ h.platform \in Nat
    BY DEF Gem
  <1>3. PICK m \in Ns : \A k \in Ns : k <= m
    <2>1. Ns \subseteq Nat /\ Ns # {} /\ \A k \in Ns : k <= n
      BY <1>1, <1>2 DEF ReleasesOf
    <2> QED
      BY <2>1, GreatestNumber
  <1> DEFINE Top == {h \in Same : h.number = m}
             Ps == {h.platform : h \in Top}
  <1>4. PICK p \in Ps : \A q \in Ps : p <= q
    <2>1. Ps \subseteq Nat /\ Ps # {}
      BY <1>1, <1>2
    <2> QED
      BY <2>1, LeastNumber
  <1>5. PICK h \in Top : h.platform = p
    OBVIOUS
  <1>6. h \in ReleasesOf(S) /\ h.name = g.name /\ h.number = m
    OBVIOUS
  <1>7. ASSUME NEW k \in ReleasesOf(S), k.name = h.name
        PROVE  k.number < h.number \/ (k.number = h.number /\ ~Before(k, h))
    <2>1. k \in Same /\ k.number <= m
      BY <1>3, <1>6, <1>7
    <2>2. k.number \in Nat /\ m \in Nat
      BY <1>1, <1>2, <1>6, <2>1
    <2>3. CASE k.number = m
      <3>1. p <= k.platform
        BY <1>4, <2>1, <2>3
      <3>2. ~(k.platform < h.platform)
        BY <1>1, <1>2, <1>5, <2>1, <3>1
      <3> QED
        <4>1. k.name = h.name /\ k.number = h.number
          BY <1>6, <1>7, <2>3
        <4>2. k.name \in Nat
          BY <1>1, <2>1 DEF Gem
        <4>3. ~Before(k, h)
          BY <2>2, <1>6, <3>2, <4>1, <4>2 DEF Before
        <4> QED
          BY <4>1, <4>3
    <2>4. CASE k.number # m
      BY <1>6, <2>1, <2>2, <2>4
    <2> QED
      BY <2>3, <2>4
  <1>8. h \in LatestOf(S)
    BY <1>6, <1>7 DEF LatestOf
  <1>9. h.number >= g.number
    BY <1>1, <1>2, <1>3, <1>6
  <1> QED
    BY <1>6, <1>8, <1>9

-----------------------------------------------------------------------------
(* The binary search of FindIndexOf.                                       *)

Middle(part) == (part[1] + part[2]) \div 2
Above(part) == <<Middle(part) + 1, part[2]>>
Below(part) == <<part[1], Middle(part) - 1>>
SizeOf(part) == part[2] - part[1] + 1

(* What the search does with a part, given what it answers for smaller ones. *)
Searched(f, specs, name, part) ==
    IF part[1] > part[2] THEN -1
    ELSE IF specs[Middle(part) + 1].name = name THEN Middle(part)
    ELSE IF specs[Middle(part) + 1].name < name THEN f[Above(part)]
    ELSE f[Below(part)]

IsSearch(f, specs, name) ==
    f = [part \in Part(specs) |-> Searched(f, specs, name, part)]

\* A part is two indexes, and has a size.
LEMMA PartsOf ==
    ASSUME NEW specs, Len(specs) \in Nat, NEW part \in Part(specs)
    PROVE  /\ part[1] \in 0 .. Len(specs) /\ part[2] \in -1 .. Len(specs) - 1
           /\ SizeOf(part) \in Int
           /\ part[1] > part[2] <=> SizeOf(part) <= 0
  BY DEF Part, SizeOf

\* What the search of a part asks of others: smaller parts.
LEMMA SearchSmaller ==
    ASSUME NEW specs, Len(specs) \in Nat, NEW part \in Part(specs),
           ~(part[1] > part[2])
    PROVE  /\ Middle(part) \in part[1] .. part[2]
           /\ Middle(part) \in 0 .. Len(specs) - 1
           /\ Above(part) \in Part(specs) /\ SizeOf(Above(part)) < SizeOf(part)
           /\ Below(part) \in Part(specs) /\ SizeOf(Below(part)) < SizeOf(part)
  <1>1. /\ part[1] \in 0 .. Len(specs) /\ part[2] \in -1 .. Len(specs) - 1
        /\ part[1] <= part[2]
    BY PartsOf
  <1>2. Middle(part) \in Int /\ part[1] <= Middle(part) /\ Middle(part) <= part[2]
    BY <1>1 DEF Middle
  <1>3. /\ Above(part)[1] = Middle(part) + 1 /\ Above(part)[2] = part[2]
        /\ Below(part)[1] = part[1] /\ Below(part)[2] = Middle(part) - 1
    BY DEF Above, Below
  <1>4. Above(part) \in Part(specs) /\ Below(part) \in Part(specs)
    <2> DEFINE m == Middle(part)
    <2>1. /\ m + 1 \in 0 .. Len(specs) /\ part[2] \in -1 .. Len(specs) - 1
          /\ part[1] \in 0 .. Len(specs) /\ m - 1 \in -1 .. Len(specs) - 1
      BY <1>1, <1>2
    <2> QED
      BY <2>1 DEF Above, Below, Part
  <1>5. SizeOf(Above(part)) < SizeOf(part) /\ SizeOf(Below(part)) < SizeOf(part)
    BY <1>1, <1>2, <1>3 DEF SizeOf
  <1> QED
    BY <1>1, <1>2, <1>4, <1>5

\* The search of a part asks only for smaller ones.
LEMMA SearchedFrom ==
    ASSUME NEW specs, Len(specs) \in Nat, NEW name, NEW part \in Part(specs),
           NEW f, NEW g,
           \A q \in Part(specs) : SizeOf(q) < SizeOf(part) => f[q] = g[q]
    PROVE  Searched(f, specs, name, part) = Searched(g, specs, name, part)
  <1>1. CASE part[1] > part[2]
    BY <1>1 DEF Searched
  <1>2. CASE ~(part[1] > part[2])
    <2>1. f[Above(part)] = g[Above(part)] /\ f[Below(part)] = g[Below(part)]
      BY <1>2, SearchSmaller
    <2> QED
      BY <2>1 DEF Searched
  <1> QED
    BY <1>1, <1>2

\* It answers with an integer.
LEMMA SearchedNumber ==
    ASSUME NEW specs, Len(specs) \in Nat, NEW name, NEW part \in Part(specs),
           NEW f \in [Part(specs) -> Int]
    PROVE  Searched(f, specs, name, part) \in Int
  <1>1. CASE part[1] > part[2]
    BY <1>1 DEF Searched
  <1>2. CASE ~(part[1] > part[2])
    <2>1. /\ Above(part) \in Part(specs) /\ Below(part) \in Part(specs)
          /\ Middle(part) \in Int
      BY <1>2, SearchSmaller, PartsOf
    <2>2. f[Above(part)] \in Int /\ f[Below(part)] \in Int
      BY <2>1
    <2> QED
      BY <2>1, <2>2 DEF Searched
  <1> QED
    BY <1>1, <1>2

\* The search is defined on every part of a list (FindIndexOf's loop ends).
LEMMA SearchExists ==
    ASSUME NEW specs, Len(specs) \in Nat, NEW name
    PROVE  \E f : IsSearch(f, specs, name)
  <1> DEFINE Upto(k, f) == /\ f \in [Part(specs) -> Int]
                           /\ \A part \in Part(specs) : SizeOf(part) <= k =>
                                 f[part] = Searched(f, specs, name, part)
             Missed == {k \in Nat : ~ \E f : Upto(k, f)}
  <1>1. \E f : Upto(0, f)
    <2> DEFINE none == [part \in Part(specs) |-> -1]
    <2>1. Upto(0, none)
      BY PartsOf DEF Searched
    <2> QED
      BY <2>1
  <1>2. ASSUME NEW k \in Nat, NEW f, Upto(k, f) PROVE \E g : Upto(k + 1, g)
    <2> DEFINE g == [part \in Part(specs) |-> Searched(f, specs, name, part)]
    <2>1. g \in [Part(specs) -> Int]
      BY <1>2, SearchedNumber
    <2>2. ASSUME NEW part \in Part(specs), SizeOf(part) <= k + 1
          PROVE  Searched(g, specs, name, part) = Searched(f, specs, name, part)
      <3>1. \A q \in Part(specs) : SizeOf(q) < SizeOf(part) => g[q] = f[q]
        <4>1. ASSUME NEW q \in Part(specs), SizeOf(q) < SizeOf(part)
              PROVE  g[q] = f[q]
          <5>1. SizeOf(q) \in Int /\ SizeOf(part) \in Int
            BY PartsOf
          <5>2. SizeOf(q) <= k
            BY <2>2, <4>1, <5>1
          <5> QED
            BY <1>2, <5>2
        <4> QED
          BY <4>1
      <3> HIDE DEF g
      <3> QED
        BY <3>1, SearchedFrom
    <2>3. \A part \in Part(specs) : g[part] = Searched(f, specs, name, part)
      OBVIOUS
    <2> HIDE DEF g
    <2> QED
      BY <2>1, <2>2, <2>3
  <1>3. Missed = {}
    <2> SUFFICES ASSUME Missed # {} PROVE FALSE
      OBVIOUS
    <2> HIDE DEF Upto
    <2>1. PICK k \in Missed : \A j \in Missed : k <= j
      BY LeastNumber
    <2>2. k # 0 /\ k \in Nat
      BY <1>1, <2>1
    <2>3. k - 1 \in Nat /\ k - 1 \notin Missed
      BY <2>1, <2>2
    <2>4. \E g : Upto((k - 1) + 1, g)
      BY <1>2, <2>3
    <2>5. (k - 1) + 1 = k
      BY <2>2
    <2> QED
      BY <2>1, <2>4, <2>5
  <1> DEFINE top == Len(specs) + 1
  <1>4. PICK f : Upto(top, f)
    <2>1. top \in Nat
      OBVIOUS
    <2> QED
      BY <1>3, <2>1
  <1>5. \A part \in Part(specs) : SizeOf(part) <= top
    BY DEF Part, SizeOf
  <1>6. f = [part \in Part(specs) |-> Searched(f, specs, name, part)]
    BY <1>4, <1>5
  <1> QED
    BY <1>6 DEF IsSearch

\* What holds of a part when it holds of all smaller ones holds of each part.
LEMMA OverParts ==
    ASSUME NEW specs, Len(specs) \in Nat, NEW Good,
           \A part \in Part(specs) :
              (\A q \in Part(specs) : SizeOf(q) < SizeOf(part) => q \in Good)
                  => part \in Good
    PROVE  \A part \in Part(specs) : part \in Good
  <1> DEFINE Bad == {part \in Part(specs) : part \notin Good}
             Sizes == {SizeOf(part) + Len(specs) : part \in Bad}
  <1>1. \A part \in Part(specs) : SizeOf(part) + Len(specs) \in Nat
    BY PartsOf DEF SizeOf
  <1>2. SUFFICES ASSUME Bad # {} PROVE FALSE
    OBVIOUS
  <1>3. PICK k \in Sizes : \A j \in Sizes : k <= j
    <2>1. Sizes # {} /\ Sizes \subseteq Nat
      BY <1>1, <1>2
    <2> QED
      BY <2>1, LeastNumber
  <1>4. PICK part \in Bad : k = SizeOf(part) + Len(specs)
    OBVIOUS
  <1>5. ASSUME NEW q \in Part(specs), SizeOf(q) < SizeOf(part) PROVE q \in Good
    <2> SUFFICES ASSUME q \in Bad PROVE FALSE
      OBVIOUS
    <2>1. SizeOf(part) + Len(specs) <= SizeOf(q) + Len(specs)
      BY <1>3, <1>4
    <2>2. SizeOf(q) \in Int /\ SizeOf(part) \in Int
      BY PartsOf
    <2> QED
      BY <1>5, <2>1, <2>2
  <1> QED
    BY <1>4, <1>5

\* A list that is sorted by name, as the walk is.
ByName(specs) ==
    /\ Len(specs) \in Nat
    /\ \A i \in 1 .. Len(specs) : specs[i].name \in Nat
    /\ \A i, j \in 1 .. Len(specs) : i <= j => specs[i].name <= specs[j].name

\* In a list that is sorted by name the search answers with a place of the part
\* that has the name, unless there is none.
LEMMA SearchAnswers ==
    ASSUME NEW specs, ByName(specs), NEW name \in Nat, NEW f,
           IsSearch(f, specs, name), NEW part \in Part(specs)
    PROVE  \/ /\ f[part] = -1
              /\ \A k \in part[1] .. part[2] : specs[k + 1].name # name
           \/ /\ f[part] \in part[1] .. part[2] /\ f[part] \in 0 .. Len(specs) - 1
              /\ specs[f[part] + 1].name = name
  <1> DEFINE None(p) == /\ f[p] = -1
                        /\ \A k \in p[1] .. p[2] : specs[k + 1].name # name
             Found(p) == /\ f[p] \in p[1] .. p[2] /\ f[p] \in 0 .. Len(specs) - 1
                         /\ specs[f[p] + 1].name = name
             Good == {p \in Part(specs) : None(p) \/ Found(p)}
  <1>1. Len(specs) \in Nat
    BY DEF ByName
  <1>2. ASSUME NEW p \in Part(specs),
               \A q \in Part(specs) : SizeOf(q) < SizeOf(p) => q \in Good
        PROVE  None(p) \/ Found(p)
    <2>1. f[p] = Searched(f, specs, name, p)
      BY DEF IsSearch
    <2>2. CASE p[1] > p[2]
      BY <1>1, <2>1, <2>2, PartsOf DEF Searched
    <2>3. CASE ~(p[1] > p[2])
      <3> DEFINE m == Middle(p)
      <3>1. /\ m \in p[1] .. p[2] /\ m \in 0 .. Len(specs) - 1
            /\ p[1] \in 0 .. Len(specs) /\ p[2] \in -1 .. Len(specs) - 1
        BY <1>1, <2>3, SearchSmaller, PartsOf
      <3>2. Above(p) \in Good /\ Below(p) \in Good
        BY <1>1, <1>2, <2>3, SearchSmaller
      <3>3. specs[m + 1].name \in Nat
        BY <1>1, <3>1 DEF ByName
      <3>4. CASE specs[m + 1].name = name
        BY <2>1, <2>3, <3>1, <3>4 DEF Searched
      <3>5. CASE specs[m + 1].name < name
        <4>1. f[p] = f[Above(p)]
          BY <2>1, <2>3, <3>3, <3>5 DEF Searched
        <4>2. Above(p)[1] = m + 1 /\ Above(p)[2] = p[2]
          BY DEF Above
        <4>3. ASSUME NEW k \in p[1] .. m PROVE specs[k + 1].name # name
          <5>1. k + 1 \in 1 .. Len(specs) /\ m + 1 \in 1 .. Len(specs)
                /\ k + 1 <= m + 1
            BY <1>1, <3>1
          <5>2. specs[k + 1].name <= specs[m + 1].name /\ specs[k + 1].name \in Nat
            BY <5>1 DEF ByName
          <5> QED
            BY <3>3, <3>5, <5>2
        <4>4. CASE None(Above(p))
          <5>1. \A k \in m + 1 .. p[2] : specs[k + 1].name # name
            BY <4>2, <4>4
          <5>2. \A k \in p[1] .. p[2] : k \in p[1] .. m \/ k \in m + 1 .. p[2]
            BY <3>1
          <5> HIDE DEF m
          <5>3. \A k \in p[1] .. p[2] : specs[k + 1].name # name
            BY <4>3, <5>1, <5>2
          <5> QED
            BY <4>1, <4>4, <5>3
        <4>5. CASE Found(Above(p))
          <5>1. f[p] \in m + 1 .. p[2] /\ f[p] \in 0 .. Len(specs) - 1
                /\ specs[f[p] + 1].name = name
            BY <4>1, <4>2, <4>5
          <5>2. f[p] \in p[1] .. p[2]
            BY <3>1, <5>1
          <5> QED
            BY <5>1, <5>2
        <4> QED
          BY <3>2, <4>4, <4>5
      <3>6. CASE name < specs[m + 1].name
        <4>1. f[p] = f[Below(p)]
          BY <2>1, <2>3, <3>3, <3>6 DEF Searched
        <4>2. Below(p)[1] = p[1] /\ Below(p)[2] = m - 1
          BY DEF Below
        <4>3. ASSUME NEW k \in m .. p[2] PROVE specs[k + 1].name # name
          <5>1. k + 1 \in 1 .. Len(specs) /\ m + 1 \in 1 .. Len(specs)
                /\ m + 1 <= k + 1
            BY <1>1, <3>1
          <5>2. specs[m + 1].name <= specs[k + 1].name /\ specs[k + 1].name \in Nat
            BY <5>1 DEF ByName
          <5> QED
            BY <3>3, <3>6, <5>2
        <4>4. CASE None(Below(p))
          <5>1. \A k \in p[1] .. m - 1 : specs[k + 1].name # name
            BY <4>2, <4>4
          <5>2. \A k \in p[1] .. p[2] : k \in p[1] .. m - 1 \/ k \in m .. p[2]
            BY <3>1
          <5> HIDE DEF m
          <5>3. \A k \in p[1] .. p[2] : specs[k + 1].name # name
            BY <4>3, <5>1, <5>2
          <5> QED
            BY <4>1, <4>4, <5>3
        <4>5. CASE Found(Below(p))
          <5>1. f[p] \in p[1] .. m - 1 /\ f[p] \in 0 .. Len(specs) - 1
                /\ specs[f[p] + 1].name = name
            BY <4>1, <4>2, <4>5
          <5>2. f[p] \in p[1] .. p[2]
            BY <3>1, <5>1
          <5> QED
            BY <5>1, <5>2
        <4> QED
          BY <3>2, <4>4, <4>5
      <3> QED
        BY <3>3, <3>4, <3>5, <3>6
    <2> QED
      BY <2>2, <2>3
  <1> HIDE DEF None, Found
  <1>3. \A p \in Part(specs) : p \in Good
    BY <1>1, <1>2, OverParts
  <1> QED
    BY <1>3 DEF None, Found

\* NameIndex is a place of the name, from 0, or -1 when there is none.
LEMMA NameIndexFinds ==
    ASSUME NEW specs, ByName(specs), NEW name \in Nat
    PROVE  \/ /\ NameIndex(specs, name) = -1
              /\ \A k \in 0 .. Len(specs) - 1 : specs[k + 1].name # name
           \/ /\ NameIndex(specs, name) \in 0 .. Len(specs) - 1
              /\ specs[NameIndex(specs, name) + 1].name = name
  <1> DEFINE f == CHOOSE g : IsSearch(g, specs, name)
             all == <<0, Len(specs) - 1>>
  <1>1. Len(specs) \in Nat
    BY DEF ByName
  <1>2. IsSearch(f, specs, name)
    BY <1>1, SearchExists
  <1>3. NameIndex(specs, name) = f[all]
    BY Zenon DEF NameIndex, IsSearch, Searched, Above, Below, Middle
  <1>4. all \in Part(specs)
    BY <1>1 DEF Part
  <1>5. ASSUME NEW g, IsSearch(g, specs, name), NEW part \in Part(specs)
        PROVE  \/ /\ g[part] = -1
                  /\ \A k \in part[1] .. part[2] : specs[k + 1].name # name
               \/ /\ g[part] \in part[1] .. part[2]
                  /\ g[part] \in 0 .. Len(specs) - 1
                  /\ specs[g[part] + 1].name = name
    BY <1>5, SearchAnswers
  <1>6. all[1] = 0 /\ all[2] = Len(specs) - 1
    OBVIOUS
  <1> HIDE DEF f, all
  <1> QED
    BY <1>2, <1>3, <1>4, <1>5, <1>6

-----------------------------------------------------------------------------
(* The walk of the gem files.                                              *)

\* What holds of the empty set, and of a set with one more element whenever it
\* holds of the set, holds of a finite set.
LEMMA OverFiniteSets ==
    ASSUME NEW S, IsFiniteSet(S), NEW Good, {} \in Good,
           \A T \in SUBSET S : \A x \in S \ T : T \in Good => T \cup {x} \in Good
    PROVE  S \in Good
  <1> DEFINE Bad == {T \in SUBSET S : T \notin Good}
             Sizes == {Cardinality(T) : T \in Bad}
  <1>1. SUFFICES ASSUME S \notin Good PROVE FALSE
    OBVIOUS
  <1>2. \A T \in SUBSET S : IsFiniteSet(T) /\ Cardinality(T) \in Nat
    BY FS_Subset, FS_CardinalityType
  <1>3. PICK k \in Sizes : \A j \in Sizes : k <= j
    <2>1. Cardinality(S) \in Sizes /\ Sizes \subseteq Nat
      BY <1>1, <1>2
    <2> QED
      BY <2>1, LeastNumber
  <1>4. PICK T \in Bad : k = Cardinality(T)
    OBVIOUS
  <1>5. PICK x \in T : TRUE
    BY <1>4
  <1>6. IsFiniteSet(T \ {x}) /\ Cardinality(T \ {x}) = Cardinality(T) - 1
    BY <1>2, <1>5, FS_RemoveElement
  <1>7. T \ {x} \in Good
    <2>1. SUFFICES ASSUME T \ {x} \in Bad PROVE FALSE
      OBVIOUS
    <2>2. Cardinality(T) <= Cardinality(T) - 1
      BY <1>3, <1>4, <1>6, <2>1
    <2> QED
      BY <1>2, <2>2
  <1>8. (T \ {x}) \cup {x} = T /\ x \in S \ (T \ {x})
    BY <1>5
  <1> QED
    BY <1>4, <1>7, <1>8

\* The order of the walk is strict and total.
LEMMA BeforeIsStrict ==
    ASSUME NEW g \in Gem, NEW h \in Gem, NEW k \in Gem
    PROVE  /\ ~Before(g, g)
           /\ Before(g, h) /\ Before(h, k) => Before(g, k)
           /\ g # h => Before(g, h) \/ Before(h, g)
  <1>1. \A x \in Gem : x.name \in Nat /\ x.number \in Nat /\ x.platform \in Nat
    BY SpecListAssumption DEF Gem
  <1>2. g # h => g.name # h.name \/ g.number # h.number \/ g.platform # h.platform
    BY DEF Gem
  <1> QED
    BY <1>1, <1>2 DEF Before

Ordered(list) == \A i, j \in DOMAIN list : i < j => Before(list[i], list[j])

\* A finite set of specs has a list in the order of the walk.
LEMMA ListExists ==
    ASSUME NEW S, S \subseteq Gem, IsFiniteSet(S)
    PROVE  \E list \in [1 .. Cardinality(S) -> S] : Ordered(list)
  <1> DEFINE Good == {T \in SUBSET S :
                        \E list \in [1 .. Cardinality(T) -> T] : Ordered(list)}
  <1>1. {} \in Good
    <2> DEFINE none == [i \in 1 .. 0 |-> {}]
    <2>1. none \in [1 .. 0 -> {}] /\ Ordered(none)
      BY DEF Ordered
    <2> QED
      BY <2>1, FS_EmptySet
  <1>2. ASSUME NEW T \in SUBSET S, NEW x \in S \ T, T \in Good
        PROVE  T \cup {x} \in Good
    <2> DEFINE n == Cardinality(T)
    <2>1. n \in Nat /\ Cardinality(T \cup {x}) = n + 1
      BY FS_Subset, FS_CardinalityType, FS_AddElement
    <2>2. PICK old \in [1 .. n -> T] : Ordered(old)
      BY <1>2
    <2> HIDE DEF n
    <2>3. PICK p \in 1 .. n + 1 :
             /\ p = n + 1 \/ Before(x, old[p])
             /\ \A i \in 1 .. p - 1 : ~Before(x, old[i])
      <3> DEFINE After == {i \in 1 .. n + 1 : i = n + 1 \/ Before(x, old[i])}
      <3>1. n + 1 \in After /\ After \subseteq Nat
        BY <2>1
      <3>2. PICK p \in After : \A i \in After : p <= i
        BY <3>1, LeastNumber
      <3>3. ASSUME NEW i \in 1 .. p - 1 PROVE ~Before(x, old[i])
        <4>1. i \in 1 .. n + 1 /\ ~(p <= i)
          BY <2>1, <3>1, <3>3
        <4> QED
          BY <3>2, <4>1
      <3> QED
        BY <3>2, <3>3
    <2> DEFINE at(i) == IF i < p THEN old[i] ELSE IF i = p THEN x ELSE old[i - 1]
               list == [i \in 1 .. n + 1 |-> at(i)]
    <2>4. ASSUME NEW i \in 1 .. n + 1
          PROVE  /\ at(i) \in T \cup {x}
                 /\ i < p => i \in 1 .. n /\ Before(old[i], x)
                 /\ i > p => i - 1 \in 1 .. n /\ Before(x, old[i - 1])
      <3>1. CASE i < p
        <4>1. i \in 1 .. n /\ i \in 1 .. p - 1
          BY <2>1, <3>1
        <4>2. old[i] \in T /\ old[i] \in Gem /\ x \in Gem /\ old[i] # x
          BY <4>1
        <4>3. ~Before(x, old[i])
          BY <2>3, <4>1
        <4>4. Before(old[i], x)
          BY <4>2, <4>3, BeforeIsStrict
        <4> QED
          BY <2>1, <3>1, <4>1, <4>2, <4>4
      <3>2. CASE i = p
        BY <2>1, <3>2
      <3>3. CASE i > p
        <4>1. i - 1 \in 1 .. n /\ p \in 1 .. n /\ p <= i - 1
          BY <2>1, <3>3
        <4>2. old[i - 1] \in T /\ old[p] \in T /\ old[p] \in Gem
              /\ old[i - 1] \in Gem /\ x \in Gem
          BY <4>1
        <4>3. Before(x, old[p])
          BY <2>1, <2>3, <4>1
        <4>4. p = i - 1 \/ Before(old[p], old[i - 1])
          BY <2>2, <4>1 DEF Ordered
        <4>5. Before(x, old[i - 1])
          BY <4>2, <4>3, <4>4, BeforeIsStrict
        <4> QED
          BY <2>1, <3>3, <4>1, <4>2, <4>5
      <3> QED
        BY <2>1, <3>1, <3>2, <3>3
    <2>5. list \in [1 .. n + 1 -> T \cup {x}]
      BY <2>4
    <2>6. ASSUME NEW i \in 1 .. n + 1, NEW j \in 1 .. n + 1, i < j
          PROVE  Before(at(i), at(j))
      <3>1. CASE j < p \/ i > p
        <4> DEFINE a == IF j < p THEN i ELSE i - 1
                   b == IF j < p THEN j ELSE j - 1
        <4>1. a \in 1 .. n /\ b \in 1 .. n /\ a < b
          BY <2>1, <2>4, <2>6, <3>1
        <4>2. Before(old[a], old[b])
          BY <2>2, <4>1 DEF Ordered
        <4>3. at(i) = old[a] /\ at(j) = old[b]
          BY <2>1, <2>6, <3>1
        <4> QED
          BY <4>2, <4>3
      <3>2. CASE i < p /\ j = p
        BY <2>4, <3>2
      <3>3. CASE i = p /\ j > p
        BY <2>4, <3>3
      <3>4. CASE i < p /\ j > p
        <4>1. i \in 1 .. n /\ j - 1 \in 1 .. n /\ i < j - 1
          BY <2>1, <2>4, <3>4
        <4>2. Before(old[i], old[j - 1])
          BY <2>2, <4>1 DEF Ordered
        <4> QED
          BY <3>4, <4>2
      <3> QED
        BY <2>1, <2>6, <3>1, <3>2, <3>3, <3>4
    <2>7. Ordered(list)
      <3> HIDE DEF at
      <3> QED
        BY <2>6 DEF Ordered
    <2> HIDE DEF list
    <2> QED
      BY <2>1, <2>5, <2>7
  <1> HIDE DEF Good
  <1>3. S \in Good
    BY <1>1, <1>2, OverFiniteSets
  <1> QED
    BY <1>3 DEF Good

\* WalkOrder lists a finite set of specs in the order of the walk, each once.
LEMMA WalkLists ==
    ASSUME NEW S, S \subseteq Gem, IsFiniteSet(S)
    PROVE  /\ Len(WalkOrder(S)) \in Nat
           /\ DOMAIN WalkOrder(S) = 1 .. Len(WalkOrder(S))
           /\ Len(WalkOrder(S)) = Cardinality(S)
           /\ Ordered(WalkOrder(S))
           /\ \A i \in 1 .. Len(WalkOrder(S)) : WalkOrder(S)[i] \in S
           /\ \A s \in S : \E i \in 1 .. Len(WalkOrder(S)) : WalkOrder(S)[i] = s
  <1> DEFINE w == WalkOrder(S)
             n == Cardinality(S)
  <1>1. n \in Nat
    BY FS_CardinalityType
  <1>2. w \in [1 .. n -> S] /\ Ordered(w)
    BY ListExists DEF WalkOrder, Ordered
  <1> HIDE DEF w
  <1>3. DOMAIN w = 1 .. n /\ Len(w) = n
    BY <1>1, <1>2
  <1>4. ASSUME NEW s \in S PROVE \E i \in 1 .. n : w[i] = s
    <2> SUFFICES ASSUME \A i \in 1 .. n : w[i] # s PROVE FALSE
      OBVIOUS
    <2> DEFINE T == S \ {s}
    <2>1. w \in [1 .. n -> T]
      BY <1>2
    <2>2. IsFiniteSet(T) /\ Cardinality(T) = n - 1
      BY FS_RemoveElement
    <2>3. IsFiniteSet(1 .. n) /\ Cardinality(1 .. n) = n
      BY <1>1, FS_Interval
    <2>4. Cardinality(T) < Cardinality(1 .. n)
      BY <1>1, <2>2, <2>3
    <2>5. PICK i \in 1 .. n, j \in 1 .. n : i # j /\ w[i] = w[j]
      <3> HIDE DEF T, n
      <3> QED
        BY <2>1, <2>2, <2>3, <2>4, FS_PigeonHole
    <2>6. i < j \/ j < i
      BY <1>1, <2>5
    <2>7. Before(w[i], w[i])
      BY <1>2, <1>3, <2>5, <2>6 DEF Ordered
    <2>8. w[i] \in Gem
      BY <1>2, <2>5
    <2> QED
      BY <2>7, <2>8, BeforeIsStrict
  <1> QED
    BY <1>1, <1>2, <1>3, <1>4 DEF w

\* So it is sorted by name.
LEMMA WalkByName ==
    ASSUME NEW S, S \subseteq Gem, IsFiniteSet(S)
    PROVE  ByName(WalkOrder(S))
  <1> DEFINE w == WalkOrder(S)
  <1>1. \A g \in Gem : g.name \in Nat
    BY SpecListAssumption DEF Gem
  <1>2. /\ Len(w) \in Nat /\ Ordered(w) /\ DOMAIN w = 1 .. Len(w)
        /\ \A i \in 1 .. Len(w) : w[i] \in Gem
    BY WalkLists
  <1> HIDE DEF w
  <1>3. ASSUME NEW i \in 1 .. Len(w), NEW j \in 1 .. Len(w), i <= j
        PROVE  w[i].name <= w[j].name
    <2>1. w[i].name \in Nat /\ w[j].name \in Nat
      BY <1>1, <1>2
    <2>2. CASE i = j
      BY <2>1, <2>2
    <2>3. CASE i # j
      <3>1. Before(w[i], w[j])
        BY <1>2, <1>3, <2>3 DEF Ordered
      <3> QED
        BY <2>1, <3>1 DEF Before
    <2> QED
      BY <2>2, <2>3
  <1>4. ByName(w)
    BY <1>1, <1>2, <1>3 DEF ByName
  <1> QED
    BY <1>4 DEF w

Asked(specs, s) ==
    {i \in NameIndex(specs, s.name) .. Len(specs) - 1 :
        /\ specs[i + 1] = s
        /\ \A j \in NameIndex(specs, s.name) .. i - 1 :
              specs[j + 1].name = s.name /\ specs[j + 1] # s}

\* FindIndexOf answers with an index of the spec asked for, or with -1.
LEMMA FindsOnly ==
    ASSUME NEW specs, ByName(specs), NEW s, s.name \in Nat,
           FindIndexOf(specs, s) # -1
    PROVE  /\ FindIndexOf(specs, s) \in 0 .. Len(specs) - 1
           /\ specs[FindIndexOf(specs, s) + 1] = s
  <1>1. FindIndexOf(specs, s) =
            IF NameIndex(specs, s.name) = -1 \/ Asked(specs, s) = {} THEN -1
            ELSE CHOOSE i \in Asked(specs, s) : TRUE
    BY DEF FindIndexOf, Asked
  <1>2. NameIndex(specs, s.name) # -1 /\ FindIndexOf(specs, s) \in Asked(specs, s)
    BY <1>1
  <1>3. NameIndex(specs, s.name) \in 0 .. Len(specs) - 1
    BY <1>2, NameIndexFinds
  <1>4. Len(specs) \in Nat
    BY DEF ByName
  <1> QED
    BY <1>2, <1>3, <1>4 DEF Asked

\* In the walk of a set it finds the spec of a name that is walked last.
LEMMA FindsLast ==
    ASSUME NEW S, S \subseteq Gem, IsFiniteSet(S), NEW s \in S,
           \A t \in S : t.name = s.name => ~Before(s, t)
    PROVE  FindIndexOf(WalkOrder(S), s) # -1
  <1> DEFINE w == WalkOrder(S)
             idx == NameIndex(w, s.name)
  <1>1. /\ Len(w) \in Nat /\ Ordered(w) /\ DOMAIN w = 1 .. Len(w)
        /\ \A i \in 1 .. Len(w) : w[i] \in S
    BY WalkLists
  <1>2. PICK p \in 1 .. Len(w) : w[p] = s
    BY WalkLists
  <1>3. ByName(w)
    BY WalkByName
  <1>4. s.name \in Nat
    BY SpecListAssumption DEF Gem
  <1>5. idx \in 0 .. Len(w) - 1 /\ w[idx + 1].name = s.name
    <2>1. p - 1 \in 0 .. Len(w) - 1 /\ w[(p - 1) + 1].name = s.name
      BY <1>1, <1>2
    <2> HIDE DEF w
    <2> QED
      BY <1>3, <1>4, <2>1, NameIndexFinds
  <1> HIDE DEF w, idx
  <1>6. idx <= p - 1
    <2> SUFFICES ASSUME p < idx + 1 PROVE FALSE
      BY <1>5
    <2>1. idx + 1 \in 1 .. Len(w)
      BY <1>1, <1>5
    <2>2. Before(s, w[idx + 1])
      BY <1>1, <1>2, <2>1 DEF Ordered
    <2> QED
      BY <1>1, <1>5, <2>1, <2>2
  <1>7. ASSUME NEW j \in idx .. (p - 1) - 1
        PROVE  w[j + 1].name = s.name /\ w[j + 1] # s
    <2>1. /\ j + 1 \in 1 .. Len(w) /\ idx + 1 \in 1 .. Len(w)
          /\ idx + 1 <= j + 1 /\ j + 1 < p
      BY <1>1, <1>5
    <2>2. w[idx + 1].name <= w[j + 1].name /\ w[j + 1].name <= s.name
          /\ w[j + 1].name \in Nat
      BY <1>2, <1>3, <2>1 DEF ByName
    <2>3. Before(w[j + 1], s)
      BY <1>1, <1>2, <2>1 DEF Ordered
    <2> QED
      BY <1>4, <1>5, <2>2, <2>3, BeforeIsStrict
  <1>8. p - 1 \in Asked(w, s)
    <2>1. p - 1 \in idx .. Len(w) - 1 /\ w[(p - 1) + 1] = s
      BY <1>1, <1>2, <1>5, <1>6
    <2> QED
      BY <1>7, <2>1 DEF Asked, idx
  <1>9. FindIndexOf(w, s) = CHOOSE i \in Asked(w, s) : TRUE
    <2>1. idx # -1
      BY <1>5
    <2> QED
      BY <1>8, <2>1 DEF FindIndexOf, Asked, idx
  <1>10. FindIndexOf(w, s) \in Asked(w, s)
    BY <1>8, <1>9
  <1>11. FindIndexOf(w, s) # -1
    BY <1>5, <1>10, <1>1 DEF Asked, idx
  <1> QED
    BY <1>11 DEF w

-----------------------------------------------------------------------------
(* The merge of updateSpecsIndex.                                          *)

\* A finite set of specs has a greatest number.
LEMMA FiniteIsBounded ==
    ASSUME NEW S, S \subseteq Gem, IsFiniteSet(S)
    PROVE  \E n \in Nat : \A h \in S : h.number <= n
  <1> DEFINE Good == {T \in SUBSET S : \E n \in Nat : \A h \in T : h.number <= n}
  <1>1. \A h \in S : h.number \in Nat
    BY SpecListAssumption DEF Gem
  <1>2. {} \in Good
    OBVIOUS
  <1>3. ASSUME NEW T \in SUBSET S, NEW x \in S \ T, T \in Good
        PROVE  T \cup {x} \in Good
    <2>1. PICK n \in Nat : \A h \in T : h.number <= n
      BY <1>3
    <2>2. \A h \in T \cup {x} : h.number <= n + x.number
      BY <1>1, <2>1
    <2>3. n + x.number \in Nat
      BY <1>1
    <2> QED
      BY <2>2, <2>3
  <1> HIDE DEF Good
  <1>4. S \in Good
    BY <1>2, <1>3, OverFiniteSets
  <1> QED
    BY <1>4 DEF Good

\* The latest index has one entry for each released name.
LEMMA OneLatest ==
    ASSUME NEW S, S \subseteq Gem, NEW g \in LatestOf(S), NEW h \in LatestOf(S),
           g.name = h.name
    PROVE  g = h
  <1>1. g \in Gem /\ h \in Gem /\ g \in ReleasesOf(S) /\ h \in ReleasesOf(S)
    BY DEF LatestOf, ReleasesOf
  <1>2. g.number \in Nat /\ h.number \in Nat
    BY <1>1, SpecListAssumption DEF Gem
  <1>3. ~Before(g, h) /\ ~Before(h, g)
    BY <1>1, <1>2 DEF LatestOf
  <1> QED
    BY <1>1, <1>3, BeforeIsStrict

\* What a set's latest index has for a name is of the greatest number.
LEMMA LatestIsGreatest ==
    ASSUME NEW S, S \subseteq Gem, NEW g \in LatestOf(S),
           NEW h \in ReleasesOf(S), h.name = g.name
    PROVE  h.number <= g.number /\ h.number \in Nat /\ g.number \in Nat
  <1>1. g.number \in Nat /\ h.number \in Nat
    BY SpecListAssumption DEF Gem, LatestOf, ReleasesOf
  <1> QED
    BY <1>1 DEF LatestOf

\* Adding a gem to the latest index of the others gives, but for the platform,
\* the latest index of them all.
LEMMA MergeAgrees ==
    ASSUME NEW S, S \subseteq Gem, IsFiniteSet(S), NEW g \in S
    PROVE  VersionsIn(MergeLatest(LatestOf(S \ {g}), LatestOf({g})))
              = VersionsIn(LatestOf(S))
  <1> DEFINE O == S \ {g}
             L == LatestOf(O)
             M == MergeLatest(L, LatestOf({g}))
  <1>1. PICK n \in Nat : \A h \in S : h.number <= n
    BY FiniteIsBounded
  <1>2. O \subseteq Gem /\ \A h \in O : h.number <= n
    BY <1>1
  <1>3. \A h \in S : h.number \in Nat
    BY SpecListAssumption DEF Gem
  <1>4. /\ ReleasesOf(O) = ReleasesOf(S) \ {g}
        /\ LatestOf(O) \subseteq ReleasesOf(O) /\ ReleasesOf(S) \subseteq S
    BY DEF ReleasesOf, LatestOf
  <1>5. CASE g \notin ReleasesOf(S)
    <2>1. LatestOf({g}) = {}
      BY <1>5 DEF LatestOf, ReleasesOf
    <2>2. L = LatestOf(S)
      BY <1>4, <1>5 DEF LatestOf
    <2>3. M = L
      BY <2>1 DEF MergeLatest
    <2> QED
      BY <2>2, <2>3
  <1>6. CASE g \in ReleasesOf(S)
    <2>1. LatestOf({g}) = {g}
      <3>1. ReleasesOf({g}) = {g} /\ ~Before(g, g)
        BY <1>6, BeforeIsStrict DEF ReleasesOf
      <3> QED
        BY <3>1 DEF LatestOf
    <2>2. M = {x \in L : x.name # g.name \/ ~(x.number < g.number)}
              \cup {x \in {g} : \A y \in L : y.name = g.name => y.number < g.number}
      BY <2>1 DEF MergeLatest
    <2> HIDE DEF L, M
    <2>3. L \subseteq ReleasesOf(S) \ {g} /\ ReleasesOf(S) \subseteq S
      BY <1>4 DEF L
    <2>4. ASSUME NEW x \in M
          PROVE  \E y \in LatestOf(S) : y.name = x.name /\ y.number = x.number
      <3>1. x \in ReleasesOf(S)
        BY <1>6, <2>2, <2>3
      <3>2. PICK y \in LatestOf(S) : y.name = x.name /\ y.number >= x.number
        BY <1>1, <3>1, LatestMatches
      <3>3. y \in ReleasesOf(S) /\ x.number \in Nat /\ y.number \in Nat
        BY <1>3, <2>3, <3>1 DEF LatestOf
      <3>4. y.number <= x.number
        <4>1. CASE x = g
          <5>1. SUFFICES ASSUME y # g PROVE FALSE
            BY <3>3, <4>1
          <5>2. y \in ReleasesOf(O)
            BY <1>4, <3>3, <5>1
          <5>3. PICK z \in L : z.name = y.name /\ z.number >= y.number
            BY <1>2, <5>2, LatestMatches DEF L
          <5>4. z.number < g.number /\ z.number \in Nat
            BY <1>3, <2>2, <2>3, <3>2, <4>1, <5>3
          <5> QED
            BY <3>2, <3>3, <4>1, <5>3, <5>4
        <4>2. CASE x # g
          <5>1. x \in L /\ (x.name = g.name => ~(x.number < g.number))
            BY <2>2, <4>2
          <5>2. CASE y = g
            BY <3>2, <3>3, <5>1, <5>2
          <5>3. CASE y # g
            <6>1. y \in ReleasesOf(O)
              BY <1>4, <3>3, <5>3
            <6> QED
              BY <1>2, <3>2, <5>1, <6>1, LatestIsGreatest DEF L
          <5> QED
            BY <5>2, <5>3
        <4> QED
          BY <4>1, <4>2
      <3> QED
        BY <3>2, <3>3, <3>4
    <2>5. ASSUME NEW y \in LatestOf(S)
          PROVE  \E x \in M : x.name = y.name /\ x.number = y.number
      <3>1. y \in ReleasesOf(S)
        BY DEF LatestOf
      <3>2. CASE y # g
        <4>1. y \in L
          BY <1>4, <3>1, <3>2 DEF L, LatestOf
        <4>2. y.name = g.name => g.number <= y.number
          BY <1>6, LatestIsGreatest
        <4>3. y \in M
          BY <1>3, <2>2, <2>3, <3>1, <4>1, <4>2
        <4> QED
          BY <4>3
      <3>3. CASE y = g
        <4>1. CASE \A z \in L : z.name = g.name => z.number < g.number
          BY <2>2, <3>3, <4>1
        <4>2. CASE \E z \in L : z.name = g.name /\ ~(z.number < g.number)
          <5>1. PICK z \in L : z.name = g.name /\ ~(z.number < g.number)
            BY <4>2
          <5>2. z \in ReleasesOf(S)
            BY <2>3
          <5>3. z.number <= g.number /\ z.number \in Nat /\ g.number \in Nat
            BY <3>3, <5>1, <5>2, LatestIsGreatest
          <5>4. z \in M /\ z.number = g.number
            BY <2>2, <5>1, <5>3
          <5> QED
            BY <3>3, <5>1, <5>4
        <4> QED
          BY <4>1, <4>2
      <3> QED
        BY <3>2, <3>3
    <2> QED
      BY <2>4, <2>5 DEF VersionsIn, M, L
  <1> QED
    BY <1>5, <1>6
=============================================================================

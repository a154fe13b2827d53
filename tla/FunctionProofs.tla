--------------------------- MODULE FunctionProofs ---------------------------
(***************************************************************************)
(* Theorems: the properties of FunctionInputs hold of every input, for any *)
(* names, numbers and platforms, sets of any finite size and any integers  *)
(* that encInt encodes.  Those of the index files hold of every list of    *)
(* specs that the set is written as: a stream is the tokens of its writers *)
(* one after the other, a writer is followed by the reader of what it      *)
(* wrote, and a cut stream is read beside the whole one, spec by spec, up  *)
(* to the cut.                                                             *)
(***************************************************************************)
EXTENDS FunctionInputs, SpecListProofs, SequenceTheorems

-----------------------------------------------------------------------------
(* What encInt writes.                                                     *)

\* The weight of the c-th byte.
Weight(c) == 256 ^ (c - 1)

\* The weights of the at most four bytes of an integer.
LEMMA Weights ==
    Weight(1) = 1 /\ Weight(2) = 256 /\ Weight(3) = 65536 /\ Weight(4) = 16777216
  <1>1. 256 ^ 0 = 1 /\ 256 ^ 1 = 256 /\ 256 ^ 2 = 65536 /\ 256 ^ 3 = 16777216
    BY SMT
  <1>2. 1 - 1 = 0 /\ 2 - 1 = 1 /\ 3 - 1 = 2 /\ 4 - 1 = 3
    BY SMT
  <1> QED
    BY <1>1, <1>2, SMT DEF Weight

\* The length that encInt writes for what does not fit one byte, and the range
\* it stands for.
LEMMA Counts ==
    ASSUME NEW i \in Int, InRange(i) # {}
    PROVE  \/ ByteCount(i) = 1 /\ 123 <= i /\ i <= 255
           \/ ByteCount(i) = 2 /\ 256 <= i /\ i <= 65535
           \/ ByteCount(i) = 3 /\ 65536 <= i /\ i <= 16777215
           \/ ByteCount(i) = 4 /\ 16777216 <= i /\ i <= 1073741823
           \/ ByteCount(i) = -1 /\ -256 <= i /\ i <= -124
           \/ ByteCount(i) = -2 /\ -65536 <= i /\ i <= -257
           \/ ByteCount(i) = -3 /\ -16777216 <= i /\ i <= -1048577
           \/ ByteCount(i) = -4 /\ -1073741824 <= i /\ i <= -16777217
  <1> DEFINE r == CHOOSE range \in InRange(i) : TRUE
  <1>1. r \in InRange(i) /\ ByteCount(i) = r[3]
    BY Zenon DEF ByteCount
  <1> HIDE DEF r
  <1>2. r \in IntRanges /\ r[1] <= i /\ i <= r[2]
    BY <1>1, SMT DEF InRange
  <1> QED
    BY <1>1, <1>2, SMT DEF IntRanges

\* The bytes of an integer, least first, of two's complement.
Digit(i, c) == (i \div Weight(c)) % 256

\* Each of its bytes is an integer.
LEMMA DigitsAreInts ==
    ASSUME NEW i \in Int, NEW c \in 1 .. 4
    PROVE  Digit(i, c) \in Int
  <1>1. c = 1 \/ c = 2 \/ c = 3 \/ c = 4
    BY SMT
  <1>2. Weight(c) \in Int /\ Weight(c) > 0
    BY <1>1, Weights, SMT
  <1> HIDE DEF Weight
  <1> QED
    BY <1>2, SMT DEF Digit

\* How they make up the integer.
LEMMA Digits ==
    ASSUME NEW i \in Int
    PROVE  /\ i = Digit(i, 1) + 256 * (i \div 256)
           /\ i \div 256 = Digit(i, 2) + 256 * (i \div 65536)
           /\ i \div 65536 = Digit(i, 3) + 256 * (i \div 16777216)
           /\ Digit(i, 4) = (i \div 16777216) % 256
  <1>1. /\ Digit(i, 1) = i % 256 /\ Digit(i, 2) = (i \div 256) % 256
        /\ Digit(i, 3) = (i \div 65536) % 256
        /\ Digit(i, 4) = (i \div 16777216) % 256
    <2>1. i \div 1 = i
      BY SMT
    <2> QED
      BY <2>1, Weights, SMT DEF Digit
  <1>2. /\ i = (i % 256) + 256 * (i \div 256)
        /\ i \div 256 = ((i \div 256) % 256) + 256 * ((i \div 256) \div 256)
        /\ i \div 65536 = ((i \div 65536) % 256) + 256 * ((i \div 65536) \div 256)
    BY SMT
  <1>3. (i \div 256) \div 256 = i \div 65536
    BY SMT
  <1>4. (i \div 65536) \div 256 = i \div 16777216
    BY SMT
  <1> QED
    BY <1>1, <1>2, <1>3, <1>4, SMT

\* An integer of one byte.
LEMMA WritesShort ==
    ASSUME NEW i \in -123 .. 122
    PROVE  /\ Len(EncInt(i)) = 1
           /\ ByteAt(EncInt(i), 1) = IF i = 0 THEN 0 ELSE IF i > 0 THEN i + 5
                                     ELSE i + 251
  <1> DEFINE b == IF i = 0 THEN 0 ELSE IF i > 0 THEN i + 5 ELSE i + 251
  <1>1. EncInt(i) = <<Byte(b)>>
    <2>1. i < 0 => (i - 5) % 256 = i + 251
      BY SMT
    <2>2. i = 0 \/ (i # 0 /\ i \in 1 .. 122) \/ (i # 0 /\ i \in -123 .. -1 /\ i \notin 1 .. 122)
      BY SMT
    <2> QED
      BY <2>1, <2>2 DEF EncInt, OneByte
  <1> HIDE DEF b
  <1>2. Len(<<Byte(b)>>) = 1 /\ <<Byte(b)>>[1] = Byte(b)
    BY SMT
  <1>3. ByteAt(<<Byte(b)>>, 1) = b
    BY <1>2 DEF ByteAt, At, Byte
  <1> QED
    BY <1>1, <1>2, <1>3 DEF b

\* One of more: their number first.
LEMMA WritesLong ==
    ASSUME NEW i \in Int, i \notin -123 .. 122, NEW size \in 1 .. 4,
           size = IF ByteCount(i) < 0 THEN -ByteCount(i) ELSE ByteCount(i)
    PROVE  /\ Len(EncInt(i)) = size + 1
           /\ ByteAt(EncInt(i), 1) = ByteCount(i) % 256
           /\ \A k \in 1 .. size : ByteAt(EncInt(i), 1 + k) = Digit(i, k)
           /\ \A k \in 1 .. 4 : ByteAt(EncInt(i), 1 + k) \in Int
  <1> DEFINE first == Byte(ByteCount(i) % 256)
             rest == [c \in 1 .. size |-> Byte(Digit(i, c))]
  <1>1. EncInt(i) = <<first>> \o rest
    <2>1. i # 0 /\ i \notin 1 .. 122 /\ i \notin -123 .. -1
      BY SMT
    <2> QED
      BY <2>1, Zenon DEF EncInt, OneByte, Digit, Weight
  <1>2. \A c \in 1 .. 4 : Digit(i, c) \in Int
    BY DigitsAreInts
  <1>3. \A c \in 1 .. size : rest[c] = Byte(Digit(i, c))
    BY Zenon
  <1> DEFINE Tokens == {first} \cup {rest[c] : c \in 1 .. size}
  <1>4. rest \in [1 .. size -> Tokens] /\ first \in Tokens
    BY Zenon
  <1> HIDE DEF rest, first, Tokens
  <1>5. rest \in Seq(Tokens) /\ Len(rest) = size
    BY <1>4, SMT
  <1>6. <<first>> \in Seq(Tokens) /\ Len(<<first>>) = 1 /\ <<first>>[1] = first
    BY <1>4, SMT
  <1>7. /\ Len(EncInt(i)) = size + 1 /\ EncInt(i)[1] = first
        /\ \A k \in 1 .. size : EncInt(i)[1 + k] = rest[k]
    BY <1>1, <1>5, <1>6, SMT
  <1>8. ByteAt(EncInt(i), 1) = ByteCount(i) % 256
    BY <1>7, SMT DEF ByteAt, At, Byte, first
  <1>9. ASSUME NEW k \in 1 .. size PROVE ByteAt(EncInt(i), 1 + k) = Digit(i, k)
    <2>1. 1 + k <= Len(EncInt(i))
      BY <1>7, SMT
    <2>2. EncInt(i)[1 + k] = Byte(Digit(i, k))
      BY <1>3, <1>7, Zenon
    <2> QED
      BY <2>1, <2>2, SMT DEF ByteAt, At, Byte
  <1>10. ASSUME NEW k \in 1 .. 4 PROVE ByteAt(EncInt(i), 1 + k) \in Int
    <2>1. CASE k \in 1 .. size
      BY <1>2, <1>9, <2>1, SMT
    <2>2. CASE k \notin 1 .. size
      <3>1. ~(1 + k <= Len(EncInt(i)))
        BY <1>7, <2>2, SMT
      <3> QED
        BY <3>1, SMT DEF ByteAt, At, Byte
    <2> QED
      BY <2>1, <2>2
  <1> QED
    BY <1>7, <1>8, <1>9, <1>10

-----------------------------------------------------------------------------
(* What readInt reads.                                                     *)

\* How many bytes follow a first byte c, and what they are where none is written.
Following(c) == IF c < 0 THEN -c ELSE c
Filler(c) == IF c < 0 THEN 255 ELSE 0

\* The sums that readInt runs through.
IsSum(f, s, p, c) ==
    f = [k \in 0 .. Following(c) |->
            IF k = 0 THEN 0
            ELSE f[k - 1] + (ByteAt(s, p + k) - Filler(c)) * Weight(k)]

\* The function IntFrom reads with.
SumOf(s, p, c) == CHOOSE f : IsSum(f, s, p, c)

\* What a byte adds to the sum.
Addend(s, p, c, k) == ByteAt(s, p + k) - Filler(c)

\* The sum that IntFrom takes is that one.
LEMMA FromSum ==
    ASSUME NEW s, NEW p, NEW c
    PROVE  IntFrom(s, p, c) =
             IF c > 5 THEN [n |-> c - 5, at |-> p + 1]
             ELSE IF c < -5 THEN [n |-> c + 5, at |-> p + 1]
             ELSE [n |-> IF c < 0 THEN SumOf(s, p, c)[Following(c)] - 1
                         ELSE SumOf(s, p, c)[Following(c)],
                   at |-> p + 1 + Following(c)]
  BY Zenon DEF IntFrom, SumOf, IsSum, Following, Filler, Weight

\* What the sum comes to, for up to four bytes.
LEMMA SumsUp ==
    ASSUME NEW s, NEW p, NEW c \in -4 .. 4,
           \A k \in 1 .. 4 : ByteAt(s, p + k) \in Int
    PROVE  /\ Following(c) = 0 => SumOf(s, p, c)[Following(c)] = 0
           /\ Following(c) = 1 =>
                 SumOf(s, p, c)[Following(c)] = Addend(s, p, c, 1)
           /\ Following(c) = 2 =>
                 SumOf(s, p, c)[Following(c)] =
                    Addend(s, p, c, 1) + Addend(s, p, c, 2) * 256
           /\ Following(c) = 3 =>
                 SumOf(s, p, c)[Following(c)] =
                    Addend(s, p, c, 1) + Addend(s, p, c, 2) * 256
                        + Addend(s, p, c, 3) * 65536
           /\ Following(c) = 4 =>
                 SumOf(s, p, c)[Following(c)] =
                    Addend(s, p, c, 1) + Addend(s, p, c, 2) * 256
                        + Addend(s, p, c, 3) * 65536
                        + Addend(s, p, c, 4) * 16777216
  <1> DEFINE d(k) == Addend(s, p, c, k)
             t(k) == d(k) * Weight(k)
             size == Following(c)
             total(k) == IF k = 0 THEN 0 ELSE IF k = 1 THEN 0 + t(1)
                         ELSE IF k = 2 THEN (0 + t(1)) + t(2)
                         ELSE IF k = 3 THEN ((0 + t(1)) + t(2)) + t(3)
                         ELSE (((0 + t(1)) + t(2)) + t(3)) + t(4)
             g == [k \in 0 .. size |-> total(k)]
             f == SumOf(s, p, c)
  <1>1. size \in 0 .. 4
    BY SMT DEF Following
  <1>2. \A h : IsSum(h, s, p, c) <=>
                  h = [k \in 0 .. size |-> IF k = 0 THEN 0 ELSE h[k - 1] + t(k)]
    BY Zenon DEF IsSum, Addend
  <1>3. /\ d(1) \in Int /\ d(2) \in Int /\ d(3) \in Int /\ d(4) \in Int
    <2>1. Filler(c) \in Int
      BY SMT DEF Filler
    <2> QED
      BY <2>1, SMT DEF Addend
  <1>4. /\ t(1) = d(1) /\ t(2) = d(2) * 256 /\ t(3) = d(3) * 65536
        /\ t(4) = d(4) * 16777216
    BY <1>3, Weights, SMT
  <1> HIDE DEF d, size, f, t
  <1>5. IsSum(g, s, p, c)
    <2>1. ASSUME NEW k \in 0 .. size
          PROVE  total(k) = IF k = 0 THEN 0 ELSE g[k - 1] + t(k)
      <3>1. CASE k = 0
        BY <3>1, Zenon
      <3>2. CASE k # 0
        <4>1. k = 1 \/ k = 2 \/ k = 3 \/ k = 4
          BY <1>1, <3>2, SMT
        <4>2. k - 1 \in 0 .. size
          BY <1>1, <3>2, SMT
        <4>3. g[k - 1] = total(k - 1)
          BY <4>2, Zenon
        <4>4. total(k) = total(k - 1) + t(k)
          BY <4>1, SMT
        <4> QED
          BY <3>2, <4>3, <4>4, Zenon
      <3> QED
        BY <3>1, <3>2
    <2> HIDE DEF total
    <2>2. g = [k \in 0 .. size |-> IF k = 0 THEN 0 ELSE g[k - 1] + t(k)]
      BY <2>1, Zenon
    <2> QED
      BY <1>2, <2>2, Zenon
  <1> HIDE DEF g, total
  <1>6. IsSum(f, s, p, c)
    BY <1>5, Zenon DEF SumOf, f
  <1>7. \A k \in 0 .. size : f[k] = IF k = 0 THEN 0 ELSE f[k - 1] + t(k)
    <2>1. f = [k \in 0 .. size |-> IF k = 0 THEN 0 ELSE f[k - 1] + t(k)]
      BY <1>2, <1>6, Zenon
    <2> QED
      BY <2>1, Zenon
  <1>8. /\ f[0] = 0
        /\ size >= 1 => f[1] = 0 + t(1)
        /\ size >= 2 => f[2] = f[1] + t(2)
        /\ size >= 3 => f[3] = f[2] + t(3)
        /\ size >= 4 => f[4] = f[3] + t(4)
    <2>1. f[0] = 0
      BY <1>1, <1>7, SMT
    <2>2. \A k \in 1 .. 4 : size >= k => f[k] = f[k - 1] + t(k)
      BY <1>1, <1>7, SMT
    <2>3. /\ 1 \in 1 .. 4 /\ 2 \in 1 .. 4 /\ 3 \in 1 .. 4 /\ 4 \in 1 .. 4
          /\ 1 - 1 = 0 /\ 2 - 1 = 1 /\ 3 - 1 = 2 /\ 4 - 1 = 3
      BY SMT
    <2> QED
      BY <2>1, <2>2, <2>3, Zenon
  <1> QED
    BY <1>1, <1>3, <1>4, <1>8, SMT DEF d, size, f

\* An integer that encInt encodes is read back, to its last byte.
LEMMA ReadsShort ==
    ASSUME NEW i \in -123 .. 122
    PROVE  ReadInt(EncInt(i), 1) = [n |-> i, at |-> Len(EncInt(i)) + 1]
  <1> DEFINE s == EncInt(i)
             c == Signed(ByteAt(s, 1))
  <1>1. /\ Len(s) = 1
        /\ ByteAt(s, 1) = IF i = 0 THEN 0 ELSE IF i > 0 THEN i + 5 ELSE i + 251
    BY WritesShort
  <1>2. c = IF i = 0 THEN 0 ELSE IF i > 0 THEN i + 5 ELSE i - 5
    BY <1>1, SMT DEF Signed
  <1>3. ReadInt(s, 1) = IntFrom(s, 1, c)
    BY DEF ReadInt
  <1> HIDE DEF s, c
  <1>4. CASE i # 0
    <2>1. c > 5 \/ c < -5
      BY <1>2, <1>4, SMT
    <2>2. IntFrom(s, 1, c) = [n |-> IF c > 5 THEN c - 5 ELSE c + 5, at |-> 2]
      BY <2>1, FromSum, SMT
    <2>3. (IF c > 5 THEN c - 5 ELSE c + 5) = i
      BY <1>2, <1>4, SMT
    <2> QED
      BY <1>1, <1>3, <2>2, <2>3, SMT DEF s
  <1>5. CASE i = 0
    <2>1. c = 0
      BY <1>2, <1>5, SMT
    <2>2. \A k \in 1 .. 4 : ByteAt(s, 1 + k) \in Int
      <3>1. ASSUME NEW k \in 1 .. 4 PROVE ByteAt(s, 1 + k) = 0
        <4>1. ~(1 + k <= Len(s))
          BY <1>1, SMT
        <4> QED
          BY <4>1, SMT DEF ByteAt, At, Byte
      <3> QED
        BY <3>1, SMT
    <2>3. Following(c) = 0 /\ c \in -4 .. 4
      BY <2>1, SMT DEF Following
    <2>4. SumOf(s, 1, c)[Following(c)] = 0
      BY <2>2, <2>3, SumsUp, SMT
    <2>5. IntFrom(s, 1, c) = [n |-> 0, at |-> 2]
      <3>1. IntFrom(s, 1, c) =
             IF c > 5 THEN [n |-> c - 5, at |-> 1 + 1]
             ELSE IF c < -5 THEN [n |-> c + 5, at |-> 1 + 1]
             ELSE [n |-> IF c < 0 THEN SumOf(s, 1, c)[Following(c)] - 1
                         ELSE SumOf(s, 1, c)[Following(c)],
                   at |-> 1 + 1 + Following(c)]
        BY FromSum, Zenon
      <3> QED
        BY <2>1, <2>3, <2>4, <3>1, SMT
    <2> QED
      BY <1>1, <1>3, <1>5, <2>5, SMT DEF s
  <1> QED
    BY <1>4, <1>5

\* The integer of up to four digits, filled up with zeros or ones.
LEMMA SumOfDigits ==
    ASSUME NEW i \in Int, InRange(i) # {}
    PROVE  LET d(k) == Digit(i, k) - Filler(ByteCount(i))
               size == Following(ByteCount(i))
               less == IF ByteCount(i) < 0 THEN 1 ELSE 0
           IN  /\ size = 1 => i = d(1) - less
               /\ size = 2 => i = d(1) + d(2) * 256 - less
               /\ size = 3 => i = d(1) + d(2) * 256 + d(3) * 65536 - less
               /\ size = 4 => i = d(1) + d(2) * 256 + d(3) * 65536
                                       + d(4) * 16777216 - less
  <1> DEFINE b1 == Digit(i, 1)
             b2 == Digit(i, 2)
             b3 == Digit(i, 3)
             b4 == Digit(i, 4)
  <1>1. b1 \in Int /\ b2 \in Int /\ b3 \in Int /\ b4 \in Int
    BY DigitsAreInts, SMT
  <1>2. /\ i = b1 + 256 * (i \div 256)
        /\ i \div 256 = b2 + 256 * (i \div 65536)
        /\ i \div 65536 = b3 + 256 * (i \div 16777216)
        /\ b4 = (i \div 16777216) % 256
    BY Digits, SMT
  <1> HIDE DEF b1, b2, b3, b4
  <1>3. CASE ByteCount(i) = 1 /\ 123 <= i /\ i <= 255
    BY <1>1, <1>2, <1>3, SMT DEF Following, Filler, b1
  <1>4. CASE ByteCount(i) = 2 /\ 256 <= i /\ i <= 65535
    BY <1>1, <1>2, <1>4, SMT DEF Following, Filler, b1, b2
  <1>5. CASE ByteCount(i) = 3 /\ 65536 <= i /\ i <= 16777215
    BY <1>1, <1>2, <1>5, SMT DEF Following, Filler, b1, b2, b3
  <1>6. CASE ByteCount(i) = 4 /\ 16777216 <= i /\ i <= 1073741823
    BY <1>1, <1>2, <1>6, SMT DEF Following, Filler, b1, b2, b3, b4
  <1>7. CASE ByteCount(i) = -1 /\ -256 <= i /\ i <= -124
    BY <1>1, <1>2, <1>7, SMT DEF Following, Filler, b1
  <1>8. CASE ByteCount(i) = -2 /\ -65536 <= i /\ i <= -257
    BY <1>1, <1>2, <1>8, SMT DEF Following, Filler, b1, b2
  <1>9. CASE ByteCount(i) = -3 /\ -16777216 <= i /\ i <= -1048577
    BY <1>1, <1>2, <1>9, SMT DEF Following, Filler, b1, b2, b3
  <1>10. CASE ByteCount(i) = -4 /\ -1073741824 <= i /\ i <= -16777217
    BY <1>1, <1>2, <1>10, SMT DEF Following, Filler, b1, b2, b3, b4
  <1> QED
    BY <1>3, <1>4, <1>5, <1>6, <1>7, <1>8, <1>9, <1>10, Counts, SMT

\* What encInt writes in several bytes readInt reads back.
LEMMA ReadsLong ==
    ASSUME NEW i \in Int, i \notin -123 .. 122, InRange(i) # {}
    PROVE  ReadInt(EncInt(i), 1) = [n |-> i, at |-> Len(EncInt(i)) + 1]
  <1> DEFINE s == EncInt(i)
             c == ByteCount(i)
             size == Following(c)
  <1>1. c \in -4 .. 4 /\ c # 0 /\ size \in 1 .. 4
    <2>1. \/ c = 1 \/ c = 2 \/ c = 3 \/ c = 4
          \/ c = -1 \/ c = -2 \/ c = -3 \/ c = -4
      BY Counts, SMT
    <2> QED
      BY <2>1, SMT DEF Following
  <1>2. /\ Len(s) = size + 1 /\ ByteAt(s, 1) = c % 256
        /\ \A k \in 1 .. size : ByteAt(s, 1 + k) = Digit(i, k)
        /\ \A k \in 1 .. 4 : ByteAt(s, 1 + k) \in Int
    <2>1. size = IF ByteCount(i) < 0 THEN -ByteCount(i) ELSE ByteCount(i)
      BY DEF Following
    <2> HIDE DEF size
    <2> QED
      BY <1>1, <2>1, WritesLong
  <1>3. Signed(ByteAt(s, 1)) = c
    <2>1. c >= 0 => c % 256 = c
      BY <1>1, SMT
    <2>2. c < 0 => c % 256 = c + 256
      BY <1>1, SMT
    <2> QED
      BY <1>1, <1>2, <2>1, <2>2, SMT DEF Signed
  <1>4. ReadInt(s, 1) = IntFrom(s, 1, c)
    BY <1>3 DEF ReadInt
  <1> DEFINE sum == SumOf(s, 1, c)[size]
             d(k) == Addend(s, 1, c, k)
             less == IF c < 0 THEN 1 ELSE 0
  <1>5. IntFrom(s, 1, c) =
             IF c > 5 THEN [n |-> c - 5, at |-> 1 + 1]
             ELSE IF c < -5 THEN [n |-> c + 5, at |-> 1 + 1]
             ELSE [n |-> IF c < 0 THEN sum - 1 ELSE sum, at |-> 1 + 1 + size]
    BY FromSum, Zenon
  <1>6. /\ size = 1 => sum = d(1)
        /\ size = 2 => sum = d(1) + d(2) * 256
        /\ size = 3 => sum = d(1) + d(2) * 256 + d(3) * 65536
        /\ size = 4 => sum = d(1) + d(2) * 256 + d(3) * 65536 + d(4) * 16777216
    <2>1. c \in -4 .. 4 /\ \A k \in 1 .. 4 : ByteAt(s, 1 + k) \in Int
      BY <1>1, <1>2
    <2> HIDE DEF s, c
    <2> QED
      BY <2>1, SumsUp, SMT
  <1> DEFINE e(k) == Digit(i, k) - Filler(c)
  <1>7. /\ size = 1 => i = e(1) - less
        /\ size = 2 => i = e(1) + e(2) * 256 - less
        /\ size = 3 => i = e(1) + e(2) * 256 + e(3) * 65536 - less
        /\ size = 4 => i = e(1) + e(2) * 256 + e(3) * 65536
                                + e(4) * 16777216 - less
    BY SumOfDigits, SMT
  <1>8. \A k \in 1 .. size : d(k) = e(k)
    BY <1>2, SMT DEF Addend
  <1>9. e(1) \in Int /\ e(2) \in Int /\ e(3) \in Int /\ e(4) \in Int
    <2>1. Filler(c) \in Int
      BY SMT DEF Filler
    <2> QED
      BY <2>1, DigitsAreInts, SMT
  <1> HIDE DEF s, c, size, sum, d, e
  <1>10. i = sum - less /\ sum \in Int
    <2>1. size = 1 \/ size = 2 \/ size = 3 \/ size = 4
      BY <1>1, SMT
    <2>2. /\ d(1) = e(1) /\ (size >= 2 => d(2) = e(2))
          /\ (size >= 3 => d(3) = e(3)) /\ (size >= 4 => d(4) = e(4))
      BY <1>1, <1>8, SMT
    <2> QED
      BY <1>6, <1>7, <1>9, <2>1, <2>2, SMT
  <1>11. IntFrom(s, 1, c) = [n |-> i, at |-> Len(s) + 1]
    <2>1. IntFrom(s, 1, c) =
              [n |-> IF c < 0 THEN sum - 1 ELSE sum, at |-> 1 + 1 + size]
      BY <1>1, <1>5, SMT
    <2>2. (IF c < 0 THEN sum - 1 ELSE sum) = i
      BY <1>1, <1>10, SMT
    <2>3. 1 + 1 + size = Len(s) + 1
      BY <1>1, <1>2, SMT
    <2> QED
      BY <2>1, <2>2, <2>3, Zenon
  <1> QED
    BY <1>4, <1>11 DEF s

\* So every integer that encInt encodes is.
LEMMA IntRead ==
    ASSUME NEW i \in Int, Encodes(i)
    PROVE  ReadInt(EncInt(i), 1) = [n |-> i, at |-> Len(EncInt(i)) + 1]
  BY ReadsShort, ReadsLong, Zenon DEF Encodes

-----------------------------------------------------------------------------
(* The inputs.                                                             *)

InputInv == /\ stored \subseteq Gem /\ IsFiniteSet(stored)
            /\ Cardinality(stored) \in Countable
            /\ number \in Int /\ Encodes(number)

\* Every input is a finite set of gem files, no more than can be counted in an
\* index, and an integer with an encoding.
LEMMA Inputs == Spec => []InputInv
  <1>1. Init => InputInv
    BY FS_EmptySet DEF Init, InputInv, Encodes, Countable
  <1>2. InputInv /\ [Next]_vars => InputInv'
    <2> SUFFICES ASSUME InputInv, [Next]_vars PROVE InputInv'
      OBVIOUS
    <2>1. CASE AddFile
      <3>1. PICK g \in Gem : stored' = stored \cup {g}
        BY <2>1 DEF AddFile
      <3>2. IsFiniteSet(stored') /\ stored' \subseteq Gem /\ number' = number
        BY <2>1, <3>1, FS_AddElement DEF AddFile, InputInv
      <3>3. Cardinality(stored') \in Nat /\ Cardinality(stored') <= MaxSpecs
        <4>1. Cardinality(stored') \in {Cardinality(stored), Cardinality(stored) + 1}
          BY <3>1, FS_AddElement DEF InputInv
        <4>2. Cardinality(stored) \in Nat /\ Cardinality(stored) < MaxSpecs
          BY <2>1 DEF AddFile, InputInv, Countable
        <4>3. MaxSpecs \in Nat
          BY EncodedAssumption DEF Countable
        <4> QED
          BY <4>1, <4>2, <4>3
      <3>4. Cardinality(stored') \in Countable
        BY <3>3, EncodedAssumption DEF Countable
      <3> QED
        BY <3>2, <3>4 DEF InputInv
    <2>2. CASE LeaveOut
      BY <2>2 DEF LeaveOut, InputInv
    <2>3. CASE AddDependency
      BY <2>3 DEF AddDependency, InputInv
    <2>4. CASE Encode
      BY <2>4, EncodedAssumption DEF Encode, InputInv
    <2>5. CASE UNCHANGED vars
      BY <2>5 DEF vars, InputInv
    <2> QED
      BY <2>1, <2>2, <2>3, <2>4, <2>5 DEF Next
  <1> QED
    BY <1>1, <1>2, PTL DEF Spec

\* What FindIndexOf answers is the place of the spec asked for, in any walk: a
\* yank never deletes the entry of another gem.
THEOREM FindsNoOther == Spec => []FindsNothingElse
  <1>1. InputInv => FindsNothingElse
    <2> SUFFICES ASSUME InputInv, NEW s \in Gem, FindIndexOf(Walk, s) # -1
                 PROVE  /\ FindIndexOf(Walk, s) \in 0 .. Len(Walk) - 1
                        /\ Walk[FindIndexOf(Walk, s) + 1] = s
      BY DEF FindsNothingElse
    <2>1. ByName(Walk)
      BY WalkByName DEF InputInv, Walk
    <2>2. s.name \in Nat
      BY SpecListAssumption DEF Gem
    <2> QED
      BY <2>1, <2>2, FindsOnly
  <1> QED
    BY <1>1, Inputs, PTL

\* The spec of a name that is walked last is found, in any walk.
THEOREM FindsLastOfName == Spec => []FindsTheLastOfAName
  <1>1. InputInv => FindsTheLastOfAName
    BY FindsLast DEF InputInv, FindsTheLastOfAName, Walk
  <1> QED
    BY <1>1, Inputs, PTL

\* The latest index has one entry for a name, and the merge of an upload gives
\* what a partition of all the specs would.
THEOREM MergeEqualsPartition == Spec => []MergeIsLatest
  <1>1. InputInv => MergeIsLatest
    BY OneLatest, MergeAgrees DEF InputInv, MergeIsLatest
  <1> QED
    BY <1>1, Inputs, PTL

\* Whatever integer of those it encodes encInt writes, readInt reads.
THEOREM IntsRead == Spec => []IntsAreRead
  <1>1. InputInv => IntsAreRead
    BY IntRead DEF InputInv, IntsAreRead
  <1> QED
    BY <1>1, Inputs, PTL

-----------------------------------------------------------------------------
(* Streams as sequences of tokens, and integers in them.                   *)

\* The tokens of an index: its signs, integers and texts.
Letters == {"I", "\"", "T", ":", ";", "[", "U"}
Texts == [of : {"E", "Gem::Version"} \cup Nat, length : Nat]
Token == {Sign(c) : c \in Letters} \cup {Byte(n) : n \in Int}
            \cup {Text(t) : t \in Texts}

\* What a reader takes for a byte is an integer, wherever it looks.
LEMMA BytesAreInts ==
    ASSUME NEW s \in Seq(Token), NEW p \in Nat, p # 0
    PROVE  ByteAt(s, p) \in Int
  <1>1. CASE p <= Len(s)
    <2>1. s[p] \in Token /\ At(s, p) = s[p]
      BY <1>1 DEF At
    <2>2. CASE \E n \in Int : s[p] = Byte(n)
      BY <2>1, <2>2 DEF ByteAt, Byte
    <2>3. CASE \E c \in Letters : s[p] = Sign(c)
      BY <2>1, <2>3 DEF ByteAt, Sign
    <2>4. CASE \E t \in Texts : s[p] = Text(t)
      BY <2>1, <2>4 DEF ByteAt, Text
    <2> QED
      BY <2>1, <2>2, <2>3, <2>4 DEF Token
  <1>2. CASE ~(p <= Len(s))
    BY <1>2 DEF ByteAt, At, Byte
  <1> QED
    BY <1>1, <1>2

\* How many bytes readInt takes after the first one.
Extent(c) == IF c > 5 \/ c < -5 THEN 0 ELSE Following(c)

\* Where readInt stops: the first byte alone decides.
LEMMA ReadsTo ==
    ASSUME NEW s, NEW p \in Nat, ByteAt(s, p) \in Int
    PROVE  /\ Extent(Signed(ByteAt(s, p))) \in Nat
           /\ ReadInt(s, p) = [n |-> ReadInt(s, p).n,
                               at |-> p + 1 + Extent(Signed(ByteAt(s, p)))]
  <1> DEFINE c == Signed(ByteAt(s, p))
  <1>1. c \in Int
    BY DEF Signed
  <1>2. ReadInt(s, p) = IntFrom(s, p, c)
    BY Zenon DEF ReadInt
  <1> HIDE DEF c
  <1>3. Following(c) \in Nat
    BY <1>1 DEF Following
  <1>4. IntFrom(s, p, c) =
             IF c > 5 THEN [n |-> c - 5, at |-> p + 1]
             ELSE IF c < -5 THEN [n |-> c + 5, at |-> p + 1]
             ELSE [n |-> IF c < 0 THEN SumOf(s, p, c)[Following(c)] - 1
                         ELSE SumOf(s, p, c)[Following(c)],
                   at |-> p + 1 + Following(c)]
    BY FromSum, Zenon
  <1>5. Extent(c) \in Nat /\ IntFrom(s, p, c) = [n |-> IntFrom(s, p, c).n, at |-> p + 1 + Extent(c)]
    BY <1>1, <1>3, <1>4, SMT DEF Extent
  <1> QED
    BY <1>2, <1>5 DEF c

\* The sum is that of the bytes, wherever they are.
LEMMA SameSum ==
    ASSUME NEW s, NEW t, NEW p, NEW q, NEW c \in Int,
           \A k \in 1 .. Following(c) : ByteAt(s, p + k) = ByteAt(t, q + k)
    PROVE  SumOf(s, p, c) = SumOf(t, q, c)
  <1>1. ASSUME NEW f PROVE IsSum(f, s, p, c) <=> IsSum(f, t, q, c)
    <2> DEFINE a(k) == IF k = 0 THEN 0
                       ELSE f[k - 1] + (ByteAt(s, p + k) - Filler(c)) * Weight(k)
               b(k) == IF k = 0 THEN 0
                       ELSE f[k - 1] + (ByteAt(t, q + k) - Filler(c)) * Weight(k)
    <2>1. ASSUME NEW k \in 0 .. Following(c) PROVE a(k) = b(k)
      <3>1. k = 0 \/ k \in 1 .. Following(c)
        BY SMT
      <3> QED
        BY <3>1, Zenon
    <2> HIDE DEF a, b
    <2>2. [k \in 0 .. Following(c) |-> a(k)] = [k \in 0 .. Following(c) |-> b(k)]
      BY <2>1, Zenon
    <2> QED
      BY <2>2, Zenon DEF IsSum, a, b
  <1>2. (CHOOSE f : IsSum(f, s, p, c)) = (CHOOSE f : IsSum(f, t, q, c))
    BY <1>1
  <1> QED
    BY <1>2, Zenon DEF SumOf

\* What readInt reads is the same wherever its bytes are the same.
LEMMA SameInt ==
    ASSUME NEW s, NEW t, NEW p \in Nat, NEW q \in Nat, ByteAt(t, q) \in Int,
           \A k \in 0 .. Extent(Signed(ByteAt(t, q))) :
              ByteAt(s, p + k) = ByteAt(t, q + k)
    PROVE  ReadInt(s, p) = [n |-> ReadInt(t, q).n,
                            at |-> p + 1 + Extent(Signed(ByteAt(t, q)))]
  <1> DEFINE c == Signed(ByteAt(t, q))
  <1>1. c \in Int
    BY DEF Signed
  <1>2. Extent(c) \in Nat
    BY ReadsTo
  <1>3. ByteAt(s, p) = ByteAt(t, q)
    <2>1. 0 \in 0 .. Extent(c) /\ p + 0 = p /\ q + 0 = q
      BY <1>2
    <2> QED
      BY <2>1
  <1>4. ReadInt(t, q) = IntFrom(t, q, c) /\ ReadInt(s, p) = IntFrom(s, p, c)
    BY <1>3, Zenon DEF ReadInt
  <1>5. Following(c) \in Nat
    BY <1>1 DEF Following
  <1>6. ~(c > 5) /\ ~(c < -5) => SumOf(s, p, c) = SumOf(t, q, c)
    <2> SUFFICES ASSUME ~(c > 5), ~(c < -5) PROVE SumOf(s, p, c) = SumOf(t, q, c)
      OBVIOUS
    <2>1. Extent(c) = Following(c)
      BY DEF Extent
    <2> HIDE DEF c
    <2>2. \A k \in 1 .. Following(c) : k \in 0 .. Following(c)
      BY <1>5
    <2>3. \A k \in 1 .. Following(c) : ByteAt(s, p + k) = ByteAt(t, q + k)
      BY <2>1, <2>2 DEF c
    <2> QED
      BY <1>1, <2>3, SameSum
  <1> HIDE DEF c
  <1>7. IntFrom(s, p, c) =
             IF c > 5 THEN [n |-> c - 5, at |-> p + 1]
             ELSE IF c < -5 THEN [n |-> c + 5, at |-> p + 1]
             ELSE [n |-> IF c < 0 THEN SumOf(s, p, c)[Following(c)] - 1
                         ELSE SumOf(s, p, c)[Following(c)],
                   at |-> p + 1 + Following(c)]
    BY FromSum, Zenon
  <1>8. IntFrom(t, q, c) =
             IF c > 5 THEN [n |-> c - 5, at |-> q + 1]
             ELSE IF c < -5 THEN [n |-> c + 5, at |-> q + 1]
             ELSE [n |-> IF c < 0 THEN SumOf(t, q, c)[Following(c)] - 1
                         ELSE SumOf(t, q, c)[Following(c)],
                   at |-> q + 1 + Following(c)]
    BY FromSum, Zenon
  <1>9. IntFrom(s, p, c) = [n |-> IntFrom(t, q, c).n, at |-> p + 1 + Extent(c)]
    <2>1. CASE c > 5 \/ c < -5
      BY <1>1, <1>7, <1>8, <2>1, SMT DEF Extent
    <2>2. CASE ~(c > 5) /\ ~(c < -5)
      BY <1>1, <1>5, <1>6, <1>7, <1>8, <2>2, SMT DEF Extent
    <2> QED
      BY <2>1, <2>2
  <1> QED
    BY <1>4, <1>9 DEF c

\* Integers are written in tokens of a byte each.
LEMMA IntTokens ==
    ASSUME NEW i \in Int, Encodes(i)
    PROVE  EncInt(i) \in Seq(Token) /\ Len(EncInt(i)) \in Nat \ {0}
  <1> DEFINE count == ByteCount(i)
             size == IF count < 0 THEN -count ELSE count
             rest == [c \in 1 .. size |-> Byte((i \div 256 ^ (c - 1)) % 256)]
  <1>1. CASE i \in -123 .. 122
    <2>1. /\ Len(EncInt(i)) = 1
          /\ \E b \in Int : EncInt(i) = <<Byte(b)>>
      <3>1. EncInt(i) = <<Byte(0)>> \/ EncInt(i) = <<Byte(i + 5)>> \/ EncInt(i) = <<Byte((i - 5) % 256)>>
        <4>1. i = 0 \/ (i # 0 /\ i \in 1 .. 122) \/ (i # 0 /\ i \in -123 .. -1 /\ i \notin 1 .. 122)
          BY <1>1, SMT
        <4> QED
          BY <4>1 DEF EncInt, OneByte
      <3> QED
        BY <1>1, <3>1, WritesShort
    <2>2. PICK b \in Int : EncInt(i) = <<Byte(b)>>
      BY <2>1
    <2>3. Byte(b) \in Token
      BY DEF Token
    <2> HIDE DEF Token
    <2> QED
      BY <2>1, <2>2, <2>3
  <1>2. CASE i \notin -123 .. 122
    <2>1. InRange(i) # {}
      BY <1>2 DEF Encodes
    <2>2. size \in 1 .. 4 /\ count \in Int
      <3>1. \/ count = 1 \/ count = 2 \/ count = 3 \/ count = 4
            \/ count = -1 \/ count = -2 \/ count = -3 \/ count = -4
        BY <2>1, Counts, SMT
      <3> QED
        BY <3>1, SMT
    <2>3. EncInt(i) = <<Byte(count % 256)>> \o rest
      <3>1. i # 0 /\ i \notin 1 .. 122 /\ i \notin -123 .. -1
        BY <1>2, SMT
      <3> QED
        BY <3>1, Zenon DEF EncInt, OneByte
    <2>4. Byte(count % 256) \in Token
      <3>1. count % 256 \in Int
        BY <2>2, SMT
      <3> QED
        BY <3>1, Zenon DEF Token
    <2>5. \A c \in 1 .. size : rest[c] \in Token
      <3> SUFFICES ASSUME NEW c \in 1 .. size PROVE rest[c] \in Token
        OBVIOUS
      <3>1. Digit(i, c) \in Int
        BY <2>2, DigitsAreInts, SMT
      <3>2. rest[c] = Byte(Digit(i, c))
        BY Zenon DEF Digit, Weight
      <3> QED
        BY <3>1, <3>2, Zenon DEF Token
    <2> HIDE DEF Token, count
    <2>6. rest \in [1 .. size -> Token]
      BY <2>5, Zenon
    <2> HIDE DEF rest, size
    <2>7. rest \in Seq(Token) /\ <<Byte(count % 256)>> \in Seq(Token)
      BY <2>2, <2>4, <2>6, SMT
    <2> QED
      BY <2>3, <2>7, SMT
  <1> QED
    BY <1>1, <1>2

\* Part s of the stream d: what d has there.
Holds(d, p, s) ==
    p + Len(s) <= Len(d) + 1 /\ \A k \in 1 .. Len(s) : d[p + k - 1] = s[k]

\* An integer that is somewhere in a stream is read there.
LEMMA IntHeld ==
    ASSUME NEW i \in Int, Encodes(i), NEW d \in Seq(Token), NEW p \in Nat \ {0},
           Holds(d, p, EncInt(i))
    PROVE  ReadInt(d, p) = [n |-> i, at |-> p + Len(EncInt(i))]
  <1> DEFINE t == EncInt(i)
             size == Extent(Signed(ByteAt(t, 1)))
  <1>1. t \in Seq(Token) /\ Len(t) \in Nat \ {0}
    BY IntTokens
  <1>2. ByteAt(t, 1) \in Int
    BY <1>1, BytesAreInts
  <1>3. ReadInt(t, 1) = [n |-> i, at |-> Len(t) + 1]
    BY IntRead
  <1>4. size \in Nat /\ Len(t) = size + 1
    <2>1. size \in Nat /\ ReadInt(t, 1) = [n |-> ReadInt(t, 1).n, at |-> 1 + 1 + size]
      BY <1>2, ReadsTo
    <2> QED
      BY <1>1, <1>3, <2>1
  <1>5. ASSUME NEW k \in 0 .. size PROVE ByteAt(d, p + k) = ByteAt(t, 1 + k)
    <2>1. d[p + k] = t[1 + k]
      <3>1. 1 + k \in 1 .. Len(t) /\ p + (1 + k) - 1 = p + k
        BY <1>4
      <3> QED
        BY <3>1 DEF Holds
    <2>2. p + k <= Len(d) /\ 1 + k <= Len(t)
      BY <1>1, <1>4 DEF Holds
    <2> QED
      BY <2>1, <2>2 DEF ByteAt, At
  <1> HIDE DEF t, size
  <1>6. ReadInt(d, p) = [n |-> ReadInt(t, 1).n, at |-> p + 1 + size]
    BY <1>2, <1>5, SameInt DEF size
  <1> QED
    BY <1>1, <1>3, <1>4, <1>6 DEF t

-----------------------------------------------------------------------------
(* A stream cut short, read beside the whole one.                          *)

\* A stream s that is the beginning of d.
IsPart(s, d) ==
    /\ s \in Seq(Token) /\ d \in Seq(Token) /\ Len(s) <= Len(d)
    /\ \A p \in 1 .. Len(s) : s[p] = d[p]

\* A reader, as each step of LoadSpecs leaves it.
IsReader(r) ==
    /\ DOMAIN r = {"at", "ok", "texts", "links", "specs"}
    /\ r.at \in Nat \ {0} /\ r.ok \in BOOLEAN

\* A reader r of both came to be x in s and y in d: the same, or x is past the
\* end of s.
Goes(s, r, x, y) ==
    /\ IsReader(x) /\ r.at < x.at /\ (x.ok => r.ok)
    /\ x = y \/ x.at > Len(s)

\* Two readers that go on as one go on as one after another step of each.
LEMMA GoesOn ==
    ASSUME NEW s \in Seq(Token), NEW r, IsReader(r), NEW x, NEW y, NEW u, NEW v, NEW w,
           Goes(s, r, x, y), Goes(s, x, u, v), x = y => v = w
    PROVE  Goes(s, r, u, w)
  BY DEF Goes, IsReader

\* A stream and the beginning of it have the same tokens.
LEMMA SameToken ==
    ASSUME NEW s, NEW d, IsPart(s, d), NEW p \in Nat \ {0}, p <= Len(s)
    PROVE  At(s, p) = At(d, p) /\ ByteAt(s, p) = ByteAt(d, p)
  BY DEF IsPart, At, ByteAt

\* After the end there is no sign.
LEMMA NoSignAfter ==
    ASSUME NEW s \in Seq(Token), NEW p \in Nat, p > Len(s), NEW c
    PROVE  At(s, p) # Sign(c)
  BY DEF At, Byte, Sign

\* An integer that reaches over the end of s leaves the reader behind it.
LEMMA TornInt ==
    ASSUME NEW s, NEW d, IsPart(s, d), NEW p \in Nat \ {0}
    PROVE  /\ ReadInt(s, p).at \in Nat /\ ReadInt(s, p).at > p
           /\ ReadInt(s, p) = ReadInt(d, p) \/ ReadInt(s, p).at > Len(s)
  <1> DEFINE size == Extent(Signed(ByteAt(d, p)))
  <1>1. s \in Seq(Token) /\ d \in Seq(Token)
    BY DEF IsPart
  <1>2. ByteAt(s, p) \in Int /\ ByteAt(d, p) \in Int
    BY <1>1, BytesAreInts
  <1>3. /\ Extent(Signed(ByteAt(s, p))) \in Nat
        /\ ReadInt(s, p).at = p + 1 + Extent(Signed(ByteAt(s, p)))
    BY <1>2, ReadsTo
  <1>4. size \in Nat
    BY <1>2, ReadsTo
  <1>5. ReadInt(d, p) = [n |-> ReadInt(d, p).n, at |-> p + 1 + size]
    BY <1>2, ReadsTo
  <1>6. CASE p + size <= Len(s)
    <2>1. \A k \in 0 .. size : ByteAt(s, p + k) = ByteAt(d, p + k)
      <3> SUFFICES ASSUME NEW k \in 0 .. size PROVE ByteAt(s, p + k) = ByteAt(d, p + k)
        OBVIOUS
      <3>1. p + k \in Nat \ {0} /\ p + k <= Len(s)
        BY <1>1, <1>4, <1>6
      <3> QED
        BY <3>1, SameToken
    <2>2. ReadInt(s, p) = [n |-> ReadInt(d, p).n, at |-> p + 1 + size]
      BY <1>2, <2>1, SameInt
    <2> QED
      BY <1>3, <1>5, <2>2
  <1>7. CASE ~(p + size <= Len(s))
    <2>1. CASE p <= Len(s)
      <3>1. ByteAt(s, p) = ByteAt(d, p)
        BY <2>1, SameToken
      <3> QED
        BY <1>1, <1>3, <1>4, <1>7, <3>1
    <2>2. CASE ~(p <= Len(s))
      BY <1>1, <1>3, <2>2
    <2> QED
      BY <2>1, <2>2
  <1> QED
    BY <1>6, <1>7

\* What a step of a reader makes of it.
LEMMA SeesFields ==
    ASSUME NEW s, NEW r, IsReader(r), NEW signs, NEW x, x = Sees(s, r, signs)
    PROVE  /\ IsReader(x) /\ x.at = r.at + 1
           /\ x.ok <=> (r.ok /\ At(s, r.at) \in {Sign(c) : c \in signs})
           /\ x.texts = r.texts /\ x.links = r.links /\ x.specs = r.specs
  <1> DEFINE seen == At(s, r.at) \in {Sign(c) : c \in signs}
             both == r.ok /\ seen
             next == r.at + 1
  <1>1. x = [r EXCEPT !.at = next, !.ok = both]
    BY Zenon DEF Sees
  <1>2. both \in BOOLEAN /\ next \in Nat \ {0}
    BY DEF IsReader
  <1> HIDE DEF both, next, seen
  <1>3. /\ IsReader(x) /\ x.at = next /\ x.ok = both
        /\ x.texts = r.texts /\ x.links = r.links /\ x.specs = r.specs
    BY <1>1, <1>2 DEF IsReader
  <1> QED
    BY <1>3, Zenon DEF both, next, seen

\* The text at p, or zeros.
TextAt(s, p) == IF At(s, p)[1] = "text" THEN At(s, p)[2] ELSE Torn

\* What reading a text changes.
LEMMA TextFields ==
    ASSUME NEW s, NEW r, IsReader(r), NEW size, size.at \in Nat, NEW x,
           x = TextOfSize(s, r, size)
    PROVE  /\ IsReader(x) /\ x.at = size.at + 1
           /\ x.ok <=> (r.ok /\ (At(s, size.at)[1] = "text" =>
                                    At(s, size.at)[2].length = size.n))
           /\ x.texts = Append(r.texts, TextAt(s, size.at))
           /\ x.specs = r.specs
  <1> DEFINE text == TextAt(s, size.at)
             both == r.ok /\ (At(s, size.at)[1] = "text" => text.length = size.n)
             next == size.at + 1
             links == Append(r.links, text)
             texts == Append(r.texts, text)
  <1>1. x = [r EXCEPT !.at = next, !.links = links, !.texts = texts, !.ok = both]
    BY Zenon DEF TextOfSize, TextAt
  <1>2. both \in BOOLEAN /\ next \in Nat \ {0}
    BY DEF IsReader
  <1>3. both <=> (r.ok /\ (At(s, size.at)[1] = "text" =>
                                    At(s, size.at)[2].length = size.n))
    BY Zenon DEF TextAt
  <1> HIDE DEF both, next, text, links, texts
  <1>4. /\ IsReader(x) /\ x.at = next /\ x.ok = both /\ x.texts = texts
        /\ x.specs = r.specs
    BY <1>1, <1>2 DEF IsReader
  <1> QED
    BY <1>3, <1>4, Zenon DEF next, text, texts

\* What following a link to an object changes.
LEMMA ObjectFields ==
    ASSUME NEW s, NEW r, IsReader(r), NEW i, i.at \in Nat \ {0}, NEW x, x = ObjectOf(r, i)
    PROVE  IsReader(x) /\ x.at = i.at /\ (x.ok => r.ok)
  <1> DEFINE both == r.ok /\ i.n \in DOMAIN r.links
             text == IF i.n \in DOMAIN r.links THEN r.links[i.n] ELSE Torn
             texts == Append(r.texts, text)
  <1>1. x = [r EXCEPT !.at = i.at, !.ok = both, !.texts = texts]
    BY Zenon DEF ObjectOf
  <1>2. both \in BOOLEAN /\ (both => r.ok)
    BY DEF IsReader
  <1> HIDE DEF both, text, texts
  <1> QED
    BY <1>1, <1>2 DEF IsReader

\* What the check of a tuple's length changes.
LEMMA SizedFields ==
    ASSUME NEW r, IsReader(r), NEW size, size.at \in Nat \ {0}, NEW x,
           x = SizedTuple(r, size)
    PROVE  /\ IsReader(x) /\ x.at = size.at
           /\ x.ok <=> (r.ok /\ size.n = 3)
           /\ x.texts = <<>> /\ x.specs = r.specs
  <1> DEFINE both == r.ok /\ size.n = 3
             links == Append(r.links, Literal("["))
  <1>1. x = [r EXCEPT !.at = size.at, !.ok = both, !.texts = <<>>, !.links = links]
    BY Zenon DEF SizedTuple
  <1>2. both \in BOOLEAN
    BY DEF IsReader
  <1> HIDE DEF both, links
  <1>3. /\ IsReader(x) /\ x.at = size.at /\ x.ok = both /\ x.texts = <<>>
        /\ x.specs = r.specs
    BY <1>1, <1>2 DEF IsReader
  <1> QED
    BY <1>3, Zenon DEF both

\* What adding a spec changes.
LEMMA AddFields ==
    ASSUME NEW r, IsReader(r), NEW x, x = AddSpec(r)
    PROVE  /\ IsReader(x) /\ x.at = r.at /\ x.ok = r.ok
           /\ x.specs = Append(r.specs, [name |-> r.texts[1], number |-> r.texts[2],
                                         platform |-> r.texts[3]])
  BY DEF IsReader, AddSpec

\* The links that a reader notes do not move it.
LEMMA LinksFields ==
    ASSUME NEW r, IsReader(r), NEW l, NEW x, x = [r EXCEPT !.links = l]
    PROVE  /\ IsReader(x) /\ x.at = r.at /\ x.ok = r.ok
           /\ x.texts = r.texts /\ x.specs = r.specs
  BY DEF IsReader

\* The readers go on as one: where a sign is looked for, ...
LEMMA SeesGoes ==
    ASSUME NEW s, NEW d, IsPart(s, d), NEW r, IsReader(r), NEW signs
    PROVE  /\ Goes(s, r, Sees(s, r, signs), Sees(d, r, signs))
           /\ Sees(s, r, signs).at = r.at + 1
           /\ Sees(s, r, signs).ok => r.at <= Len(s)
  <1>1. r.at \in Nat \ {0} /\ Len(s) \in Nat
    BY DEF IsReader, IsPart
  <1> DEFINE x == Sees(s, r, signs)
  <1>2. /\ IsReader(x) /\ x.at = r.at + 1
        /\ (x.ok <=> (r.ok /\ At(s, r.at) \in {Sign(c) : c \in signs}))
    BY SeesFields
  <1>3. r.at <= Len(s) => x = Sees(d, r, signs)
    BY <1>1, SameToken DEF Sees
  <1> HIDE DEF x
  <1>4. x.ok => r.at <= Len(s)
    <2> SUFFICES ASSUME x.ok, r.at > Len(s) PROVE FALSE
      BY <1>1
    <2>1. At(s, r.at) \in {Sign(c) : c \in signs}
      BY <1>2
    <2>2. \A c \in signs : At(s, r.at) # Sign(c)
      BY <1>1, NoSignAfter DEF IsPart
    <2> QED
      BY <2>1, <2>2
  <1> QED
    BY <1>1, <1>2, <1>3, <1>4 DEF Goes, x

\* ... where tokens are passed over, ...
LEMMA SkipGoes ==
    ASSUME NEW s \in Seq(Token), NEW r, IsReader(r), NEW n \in Nat \ {0}
    PROVE  Goes(s, r, Skip(r, n), Skip(r, n)) /\ Skip(r, n).at = r.at + n
  BY DEF Goes, IsReader, Skip

\* ... where a length is read, ...
LEMMA SizeGoes ==
    ASSUME NEW s, NEW d, IsPart(s, d), NEW r, IsReader(r)
    PROVE  Goes(s, r, ReadSize(s, r), ReadSize(d, r))
  <1> DEFINE i == ReadInt(s, r.at)
             j == ReadInt(d, r.at)
             x == SizedTuple(r, i)
  <1>1. r.at \in Nat \ {0}
    BY DEF IsReader
  <1>2. i.at \in Nat /\ i.at > r.at /\ (i = j \/ i.at > Len(s))
    BY <1>1, TornInt
  <1> HIDE DEF i, j, x
  <1>3. IsReader(x) /\ x.at = i.at /\ (x.ok => r.ok)
    BY <1>1, <1>2, SizedFields DEF x
  <1>4. i = j => x = SizedTuple(r, j)
    BY DEF x
  <1>5. Goes(s, r, x, SizedTuple(r, j))
    BY <1>2, <1>3, <1>4 DEF Goes
  <1> QED
    BY <1>5, Zenon DEF ReadSize, x, i, j

\* ... where a link to an object is followed, ...
LEMMA LinkGoes ==
    ASSUME NEW s, NEW d, IsPart(s, d), NEW r, IsReader(r)
    PROVE  Goes(s, r, ReadObjectLink(s, r), ReadObjectLink(d, r))
  <1> DEFINE i == ReadInt(s, r.at + 1)
             j == ReadInt(d, r.at + 1)
             x == ObjectOf(r, i)
  <1>1. r.at \in Nat \ {0} /\ r.at + 1 \in Nat \ {0}
    BY DEF IsReader
  <1>2. i.at \in Nat /\ i.at > r.at + 1 /\ (i = j \/ i.at > Len(s))
    BY <1>1, TornInt
  <1> HIDE DEF i, j, x
  <1>3. IsReader(x) /\ x.at = i.at /\ (x.ok => r.ok)
    BY <1>1, <1>2, ObjectFields DEF x
  <1>4. i = j => x = ObjectOf(r, j)
    BY DEF x
  <1>5. Goes(s, r, x, ObjectOf(r, j))
    BY <1>1, <1>2, <1>3, <1>4 DEF Goes
  <1> QED
    BY <1>5, Zenon DEF ReadObjectLink, x, i, j

\* ... where a text is read, ...
LEMMA TextGoes ==
    ASSUME NEW s, NEW d, IsPart(s, d), NEW r, IsReader(r)
    PROVE  Goes(s, r, ReadText(s, r), ReadText(d, r))
  <1> DEFINE i == ReadInt(s, r.at)
             j == ReadInt(d, r.at)
             x == TextOfSize(s, r, i)
  <1>1. r.at \in Nat \ {0} /\ Len(s) \in Nat
    BY DEF IsReader, IsPart
  <1>2. i.at \in Nat /\ i.at > r.at /\ (i = j \/ i.at > Len(s))
    BY <1>1, TornInt
  <1> HIDE DEF i, j, x
  <1>3. IsReader(x) /\ x.at = i.at + 1 /\ (x.ok => r.ok)
    BY <1>1, <1>2, TextFields DEF x
  <1>4. i = j /\ i.at <= Len(s) => x = TextOfSize(d, r, j)
    <2> SUFFICES ASSUME i = j, i.at <= Len(s) PROVE x = TextOfSize(d, r, j)
      OBVIOUS
    <2>1. At(s, i.at) = At(d, i.at)
      BY <1>1, <1>2, SameToken
    <2> QED
      BY <2>1, Zenon DEF x, TextOfSize
  <1>5. Goes(s, r, x, TextOfSize(d, r, j))
    BY <1>1, <1>2, <1>3, <1>4 DEF Goes
  <1> QED
    BY <1>5, Zenon DEF ReadText, x, i, j

\* ... and where a string is, as far as its text.
LEMMA RawStringGoes ==
    ASSUME NEW s, NEW d, IsPart(s, d), NEW r, IsReader(r)
    PROVE  Goes(s, r, ReadRawString(s, r), ReadRawString(d, r))
  <1> DEFINE a(t) == Sees(t, r, {"I"})
             b(t, q) == Sees(t, q, {"\""})
  <1>0. s \in Seq(Token)
    BY DEF IsPart
  <1>1. Goes(s, r, a(s), a(d))
    BY SeesGoes
  <1> HIDE DEF a
  <1>2. IsReader(a(s))
    BY <1>1 DEF Goes
  <1>3. Goes(s, a(s), b(s, a(s)), b(d, a(s)))
    BY <1>2, SeesGoes
  <1>4. a(s) = a(d) => b(d, a(s)) = b(d, a(d))
    OBVIOUS
  <1> HIDE DEF b
  <1>5. Goes(s, r, b(s, a(s)), b(d, a(d)))
    BY <1>0, <1>1, <1>3, <1>4, GoesOn
  <1>6. IsReader(b(s, a(s)))
    BY <1>5 DEF Goes
  <1> DEFINE x == b(s, a(s))
             y == b(d, a(d))
  <1>7. Goes(s, x, ReadText(s, x), ReadText(d, x))
    BY <1>6, TextGoes
  <1>8. x = y => ReadText(d, x) = ReadText(d, y)
    OBVIOUS
  <1> HIDE DEF x, y
  <1>9. Goes(s, r, ReadText(s, x), ReadText(d, y))
    BY <1>0, <1>5, <1>7, <1>8, GoesOn DEF x, y
  <1> QED
    BY <1>9, Zenon DEF ReadRawString, x, y, a, b

\* A reader that stops inside d, or behind the end of s, does not say that all
\* is well.
Refuses(s, x, y) == x.ok => x = y /\ x.at <= Len(s) + 1

\* A step that refuses to end past the stream refuses after any other step.
LEMMA RefusesToo ==
    ASSUME NEW s \in Seq(Token), NEW r, IsReader(r), NEW x, NEW y, NEW u, NEW v, NEW w,
           Goes(s, r, x, y), Goes(s, x, u, v), Refuses(s, u, v), x = y => v = w
    PROVE  Goes(s, r, u, w) /\ Refuses(s, u, w)
  <1>1. Goes(s, r, u, w)
    BY GoesOn
  <1>2. x.at > Len(s) => ~u.ok
    BY DEF Goes, Refuses, IsReader
  <1>3. x = y => Refuses(s, u, w)
    BY DEF Refuses
  <1> QED
    BY <1>1, <1>2, <1>3 DEF Goes, Refuses

\* The encoding that follows a text is not passed over past the end, ...
LEMMA EncodingGoes ==
    ASSUME NEW s, NEW d, IsPart(s, d), NEW r, IsReader(r), NEW signs
    PROVE  /\ Goes(s, r, ReadEncoding(s, r, signs), ReadEncoding(d, r, signs))
           /\ Refuses(s, ReadEncoding(s, r, signs), ReadEncoding(d, r, signs))
  <1> DEFINE size(t) == IF At(t, r.at + 1) = Sign(":") THEN 2 ELSE 1
             a == Skip(r, 1)
             b(t) == Sees(t, a, signs)
             c(t) == Skip(b(t), size(t))
             e(t, q) == Sees(t, q, {"T"})
  <1>0. s \in Seq(Token) /\ r.at \in Nat \ {0} /\ Len(s) \in Nat
    BY DEF IsPart, IsReader
  <1>1. Goes(s, r, a, a) /\ a.at = r.at + 1
    BY <1>0, SkipGoes
  <1> HIDE DEF a
  <1>2. Goes(s, a, b(s), b(d)) /\ b(s).at = r.at + 2
    <2>1. IsReader(a)
      BY <1>1 DEF Goes
    <2>2. Goes(s, a, b(s), b(d)) /\ b(s).at = a.at + 1
      BY <2>1, SeesGoes
    <2> QED
      BY <1>0, <1>1, <2>2
  <1> HIDE DEF b
  <1>3. Goes(s, r, b(s), b(d))
    BY <1>0, <1>1, <1>2, GoesOn
  <1>4. Goes(s, r, c(s), c(d)) /\ IsReader(c(s))
    <2>1. IsReader(b(s)) /\ size(s) \in Nat \ {0}
      BY <1>2 DEF Goes
    <2> HIDE DEF size
    <2>2. Goes(s, b(s), c(s), c(s))
      BY <1>0, <2>1, SkipGoes
    <2>3. CASE r.at + 1 <= Len(s)
      <3>1. size(s) = size(d)
        BY <1>0, <2>3, SameToken DEF size
      <3>2. b(s) = b(d) => c(s) = c(d)
        BY <3>1
      <3> HIDE DEF c
      <3>3. Goes(s, r, c(s), c(d))
        BY <1>0, <1>3, <2>2, <3>2, GoesOn
      <3> QED
        BY <2>2, <3>3 DEF Goes
    <2>4. CASE ~(r.at + 1 <= Len(s))
      <3> HIDE DEF c
      <3> QED
        BY <1>0, <1>2, <1>3, <2>2, <2>4 DEF Goes, IsReader
    <2> QED
      BY <2>3, <2>4
  <1> HIDE DEF c
  <1>5. Goes(s, c(s), e(s, c(s)), e(d, c(s)))
        /\ (e(s, c(s)).ok => c(s).at <= Len(s)) /\ e(s, c(s)).at = c(s).at + 1
    BY <1>4, SeesGoes
  <1>6. Refuses(s, e(s, c(s)), e(d, c(s)))
    <2> SUFFICES ASSUME e(s, c(s)).ok
                 PROVE  e(s, c(s)) = e(d, c(s)) /\ e(s, c(s)).at <= Len(s) + 1
      BY DEF Refuses
    <2>1. c(s).at <= Len(s) /\ c(s).at \in Nat \ {0}
      BY <1>4, <1>5 DEF IsReader
    <2>2. At(s, c(s).at) = At(d, c(s).at)
      BY <2>1, SameToken
    <2>3. e(s, c(s)) = e(d, c(s))
      BY <2>2, Zenon DEF Sees
    <2> HIDE DEF e
    <2> QED
      BY <1>0, <1>5, <2>1, <2>3
  <1>7. c(s) = c(d) => e(d, c(s)) = e(d, c(d))
    OBVIOUS
  <1> HIDE DEF e
  <1>8. Goes(s, r, e(s, c(s)), e(d, c(d))) /\ Refuses(s, e(s, c(s)), e(d, c(d)))
    BY <1>0, <1>4, <1>5, <1>6, <1>7, RefusesToo
  <1> QED
    BY <1>8, Zenon DEF ReadEncoding, a, b, c, e, size

\* A string with its encoding.
ReadEncoded(s, r, signs) == ReadEncoding(s, ReadRawString(s, r), signs)

\* ... nor is that of a whole string.
LEMMA StringGoes ==
    ASSUME NEW s, NEW d, IsPart(s, d), NEW r, IsReader(r), NEW signs
    PROVE  /\ Goes(s, r, ReadEncoded(s, r, signs), ReadEncoded(d, r, signs))
           /\ Refuses(s, ReadEncoded(s, r, signs), ReadEncoded(d, r, signs))
  <1> DEFINE x == ReadRawString(s, r)
             y == ReadRawString(d, r)
  <1>0. s \in Seq(Token)
    BY DEF IsPart
  <1>1. Goes(s, r, x, y)
    BY RawStringGoes
  <1> HIDE DEF x, y
  <1>2. IsReader(x)
    BY <1>1 DEF Goes
  <1>3. /\ Goes(s, x, ReadEncoding(s, x, signs), ReadEncoding(d, x, signs))
        /\ Refuses(s, ReadEncoding(s, x, signs), ReadEncoding(d, x, signs))
    BY <1>2, EncodingGoes
  <1>4. x = y => ReadEncoding(d, x, signs) = ReadEncoding(d, y, signs)
    OBVIOUS
  <1>5. /\ Goes(s, r, ReadEncoding(s, x, signs), ReadEncoding(d, y, signs))
        /\ Refuses(s, ReadEncoding(s, x, signs), ReadEncoding(d, y, signs))
    BY <1>0, <1>1, <1>3, <1>4, RefusesToo
  <1> QED
    BY <1>5, Zenon DEF ReadEncoded, x, y

\* A choice by the token at the reader.
LEMMA ChoiceGoes ==
    ASSUME NEW s, NEW d, IsPart(s, d), NEW r, IsReader(r), NEW c,
           NEW x1, NEW y1, Goes(s, r, x1, y1), NEW x2, NEW y2, Goes(s, r, x2, y2),
           NEW x, NEW y, At(s, r.at) = Sign(c) => x = x1, At(s, r.at) # Sign(c) => x = x2,
           At(d, r.at) = Sign(c) => y = y1, At(d, r.at) # Sign(c) => y = y2
    PROVE  Goes(s, r, x, y)
  <1>1. r.at \in Nat \ {0} /\ Len(s) \in Nat
    BY DEF IsReader, IsPart
  <1>2. CASE r.at <= Len(s)
    <2>1. At(s, r.at) = At(d, r.at)
      BY <1>1, <1>2, SameToken
    <2> QED
      BY <2>1
  <1>3. CASE ~(r.at <= Len(s))
    BY <1>1, <1>3 DEF Goes, IsReader
  <1> QED
    BY <1>2, <1>3

\* The readers go on as one over a name, ...
LEMMA NameGoes ==
    ASSUME NEW s, NEW d, IsPart(s, d), NEW r, IsReader(r)
    PROVE  Goes(s, r, ReadName(s, r), ReadName(d, r))
  <1> DEFINE x1 == ReadObjectLink(s, r)
             y1 == ReadObjectLink(d, r)
             x2 == ReadEncoded(s, r, {":", ";"})
             y2 == ReadEncoded(d, r, {":", ";"})
             x == ReadName(s, r)
             y == ReadName(d, r)
  <1>1. Goes(s, r, x1, y1)
    BY LinkGoes
  <1>2. Goes(s, r, x2, y2)
    BY StringGoes
  <1>3. /\ At(s, r.at) = Sign("@") => x = x1
        /\ At(s, r.at) # Sign("@") => x = x2
        /\ At(d, r.at) = Sign("@") => y = y1
        /\ At(d, r.at) # Sign("@") => y = y2
    BY Zenon DEF ReadName, ReadEncoded
  <1> HIDE DEF x1, x2, y1, y2, x, y
  <1>4. Goes(s, r, x, y)
    BY <1>1, <1>2, <1>3, ChoiceGoes
  <1> QED
    BY <1>4, Zenon DEF x, y

\* ... over the class of a version, ...
LEMMA ClassGoes ==
    ASSUME NEW s, NEW d, IsPart(s, d), NEW r, IsReader(r)
    PROVE  Goes(s, r, ReadClass(s, r), ReadClass(d, r))
  <1> DEFINE size(t) == IF At(t, r.at + 1) = Sign(":")
                        THEN ReadInt(t, r.at + 2).at - r.at - 1 ELSE 1
             a(t) == Sees(t, r, {"U"})
             b(t, q) == Sees(t, q, {":", ";"})
  <1>0. s \in Seq(Token) /\ r.at \in Nat \ {0} /\ Len(s) \in Nat
    BY DEF IsPart, IsReader
  <1>1. Goes(s, r, a(s), a(d)) /\ a(s).at = r.at + 1
    BY SeesGoes
  <1> HIDE DEF a
  <1>2. Goes(s, a(s), b(s, a(s)), b(d, a(s))) /\ b(s, a(s)).at = r.at + 2
    <2>1. IsReader(a(s))
      BY <1>1 DEF Goes
    <2>2. Goes(s, a(s), b(s, a(s)), b(d, a(s))) /\ b(s, a(s)).at = a(s).at + 1
      BY <2>1, SeesGoes
    <2> HIDE DEF b
    <2>3. a(s).at + 1 = r.at + 2
      BY <1>0, <1>1
    <2> QED
      BY <2>2, <2>3, Zenon
  <1> DEFINE x == b(s, a(s))
             y == b(d, a(d))
  <1>3. Goes(s, r, x, y)
    <2>1. a(s) = a(d) => b(d, a(s)) = b(d, a(d))
      OBVIOUS
    <2> HIDE DEF b
    <2> QED
      BY <1>0, <1>1, <1>2, <2>1, GoesOn
  <1> HIDE DEF b, x, y
  <1>4. IsReader(x) /\ x.at = r.at + 2
    BY <1>2, <1>3 DEF Goes, x
  <1>5. /\ ReadInt(s, r.at + 2).at \in Nat /\ ReadInt(s, r.at + 2).at > r.at + 2
        /\ \/ ReadInt(s, r.at + 2) = ReadInt(d, r.at + 2)
           \/ ReadInt(s, r.at + 2).at > Len(s)
    <2>1. r.at + 2 \in Nat \ {0}
      BY <1>0
    <2> QED
      BY <2>1, TornInt
  <1>6. size(s) \in Nat \ {0}
    BY <1>0, <1>5
  <1>7. Goes(s, x, Skip(x, size(s)), Skip(x, size(s))) /\ Skip(x, size(s)).at = r.at + 2 + size(s)
    <2> HIDE DEF size
    <2>1. Goes(s, x, Skip(x, size(s)), Skip(x, size(s))) /\ Skip(x, size(s)).at = x.at + size(s)
      BY <1>0, <1>4, <1>6, SkipGoes
    <2> QED
      BY <1>0, <1>4, <1>6, <2>1
  <1>8. Skip(x, size(s)).at <= Len(s) => size(s) = size(d)
    <2> SUFFICES ASSUME Skip(x, size(s)).at <= Len(s) PROVE size(s) = size(d)
      OBVIOUS
    <2>1. r.at + 2 + size(s) <= Len(s)
      BY <1>7
    <2>2. At(s, r.at + 1) = At(d, r.at + 1)
      <3>1. r.at + 1 <= Len(s) /\ r.at + 1 \in Nat \ {0}
        BY <1>0, <1>6, <2>1
      <3> QED
        BY <3>1, SameToken
    <2>3. CASE At(s, r.at + 1) = Sign(":")
      <3>1. ~(ReadInt(s, r.at + 2).at > Len(s))
        BY <1>0, <1>5, <2>1, <2>3
      <3> QED
        BY <1>5, <2>2, <3>1
    <2>4. CASE At(s, r.at + 1) # Sign(":")
      BY <2>2, <2>4
    <2> QED
      BY <2>3, <2>4
  <1> HIDE DEF size
  <1>9. Goes(s, r, Skip(x, size(s)), Skip(y, size(d)))
    <2>1. CASE Skip(x, size(s)).at <= Len(s)
      <3>1. x = y => Skip(x, size(s)) = Skip(y, size(d))
        BY <1>8, <2>1
      <3> QED
        BY <1>0, <1>3, <1>7, <3>1, GoesOn
    <2>2. CASE ~(Skip(x, size(s)).at <= Len(s))
      <3> DEFINE z == Skip(x, size(s))
      <3> HIDE DEF z
      <3>1. IsReader(z) /\ x.at < z.at /\ (z.ok => x.ok) /\ z.at > Len(s)
        BY <1>0, <1>7, <2>2 DEF Goes, IsReader, z
      <3>2. Goes(s, r, z, Skip(y, size(d)))
        BY <1>0, <1>3, <3>1 DEF Goes, IsReader
      <3> QED
        BY <3>2 DEF z
    <2> QED
      BY <2>1, <2>2
  <1> QED
    BY <1>9, Zenon DEF ReadClass, x, y, a, b, size

\* ... over a version, ...
LEMMA VersionGoes ==
    ASSUME NEW s, NEW d, IsPart(s, d), NEW r, IsReader(r)
    PROVE  Goes(s, r, ReadVersion(s, r), ReadVersion(d, r))
  <1> DEFINE a(t) == ReadClass(t, r)
             b(t, q) == Sees(t, q, {"["})
             c(q) == Skip(q, 1)
             e(t, q) == ReadEncoded(t, q, {";"})
             l(q) == [q EXCEPT !.links = q.links \o <<Literal("["), Literal("U")>>]
  <1>0. s \in Seq(Token)
    BY DEF IsPart
  <1>1. Goes(s, r, a(s), a(d))
    BY ClassGoes
  <1> HIDE DEF a
  <1>2. Goes(s, r, b(s, a(s)), b(d, a(d)))
    <2>1. IsReader(a(s))
      BY <1>1 DEF Goes
    <2>2. Goes(s, a(s), b(s, a(s)), b(d, a(s)))
      BY <2>1, SeesGoes
    <2>3. a(s) = a(d) => b(d, a(s)) = b(d, a(d))
      OBVIOUS
    <2> HIDE DEF b
    <2> QED
      BY <1>0, <1>1, <2>2, <2>3, GoesOn
  <1> DEFINE x == b(s, a(s))
             y == b(d, a(d))
  <1> HIDE DEF b, x, y
  <1>3. Goes(s, r, c(x), c(y))
    <2>1. IsReader(x) /\ Goes(s, r, x, y)
      BY <1>2 DEF Goes, x, y
    <2>2. Goes(s, x, c(x), c(x))
      BY <1>0, <2>1, SkipGoes
    <2>3. x = y => c(x) = c(y)
      OBVIOUS
    <2> HIDE DEF c
    <2> QED
      BY <1>0, <2>1, <2>2, <2>3, GoesOn
  <1> DEFINE u == c(x)
             v == c(y)
  <1> HIDE DEF c, u, v
  <1>4. Goes(s, r, e(s, u), e(d, v)) /\ IsReader(e(s, u))
    <2>1. IsReader(u) /\ Goes(s, r, u, v)
      BY <1>3 DEF Goes, u, v
    <2>2. Goes(s, u, e(s, u), e(d, u))
      BY <2>1, StringGoes
    <2>3. u = v => e(d, u) = e(d, v)
      OBVIOUS
    <2> HIDE DEF e
    <2>4. Goes(s, r, e(s, u), e(d, v))
      BY <1>0, <2>1, <2>2, <2>3, GoesOn
    <2> QED
      BY <2>4 DEF Goes
  <1> DEFINE g == e(s, u)
             h == e(d, v)
  <1> HIDE DEF e, g, h
  <1>5. Goes(s, r, l(g), l(h))
    <2>1. IsReader(g) /\ Goes(s, r, g, h)
      BY <1>4 DEF g, h
    <2>2. IsReader(l(g)) /\ l(g).at = g.at /\ l(g).ok = g.ok
      BY <2>1, LinksFields
    <2>3. g = h => l(g) = l(h)
      OBVIOUS
    <2> HIDE DEF l
    <2> QED
      BY <2>1, <2>2, <2>3 DEF Goes
  <1>6. Goes(s, r, ReadObjectLink(s, r), ReadObjectLink(d, r))
    BY LinkGoes
  <1>7. /\ At(s, r.at) = Sign("@") => ReadVersion(s, r) = ReadObjectLink(s, r)
        /\ At(s, r.at) # Sign("@") => ReadVersion(s, r) = l(g)
        /\ At(d, r.at) = Sign("@") => ReadVersion(d, r) = ReadObjectLink(d, r)
        /\ At(d, r.at) # Sign("@") => ReadVersion(d, r) = l(h)
    BY Zenon DEF ReadVersion, ReadEncoded, a, b, c, e, g, h, u, v, x, y
  <1> HIDE DEF l
  <1> DEFINE i == ReadObjectLink(s, r)
             j == ReadObjectLink(d, r)
             m == l(g)
             n == l(h)
             p == ReadVersion(s, r)
             q == ReadVersion(d, r)
  <1>8. /\ Goes(s, r, i, j) /\ Goes(s, r, m, n)
        /\ At(s, r.at) = Sign("@") => p = i
        /\ At(s, r.at) # Sign("@") => p = m
        /\ At(d, r.at) = Sign("@") => q = j
        /\ At(d, r.at) # Sign("@") => q = n
    BY <1>5, <1>6, <1>7
  <1> HIDE DEF i, j, m, n, p, q
  <1>9. Goes(s, r, p, q)
    BY <1>8, ChoiceGoes
  <1> QED
    BY <1>9, Zenon DEF p, q

\* The reader of a tuple when the platform is all that is left.
AfterVersion(s, r) == ReadVersion(s, ReadName(s, ReadSize(s, Sees(s, r, {"["}))))

\* ... and over a tuple as far as its version.
LEMMA AfterGoes ==
    ASSUME NEW s, NEW d, IsPart(s, d), NEW r, IsReader(r)
    PROVE  Goes(s, r, AfterVersion(s, r), AfterVersion(d, r))
  <1> DEFINE a(t) == Sees(t, r, {"["})
             b(t) == ReadSize(t, a(t))
             c(t) == ReadName(t, b(t))
             e(t) == ReadVersion(t, c(t))
  <1>0. s \in Seq(Token)
    BY DEF IsPart
  <1>1. Goes(s, r, a(s), a(d)) /\ IsReader(a(s))
    BY SeesGoes DEF Goes
  <1> HIDE DEF a
  <1>2. Goes(s, r, b(s), b(d)) /\ IsReader(b(s))
    <2>1. Goes(s, a(s), b(s), ReadSize(d, a(s)))
      BY <1>1, SizeGoes
    <2>2. a(s) = a(d) => ReadSize(d, a(s)) = b(d)
      OBVIOUS
    <2> HIDE DEF b
    <2>3. Goes(s, r, b(s), b(d))
      BY <1>0, <1>1, <2>1, <2>2, GoesOn
    <2> QED
      BY <2>3 DEF Goes
  <1> HIDE DEF b
  <1>3. Goes(s, r, c(s), c(d)) /\ IsReader(c(s))
    <2>1. Goes(s, b(s), c(s), ReadName(d, b(s)))
      BY <1>2, NameGoes
    <2>2. b(s) = b(d) => ReadName(d, b(s)) = c(d)
      OBVIOUS
    <2> HIDE DEF c
    <2>3. Goes(s, r, c(s), c(d))
      BY <1>0, <1>2, <2>1, <2>2, GoesOn
    <2> QED
      BY <2>3 DEF Goes
  <1> HIDE DEF c
  <1>4. Goes(s, r, e(s), e(d))
    <2>1. Goes(s, c(s), e(s), ReadVersion(d, c(s)))
      BY <1>3, VersionGoes
    <2>2. c(s) = c(d) => ReadVersion(d, c(s)) = e(d)
      OBVIOUS
    <2> HIDE DEF e
    <2> QED
      BY <1>0, <1>3, <2>1, <2>2, GoesOn
  <1> QED
    BY <1>4, Zenon DEF AfterVersion, a, b, c, e

\* A tuple of d that s does not hold whole is refused in s.
LEMMA TupleRefused ==
    ASSUME NEW s, NEW d, IsPart(s, d), NEW r, IsReader(r),
           At(d, AfterVersion(d, r).at) # Sign("@")
    PROVE  /\ IsReader(ReadTuple(s, r)) /\ r.at < ReadTuple(s, r).at
           /\ Refuses(s, ReadTuple(s, r), ReadTuple(d, r))
  <1> DEFINE m == AfterVersion(s, r)
             n == AfterVersion(d, r)
             u == ReadEncoded(s, m, {";"})
             w == ReadEncoded(d, n, {";"})
  <1>0. s \in Seq(Token) /\ Len(s) \in Nat
    BY DEF IsPart
  <1>1. Goes(s, r, m, n) /\ IsReader(m) /\ m.at \in Nat \ {0}
    BY AfterGoes DEF Goes, IsReader
  <1>2. At(s, m.at) # Sign("@")
    <2>1. CASE m.at <= Len(s)
      <3>1. m = n
        BY <1>0, <1>1, <2>1 DEF Goes
      <3> HIDE DEF m, n
      <3>2. At(s, m.at) = At(d, m.at)
        BY <1>1, <2>1, SameToken
      <3> QED
        BY <3>1, <3>2 DEF n
    <2>2. CASE ~(m.at <= Len(s))
      <3> HIDE DEF m
      <3> QED
        BY <1>0, <1>1, <2>2, NoSignAfter
    <2> QED
      BY <2>1, <2>2
  <1> HIDE DEF m, n
  <1>3. Goes(s, r, u, w) /\ Refuses(s, u, w)
    <2> DEFINE v == ReadEncoded(d, m, {";"})
    <2>1. Goes(s, m, u, v) /\ Refuses(s, u, v)
      BY <1>1, StringGoes
    <2>2. m = n => v = w
      OBVIOUS
    <2> HIDE DEF u, v, w
    <2> QED
      BY <1>0, <1>1, <2>1, <2>2, RefusesToo
  <1> HIDE DEF u, w
  <1>4. ReadTuple(s, r) = AddSpec(u) /\ ReadTuple(d, r) = AddSpec(w)
    <2>1. At(d, n.at) # Sign("@")
      BY DEF n
    <2> QED
      BY <1>2, <2>1, Zenon DEF ReadTuple, ReadPlatform, ReadEncoded, AfterVersion, m, n, u, w
  <1>5. IsReader(AddSpec(u)) /\ AddSpec(u).at = u.at /\ AddSpec(u).ok = u.ok
    BY <1>3, AddFields DEF Goes
  <1>6. u = w => AddSpec(u) = AddSpec(w)
    OBVIOUS
  <1> QED
    BY <1>3, <1>4, <1>5, <1>6 DEF Goes, Refuses

-----------------------------------------------------------------------------
(* What the writers write, and what a stream then holds.                   *)

(* What encInt has a case for, from zero up.                               *)
LEMMA EncodesCounts ==
    ASSUME NEW i \in Countable
    PROVE  i \in Nat /\ Encodes(i)
  <1>1. i \in Nat
    BY SMT DEF Countable
  <1>2. ~(i <= 122) => \E r \in IntRanges : r[1] <= i /\ i <= r[2]
    <2> SUFFICES ASSUME ~(i <= 122) PROVE \E r \in IntRanges : r[1] <= i /\ i <= r[2]
      OBVIOUS
    <2>1. /\ <<123, 255, 1>> \in IntRanges /\ <<256, 65535, 2>> \in IntRanges
          /\ <<65536, 16777215, 3>> \in IntRanges
          /\ <<16777216, 1073741823, 4>> \in IntRanges
      BY SMT DEF IntRanges
    <2>2. \/ 123 <= i /\ i <= 255
          \/ 256 <= i /\ i <= 65535
          \/ 65536 <= i /\ i <= 16777215
          \/ 16777216 <= i /\ i <= 1073741823
      BY SMT DEF Countable
    <2> QED
      BY <2>1, <2>2, SMT
  <1>3. i <= 122 => i \in -123 .. 122
    BY <1>1, SMT
  <1>4. ~(i <= 122) => InRange(i) # {}
    BY <1>2, Zenon DEF InRange
  <1> QED
    BY <1>1, <1>3, <1>4, Zenon DEF Encodes

\* Those of one byte.
LEMMA OneByteEach ==
    ASSUME NEW i \in 0 .. 122
    PROVE  EncInt(i) = <<Byte(IF i = 0 THEN 0 ELSE i + 5)>>
  BY DEF EncInt, OneByte

\* A writer, and what it has written.
IsWriter(w) == DOMAIN w = {"out", "slinktbl"} /\ w.out \in Seq(Token)

\* What Put changes.
LEMMA PutWrites ==
    ASSUME NEW w, IsWriter(w), NEW t \in Seq(Token), NEW x, x = Put(w, t)
    PROVE  /\ IsWriter(x) /\ x.out = w.out \o t /\ x.slinktbl = w.slinktbl
  BY DEF IsWriter, Put

\* A stream that begins with o and t begins with o and holds t after it.
LEMMA Written ==
    ASSUME NEW d, NEW o \in Seq(Token), NEW t \in Seq(Token), IsPart(o \o t, d)
    PROVE  IsPart(o, d) /\ Holds(d, Len(o) + 1, t) /\ Len(o \o t) = Len(o) + Len(t)
  <1>1. /\ o \o t \in Seq(Token) /\ Len(o \o t) = Len(o) + Len(t)
        /\ Len(o) \in Nat /\ Len(t) \in Nat
    OBVIOUS
  <1>2. IsPart(o, d)
    <2>1. \A k \in 1 .. Len(o) : k \in 1 .. Len(o \o t) /\ (o \o t)[k] = o[k]
      BY <1>1
    <2> QED
      BY <1>1, <2>1 DEF IsPart
  <1>3. Holds(d, Len(o) + 1, t)
    <2>1. \A k \in 1 .. Len(t) :
             Len(o) + 1 + k - 1 \in 1 .. Len(o \o t) /\ (o \o t)[Len(o) + 1 + k - 1] = t[k]
      BY <1>1
    <2>2. Len(o) + 1 + Len(t) <= Len(d) + 1
      BY <1>1 DEF IsPart
    <2> QED
      BY <2>1, <2>2 DEF IsPart, Holds
  <1> QED
    BY <1>1, <1>2, <1>3

\* What holds two runs of tokens holds each of them.
LEMMA HoldsBoth ==
    ASSUME NEW d \in Seq(Token), NEW p \in Nat \ {0}, NEW a \in Seq(Token), NEW b \in Seq(Token),
           Holds(d, p, a \o b)
    PROVE  Holds(d, p, a) /\ Holds(d, p + Len(a), b)
  <1>1. /\ a \o b \in Seq(Token) /\ Len(a \o b) = Len(a) + Len(b)
        /\ Len(a) \in Nat /\ Len(b) \in Nat /\ Len(d) \in Nat
    OBVIOUS
  <1>2. Holds(d, p, a)
    <2>1. \A k \in 1 .. Len(a) : k \in 1 .. Len(a \o b) /\ (a \o b)[k] = a[k]
      BY <1>1
    <2> QED
      BY <1>1, <2>1 DEF Holds
  <1>3. Holds(d, p + Len(a), b)
    <2>1. \A k \in 1 .. Len(b) :
             /\ Len(a) + k \in 1 .. Len(a \o b) /\ (a \o b)[Len(a) + k] = b[k]
             /\ p + Len(a) + k - 1 = p + (Len(a) + k) - 1
      BY <1>1
    <2>2. p + Len(a) + Len(b) <= Len(d) + 1
      BY <1>1 DEF Holds
    <2> QED
      BY <2>1, <2>2 DEF Holds
  <1> QED
    BY <1>2, <1>3

\* A run of one token, ...
LEMMA HoldsOne ==
    ASSUME NEW d \in Seq(Token), NEW p \in Nat \ {0}, NEW a, Holds(d, p, <<a>>)
    PROVE  At(d, p) = a
  <1>1. Len(<<a>>) = 1 /\ <<a>>[1] = a /\ 1 \in 1 .. 1 /\ p + 1 - 1 = p /\ Len(d) \in Nat
    OBVIOUS
  <1>2. p <= Len(d) /\ d[p] = a
    BY <1>1 DEF Holds
  <1> QED
    BY <1>2 DEF At

\* ... and of two.
LEMMA HoldsTwo ==
    ASSUME NEW d \in Seq(Token), NEW p \in Nat \ {0}, NEW a, NEW b, Holds(d, p, <<a, b>>)
    PROVE  At(d, p) = a /\ At(d, p + 1) = b
  <1>1. /\ Len(<<a, b>>) = 2 /\ <<a, b>>[1] = a /\ <<a, b>>[2] = b
        /\ 1 \in 1 .. 2 /\ 2 \in 1 .. 2 /\ p + 1 - 1 = p /\ p + 2 - 1 = p + 1
        /\ Len(d) \in Nat
    OBVIOUS
  <1>2. p + 1 <= Len(d) /\ d[p] = a /\ d[p + 1] = b
    BY <1>1 DEF Holds
  <1> QED
    BY <1>2 DEF At

\* The table of the symbols written: before the first spec, in it, and after.
Table(w) == w.slinktbl \in {<<>>, <<"E">>, <<"E", "Gem::Version">>}

\* How the symbol E is written.
Spelling == <<Sign(":")>> \o <<Byte(6)>> \o <<Text(Literal("E"))>>
Linking == <<Sign(";")>> \o <<Byte(0)>>
Marks(w) == IF w.slinktbl = <<>> THEN Spelling ELSE Linking

\* The table after a string.
Known(w) == IF w.slinktbl = <<>> THEN <<"E">> ELSE w.slinktbl

\* The tokens that the writers use.
LEMMA SignTokens ==
    /\ Sign("I") \in Token /\ Sign("\"") \in Token /\ Sign("T") \in Token
    /\ Sign(":") \in Token /\ Sign(";") \in Token /\ Sign("[") \in Token
    /\ Sign("U") \in Token
  <1>1. \A c \in Letters : Sign(c) \in Token
    BY Zenon DEF Token
  <1> QED
    BY <1>1, Zenon DEF Letters

\* A byte of any integer is a token.
LEMMA ByteTokens == \A n \in Int : Byte(n) \in Token
  BY Zenon DEF Token

LEMMA TextTokens ==
    /\ \A t \in Texts : Text(t) \in Token
    /\ Literal("E") \in Texts /\ Literal("Gem::Version") \in Texts
  <1>1. \A t \in Texts : Text(t) \in Token
    BY Zenon DEF Token
  <1>2. Len("E") \in Nat /\ Len("Gem::Version") \in Nat
    <2>1. 1 \in Nat /\ 12 \in Nat
      BY SMT
    <2> QED
      BY <2>1, SymbolAssumption, Zenon
  <1>3. \A c \in {"E", "Gem::Version"} : Len(c) \in Nat => Literal(c) \in Texts
    <2> SUFFICES ASSUME NEW c \in {"E", "Gem::Version"}, NEW n \in Nat
                 PROVE  [of |-> c, length |-> n] \in Texts
      BY Zenon DEF Literal
    <2> QED
      BY DEF Texts
  <1> QED
    BY <1>1, <1>2, <1>3, Zenon

\* The symbol of the encoding is spelled out once and a link after that.
LEMMA SymbolWrites ==
    ASSUME NEW w, IsWriter(w), Table(w), NEW x, x = EncSymbol(w, "E")
    PROVE  /\ IsWriter(x) /\ x.out = w.out \o Marks(w) /\ x.slinktbl = Known(w)
           /\ Marks(w) \in Seq(Token) /\ Table(x)
  <1>0. Marks(w) \in Seq(Token)
    <2> DEFINE e == Text(Literal("E"))
               colon == Sign(":")
               link == Sign(";")
               zero == Byte(0)
               six == Byte(6)
    <2>1. colon \in Token /\ link \in Token /\ e \in Token
      BY SignTokens, TextTokens, Zenon
    <2>2. zero \in Token /\ six \in Token
      BY ByteTokens
    <2>3. Spelling = <<colon>> \o <<six>> \o <<e>> /\ Linking = <<link>> \o <<zero>>
      BY Zenon DEF Spelling, Linking
    <2> HIDE DEF e, colon, link, zero, six
    <2>4. Spelling \in Seq(Token) /\ Linking \in Seq(Token)
      BY <2>1, <2>2, <2>3
    <2> QED
      BY <2>4, Zenon DEF Marks
  <1>1. CASE w.slinktbl = <<>>
    <2>1. Places(w, "E") = {}
      BY <1>1 DEF Places
    <2>2. x = [Spell(w, "E") EXCEPT !.slinktbl = Append(@, "E")]
      BY <2>1 DEF EncSymbol
    <2>3. Spell(w, "E") = Put(w, Marks(w))
      <3>1. EncInt(Len("E")) = <<Byte(6)>>
        <4>1. EncInt(1) = <<Byte(6)>>
          BY OneByteEach
        <4> QED
          BY <4>1, SymbolAssumption, Zenon
      <3> QED
        BY <1>1, <3>1, Zenon DEF Spell, Marks, Spelling
    <2> DEFINE y == Put(w, Marks(w))
    <2>4. IsWriter(y) /\ y.out = w.out \o Marks(w) /\ y.slinktbl = <<>>
      BY <1>0, <1>1, PutWrites
    <2> HIDE DEF y
    <2>5. x = [y EXCEPT !.slinktbl = Append(y.slinktbl, "E")]
      BY <2>2, <2>3 DEF y
    <2>6. Append(y.slinktbl, "E") = <<"E">>
      BY <2>4
    <2>7. IsWriter(x) /\ x.out = y.out /\ x.slinktbl = <<"E">>
      BY <2>4, <2>5, <2>6 DEF IsWriter
    <2> QED
      BY <1>0, <1>1, <2>4, <2>7 DEF Known, Table
  <1>2. CASE w.slinktbl # <<>>
    <2>1. Places(w, "E") = {1}
      BY <1>2 DEF Places, Table
    <2>2. x = Link(w, ";", 0)
      <3>1. (CHOOSE i \in {1} : TRUE) - 1 = 0
        OBVIOUS
      <3> QED
        BY <2>1, <3>1 DEF EncSymbol
    <2>3. x = Put(w, Marks(w))
      <3>1. EncInt(0) = <<Byte(0)>>
        BY OneByteEach
      <3> QED
        BY <1>2, <2>2, <3>1, Zenon DEF Link, Marks, Linking
    <2> QED
      BY <1>0, <1>2, <2>3, PutWrites DEF Known, Table
  <1> QED
    BY <1>1, <1>2

-----------------------------------------------------------------------------
(* What the readers make of a string that was written.                     *)

\* The signs of a symbol and of a link to one (named, for the SMT solver takes
\* no string of them).
Colon == ":"
Semicolon == ";"

\* The signs that a reader tells apart.
LEMMA SignsDiffer ==
    Sign(Semicolon) # Sign(Colon) /\ Sign(Colon) # Sign("@") /\ Sign(Semicolon) # Sign("@")
  BY Zenon DEF Sign, Colon, Semicolon

LEMMA MarksAre ==
    /\ Spelling \in Seq(Token) /\ Len(Spelling) = 3
    /\ Linking \in Seq(Token) /\ Len(Linking) = 2
    /\ \A d \in Seq(Token), p \in Nat \ {0} : (Holds(d, p, Spelling) => At(d, p) = Sign(Colon))
    /\ \A d \in Seq(Token), p \in Nat \ {0} : (Holds(d, p, Linking) => At(d, p) = Sign(Semicolon))
  <1> DEFINE e == Text(Literal("E"))
             colon == Sign(Colon)
             link == Sign(Semicolon)
             zero == Byte(0)
             six == Byte(6)
  <1>1. colon \in Token /\ link \in Token /\ e \in Token
    BY SignTokens, TextTokens, Zenon DEF Colon, Semicolon
  <1>2. zero \in Token /\ six \in Token
    BY ByteTokens
  <1>3. Spelling = <<colon>> \o <<six>> \o <<e>> /\ Linking = <<link>> \o <<zero>>
    BY Zenon DEF Spelling, Linking, Colon, Semicolon
  <1> HIDE DEF e, colon, link, zero, six, Token
  <1>4. /\ Spelling \in Seq(Token) /\ Linking \in Seq(Token)
        /\ Len(Spelling) = 3 /\ Len(Linking) = 2
        /\ Spelling[1] = colon /\ Linking[1] = link
    BY <1>1, <1>2, <1>3
  <1>5. ASSUME NEW d \in Seq(Token), NEW p \in Nat \ {0}, NEW t, Len(t) \in Nat \ {0},
               Holds(d, p, t)
        PROVE  At(d, p) = t[1]
    <2>1. 1 \in 1 .. Len(t) /\ p + 1 - 1 = p /\ p <= Len(d)
      BY <1>5 DEF Holds
    <2>2. d[p] = t[1]
      BY <2>1, <1>5 DEF Holds
    <2> QED
      BY <2>1, <2>2 DEF At
  <1>6. Len(Spelling) \in Nat \ {0} /\ Len(Linking) \in Nat \ {0}
    BY <1>4
  <1> QED
    BY <1>4, <1>5, <1>6, Zenon DEF colon, link

\* Reading the symbol E and its value.
LEMMA MarksRead ==
    ASSUME NEW d \in Seq(Token), NEW r, IsReader(r), NEW signs, Semicolon \in signs, NEW w,
           (w.slinktbl = <<>> => Colon \in signs),
           Holds(d, r.at + 1, Marks(w)),
           Holds(d, r.at + 1 + Len(Marks(w)), <<Sign("T")>>),
           NEW x, x = ReadEncoding(d, r, signs)
    PROVE  /\ IsReader(x) /\ x.at = r.at + 1 + Len(Marks(w)) + 1 /\ (x.ok <=> r.ok)
           /\ x.texts = r.texts /\ x.specs = r.specs
  <1> DEFINE spelled == (At(d, r.at + 1) = Sign(Colon))
             size == IF spelled THEN 2 ELSE 1
             a == Skip(r, 1)
             b == Sees(d, a, signs)
             c == Skip(b, size)
  <1>1. r.at \in Nat \ {0} /\ r.at + 1 \in Nat \ {0}
    BY DEF IsReader
  <1>2. \E sign \in signs : /\ At(d, r.at + 1) = Sign(sign)
                            /\ size + 1 = Len(Marks(w))
    <2>1. CASE w.slinktbl = <<>>
      <3>1. At(d, r.at + 1) = Sign(Colon) /\ Len(Marks(w)) = 3
        BY <1>1, <2>1, MarksAre DEF Marks
      <3> QED
        BY <2>1, <3>1
    <2>2. CASE w.slinktbl # <<>>
      <3>1. At(d, r.at + 1) = Sign(Semicolon) /\ Len(Marks(w)) = 2
        BY <1>1, <2>2, MarksAre DEF Marks
      <3>2. Sign(Semicolon) # Sign(Colon)
        BY SignsDiffer
      <3> QED
        BY <3>1, <3>2
    <2> QED
      BY <2>1, <2>2
  <1>3. size \in Nat \ {0}
    OBVIOUS
  <1> HIDE DEF size
  <1>4. /\ IsReader(a) /\ a.at = r.at + 1 /\ a.ok = r.ok
        /\ a.texts = r.texts /\ a.specs = r.specs
    BY <1>1 DEF Skip, IsReader
  <1> HIDE DEF a
  <1>5. /\ IsReader(b) /\ b.at = r.at + 2 /\ (b.ok <=> r.ok)
        /\ b.texts = r.texts /\ b.specs = r.specs
    <2>1. /\ IsReader(b) /\ b.at = a.at + 1
          /\ (b.ok <=> (a.ok /\ At(d, a.at) \in {Sign(sign) : sign \in signs}))
          /\ b.texts = a.texts /\ b.specs = a.specs
      BY <1>4, SeesFields
    <2> HIDE DEF b
    <2>2. At(d, a.at) \in {Sign(sign) : sign \in signs}
      BY <1>2, <1>4
    <2>3. b.at = r.at + 2
      BY <1>1, <1>4, <2>1
    <2> QED
      BY <1>4, <2>1, <2>2, <2>3
  <1> HIDE DEF b
  <1>6. /\ IsReader(c) /\ c.at = r.at + 2 + size /\ c.ok = b.ok
        /\ c.texts = r.texts /\ c.specs = r.specs
    BY <1>1, <1>3, <1>5 DEF Skip, IsReader
  <1> HIDE DEF c
  <1> DEFINE true == {"T"}
  <1>7. x = Sees(d, c, true)
    BY Zenon DEF ReadEncoding, a, b, c, size, Colon
  <1>8. Sign("T") \in {Sign(sign) : sign \in true}
    OBVIOUS
  <1> HIDE DEF true
  <1>9. /\ IsReader(x) /\ x.at = c.at + 1
        /\ (x.ok <=> (c.ok /\ At(d, c.at) \in {Sign(sign) : sign \in true}))
        /\ x.texts = c.texts /\ x.specs = c.specs
    BY <1>6, <1>7, SeesFields
  <1>10. c.at = r.at + 1 + Len(Marks(w)) /\ c.at \in Nat \ {0} /\ Len(Marks(w)) \in Nat
    <2>1. size + 1 = Len(Marks(w))
      BY <1>2
    <2>2. c.at = r.at + 2 + size
      BY <1>6
    <2>3. r.at + 2 + size = r.at + 1 + (size + 1) /\ r.at + 2 + size \in Nat \ {0}
          /\ size + 1 \in Nat
      BY <1>1, <1>3
    <2> QED
      BY <2>1, <2>2, <2>3, Zenon
  <1>11. At(d, c.at) = Sign("T")
    BY <1>10, HoldsOne
  <1>12. x.at = r.at + 1 + Len(Marks(w)) + 1
    BY <1>1, <1>9, <1>10
  <1> QED
    BY <1>5, <1>6, <1>8, <1>9, <1>11, <1>12

\* Texts whose length encInt has a case for.
Sized == {t \in Texts : t.length \in Countable}

\* A string before its symbol.
Start(t) == <<Sign("I"), Sign("\"")>> \o EncInt(t.length) \o <<Text(t), Byte(6)>>

\* The tokens of a string as far as its encoding.
LEMMA StartIs ==
    ASSUME NEW t \in Sized
    PROVE  /\ t \in Texts /\ EncInt(t.length) \in Seq(Token) /\ Len(EncInt(t.length)) \in Nat
           /\ t.length \in Int /\ Encodes(t.length)
           /\ <<Sign("I"), Sign("\"")>> \in Seq(Token) /\ <<Text(t), Byte(6)>> \in Seq(Token)
           /\ Start(t) \in Seq(Token) /\ Len(Start(t)) = 4 + Len(EncInt(t.length))
  <1> DEFINE i == Sign("I")
             q == Sign("\"")
             e == EncInt(t.length)
             s == Text(t)
             six == Byte(6)
  <1>1. t \in Texts /\ t.length \in Countable
    BY DEF Sized
  <1>2. t.length \in Int /\ Encodes(t.length)
    BY <1>1, EncodesCounts
  <1>3. e \in Seq(Token) /\ Len(e) \in Nat
    BY <1>2, IntTokens
  <1>4. i \in Token /\ q \in Token
    BY SignTokens, Zenon
  <1>5. s \in Token /\ six \in Token
    BY <1>1, TextTokens, ByteTokens
  <1>6. Start(t) = <<i, q>> \o e \o <<s, six>>
    BY Zenon DEF Start
  <1> HIDE DEF i, q, e, s, six, Token
  <1>7. /\ <<i, q>> \in Seq(Token) /\ <<s, six>> \in Seq(Token)
        /\ <<i, q>> \o e \o <<s, six>> \in Seq(Token)
        /\ Len(<<i, q>> \o e \o <<s, six>>) = 4 + Len(e)
    BY <1>3, <1>4, <1>5
  <1> QED
    BY <1>1, <1>2, <1>3, <1>6, <1>7, Zenon DEF i, q, e, s, six

\* What EncString writes.
LEMMA StringWrites ==
    ASSUME NEW w, IsWriter(w), Table(w), NEW t \in Sized, NEW x, x = EncString(w, t)
    PROVE  /\ IsWriter(x) /\ Table(x) /\ x.slinktbl = Known(w)
           /\ x.out = w.out \o Start(t) \o Marks(w) \o <<Sign("T")>>
           /\ Marks(w) \in Seq(Token) /\ <<Sign("T")>> \in Seq(Token)
  <1> DEFINE a == Put(w, Start(t))
             b == EncSymbol(a, "E")
             true == <<Sign("T")>>
  <1>1. true \in Seq(Token)
    <2> DEFINE sign == Sign("T")
    <2>1. sign \in Token
      BY SignTokens
    <2> HIDE DEF sign, Token
    <2>2. <<sign>> \in Seq(Token)
      BY <2>1
    <2> QED
      BY <2>2 DEF sign
  <1>2. x = Put(b, true)
    BY Zenon DEF EncString, Start
  <1>3. IsWriter(a) /\ a.out = w.out \o Start(t) /\ a.slinktbl = w.slinktbl
    BY StartIs, PutWrites
  <1> HIDE DEF a, true
  <1>4. Marks(a) = Marks(w) /\ Known(a) = Known(w) /\ Table(a)
    BY <1>3, Zenon DEF Marks, Known, Table
  <1>5. /\ IsWriter(b) /\ b.out = a.out \o Marks(w) /\ b.slinktbl = Known(w)
        /\ Table(b) /\ Marks(w) \in Seq(Token)
    BY <1>3, <1>4, SymbolWrites
  <1> HIDE DEF b
  <1>6. IsWriter(x) /\ x.out = b.out \o true /\ x.slinktbl = b.slinktbl
    BY <1>1, <1>2, <1>5, PutWrites
  <1>7. Table(x)
    BY <1>5, <1>6, Zenon DEF Table
  <1> QED
    BY <1>1, <1>3, <1>5, <1>6, <1>7, Zenon DEF true

\* A reader after a text of a spec.
TextRead(r, x, t, y) ==
    /\ IsReader(y) /\ y.at = Len(x.out) + 1 /\ (y.ok <=> r.ok)
    /\ y.texts = Append(r.texts, t) /\ y.specs = r.specs

\* A string that was written is read where it is.
LEMMA StringReads ==
    ASSUME NEW d, NEW w, NEW t, NEW x, NEW r, NEW signs, NEW y,
           IsWriter(w), Table(w), t \in Sized, x = EncString(w, t), IsPart(x.out, d),
           IsReader(r), r.at = Len(w.out) + 1,
           Semicolon \in signs, w.slinktbl = <<>> => Colon \in signs,
           y = ReadEncoded(d, r, signs)
    PROVE  IsPart(w.out, d) /\ At(d, r.at) = Sign("I") /\ TextRead(r, x, t, y)
  <1> DEFINE o == w.out
             h == Start(t)
             m == Marks(w)
             true == <<Sign("T")>>
             e == EncInt(t.length)
             p == r.at
  <1>1. /\ x.out = o \o h \o m \o true /\ o \in Seq(Token) /\ h \in Seq(Token)
        /\ m \in Seq(Token) /\ true \in Seq(Token) /\ d \in Seq(Token)
    BY StringWrites, StartIs DEF IsWriter, IsPart
  <1>2. /\ p \in Nat \ {0} /\ Len(e) \in Nat /\ Len(h) = 4 + Len(e) /\ e \in Seq(Token)
        /\ p = Len(o) + 1
    BY StartIs DEF IsReader
  <1>0. Len(true) = 1
    OBVIOUS
  <1> HIDE DEF o, h, m, true, e, p
  <1>3. /\ IsPart(o \o h \o m, d) /\ Holds(d, Len(o \o h \o m) + 1, true)
        /\ Len(x.out) = Len(o \o h \o m) + 1
    <2> DEFINE n == o \o h \o m
    <2>1. n \in Seq(Token) /\ x.out = n \o true
      BY <1>1
    <2> HIDE DEF n
    <2>2. IsPart(n \o true, d)
      BY <2>1
    <2>3. IsPart(n, d) /\ Holds(d, Len(n) + 1, true) /\ Len(n \o true) = Len(n) + Len(true)
      BY <1>1, <2>1, <2>2, Written
    <2> QED
      BY <1>0, <2>1, <2>3 DEF n
  <1>4. /\ IsPart(o \o h, d) /\ Holds(d, Len(o \o h) + 1, m)
        /\ Len(o \o h \o m) = Len(o \o h) + Len(m)
    <2> DEFINE n == o \o h
    <2>1. n \in Seq(Token) /\ IsPart(n \o m, d)
      BY <1>1, <1>3
    <2> HIDE DEF n
    <2>2. IsPart(n, d) /\ Holds(d, Len(n) + 1, m) /\ Len(n \o m) = Len(n) + Len(m)
      BY <1>1, <2>1, Written
    <2> QED
      BY <2>2 DEF n
  <1>5. /\ IsPart(o, d) /\ Holds(d, Len(o) + 1, h) /\ Len(o \o h) = Len(o) + Len(h)
    BY <1>1, <1>4, Written
  <1>6. /\ Holds(d, p, h) /\ Holds(d, p + 4 + Len(e), m)
        /\ Holds(d, p + 4 + Len(e) + Len(m), true)
        /\ Len(x.out) = p + 4 + Len(e) + Len(m)
    <2>1. Len(o) \in Nat /\ Len(m) \in Nat
      BY <1>1
    <2>2. /\ Len(o \o h) + 1 = p + 4 + Len(e)
          /\ Len(o \o h \o m) + 1 = p + 4 + Len(e) + Len(m)
      BY <1>2, <1>4, <1>5, <2>1
    <2> QED
      BY <1>2, <1>3, <1>4, <1>5, <2>2
  <1> DEFINE i == Sign("I")
             q == Sign("\"")
             v == Text(t)
             six == Byte(6)
  <1>7. h = <<i, q>> \o e \o <<v, six>> /\ <<i, q>> \in Seq(Token) /\ <<v, six>> \in Seq(Token)
    BY StartIs, Zenon DEF Start, h, e
  <1> HIDE DEF i, q, v, six
  <1>8. /\ Holds(d, p, <<i, q>>) /\ Holds(d, p + 2, e) /\ Holds(d, p + 2 + Len(e), <<v, six>>)
    <2>1. /\ <<i, q>> \o e \in Seq(Token) /\ Len(<<i, q>> \o e) = 2 + Len(e)
          /\ Len(<<i, q>>) = 2
      BY <1>2, <1>7
    <2>2. /\ Holds(d, p, <<i, q>> \o e) /\ Holds(d, p + Len(<<i, q>> \o e), <<v, six>>)
      BY <1>1, <1>2, <1>6, <1>7, <2>1, HoldsBoth
    <2>3. Holds(d, p, <<i, q>>) /\ Holds(d, p + Len(<<i, q>>), e)
      BY <1>1, <1>2, <1>7, <2>2, HoldsBoth
    <2>4. p + Len(<<i, q>> \o e) = p + 2 + Len(e) /\ p + Len(<<i, q>>) = p + 2
      BY <1>2, <2>1
    <2> QED
      BY <2>2, <2>3, <2>4
  <1>9. At(d, p) = i /\ At(d, p + 1) = q /\ At(d, p + 2 + Len(e)) = v
    <2>1. p + 2 + Len(e) \in Nat \ {0}
      BY <1>2
    <2> QED
      BY <1>1, <1>2, <1>8, <2>1, HoldsTwo
  <1> DEFINE I == {"I"}
             Q == {"\""}
             a == Sees(d, r, I)
             b == Sees(d, a, Q)
             size == ReadInt(d, p + 2)
             c == TextOfSize(d, b, size)
  <1>10. i \in {Sign(sign) : sign \in I} /\ q \in {Sign(sign) : sign \in Q}
    BY Zenon DEF i, q
  <1> HIDE DEF I, Q
  <1>11. /\ IsReader(a) /\ a.at = p + 1 /\ (a.ok <=> r.ok) /\ a.texts = r.texts /\ a.specs = r.specs
    <2>1. /\ IsReader(a) /\ a.at = r.at + 1
          /\ (a.ok <=> (r.ok /\ At(d, r.at) \in {Sign(sign) : sign \in I}))
          /\ a.texts = r.texts /\ a.specs = r.specs
      <3>1. a = Sees(d, r, I) /\ IsReader(r)
        OBVIOUS
      <3> HIDE DEF a
      <3> QED
        BY <3>1, SeesFields
    <2> HIDE DEF a
    <2> QED
      BY <1>9, <1>10, <2>1 DEF p
  <1> HIDE DEF a
  <1>12. /\ IsReader(b) /\ b.at = p + 2 /\ (b.ok <=> r.ok) /\ b.texts = r.texts /\ b.specs = r.specs
    <2>1. /\ IsReader(b) /\ b.at = a.at + 1
          /\ (b.ok <=> (a.ok /\ At(d, a.at) \in {Sign(sign) : sign \in Q}))
          /\ b.texts = a.texts /\ b.specs = a.specs
      <3>1. b = Sees(d, a, Q)
        OBVIOUS
      <3> HIDE DEF b
      <3> QED
        BY <1>11, <3>1, SeesFields
    <2> HIDE DEF b
    <2>2. a.at + 1 = p + 2
      BY <1>2, <1>11
    <2> QED
      BY <1>9, <1>10, <1>11, <2>1, <2>2
  <1> HIDE DEF b
  <1>13. size.n = t.length /\ size.at = p + 2 + Len(e) /\ size.at \in Nat
    <2>1. p + 2 \in Nat \ {0} /\ p + 2 + Len(e) \in Nat
      BY <1>2
    <2>2. size = [n |-> t.length, at |-> p + 2 + Len(e)]
      BY <1>1, <1>8, <2>1, IntHeld, StartIs DEF e
    <2> QED
      BY <2>1, <2>2
  <1> HIDE DEF size
  <1>14. /\ IsReader(c) /\ c.at = p + 2 + Len(e) + 1 /\ (c.ok <=> r.ok)
         /\ c.texts = Append(r.texts, t) /\ c.specs = r.specs
    <2>1. /\ IsReader(c) /\ c.at = size.at + 1
          /\ (c.ok <=> (b.ok /\ (At(d, size.at)[1] = "text" =>
                                    At(d, size.at)[2].length = size.n)))
          /\ c.texts = Append(b.texts, TextAt(d, size.at)) /\ c.specs = b.specs
      BY <1>12, <1>13, TextFields
    <2> HIDE DEF c
    <2>2. At(d, size.at) = v /\ v[1] = "text" /\ v[2] = t
      BY <1>9, <1>13 DEF v, Text
    <2>3. TextAt(d, size.at) = t
      BY <2>2, Zenon DEF TextAt
    <2> QED
      BY <1>12, <1>13, <2>1, <2>2, <2>3
  <1>15. y = ReadEncoding(d, c, signs)
    <2>1. c = ReadRawString(d, r)
      <3>1. size = ReadInt(d, b.at)
        BY <1>12 DEF size
      <3> QED
        BY <3>1, Zenon DEF ReadRawString, ReadText, a, b, I, Q
    <2> HIDE DEF c
    <2> QED
      BY <2>1, Zenon DEF ReadEncoded
  <1> HIDE DEF c
  <1>16. Holds(d, c.at + 1, Marks(w)) /\ Holds(d, c.at + 1 + Len(Marks(w)), <<Sign("T")>>)
    <2>1. c.at + 1 = p + 4 + Len(e)
      BY <1>2, <1>14
    <2> QED
      BY <1>6, <2>1, Zenon DEF m, true
  <1>17. /\ IsReader(y) /\ y.at = c.at + 1 + Len(Marks(w)) + 1 /\ (y.ok <=> c.ok)
         /\ y.texts = c.texts /\ y.specs = c.specs
    BY <1>1, <1>14, <1>15, <1>16, MarksRead
  <1>18. y.at = Len(x.out) + 1
    <2>1. Len(m) \in Nat
      BY <1>1
    <2>2. c.at + 1 = p + 4 + Len(e)
      BY <1>2, <1>14
    <2> QED
      BY <1>2, <1>6, <1>17, <2>1, <2>2 DEF m
  <1> QED
    BY <1>5, <1>9, <1>14, <1>17, <1>18 DEF o, i, p, TextRead

-----------------------------------------------------------------------------
(* The version of a spec.                                                  *)

\* Two elements, one after the other.
LEMMA AppendToOne ==
    ASSUME NEW u, NEW v
    PROVE  Append(<<u>>, v) = <<u, v>>
  <1>1. Append(<<u>>, v) \in Seq({u, v}) /\ <<u, v>> \in Seq({u, v})
    OBVIOUS
  <1>2. Len(Append(<<u>>, v)) = 2 /\ Len(<<u, v>>) = 2
    OBVIOUS
  <1>3. Append(<<u>>, v)[1] = u /\ Append(<<u>>, v)[2] = v
    OBVIOUS
  <1>4. \A i \in 1 .. 2 : Append(<<u>>, v)[i] = <<u, v>>[i]
    BY <1>3
  <1> QED
    BY <1>1, <1>2, <1>4, SeqEqual

\* A stream that begins with what a string was written to began so before.
LEMMA StringWithin ==
    ASSUME NEW d, NEW w, IsWriter(w), Table(w), NEW t \in Sized, NEW x, x = EncString(w, t),
           IsPart(x.out, d)
    PROVE  IsPart(w.out, d)
  <1> DEFINE o == w.out
             a == o \o Start(t)
             b == a \o Marks(w)
             true == <<Sign("T")>>
  <1>1. /\ x.out = b \o true /\ o \in Seq(Token) /\ Start(t) \in Seq(Token)
        /\ Marks(w) \in Seq(Token) /\ true \in Seq(Token)
    BY StringWrites, StartIs DEF IsWriter
  <1>2. a \in Seq(Token) /\ b \in Seq(Token)
    <2> HIDE DEF o
    <2>1. a \in Seq(Token)
      BY <1>1
    <2> HIDE DEF a
    <2> QED
      BY <1>1, <2>1
  <1> HIDE DEF o, a, b, true
  <1>3. IsPart(b \o true, d)
    BY <1>1
  <1>4. IsPart(b, d)
    BY <1>1, <1>2, <1>3, Written
  <1>5. IsPart(a, d)
    <2>1. IsPart(a \o Marks(w), d)
      BY <1>4 DEF b
    <2> QED
      BY <1>1, <1>2, <2>1, Written
  <1>6. IsPart(o, d)
    <2>1. IsPart(o \o Start(t), d)
      BY <1>5 DEF a
    <2> QED
      BY <1>1, <2>1, Written
  <1> QED
    BY <1>6 DEF o

\* How the symbol Gem::Version is written, after an E.
Inside(w) == w.slinktbl \in {<<"E">>, <<"E", "Gem::Version">>}
ClassSpelling == <<Sign(":")>> \o <<Byte(17)>> \o <<Text(Literal("Gem::Version"))>>
ClassLinking == <<Sign(";")>> \o <<Byte(6)>>
ClassMarks(w) == IF w.slinktbl = <<"E">> THEN ClassSpelling ELSE ClassLinking

\* The tokens of the class, spelled out and linked.
LEMMA ClassMarksAre ==
    /\ ClassSpelling \in Seq(Token) /\ Len(ClassSpelling) = 3
    /\ ClassLinking \in Seq(Token) /\ Len(ClassLinking) = 2
    /\ \A d \in Seq(Token), p \in Nat \ {0} :
          Holds(d, p, ClassSpelling) => /\ At(d, p) = Sign(Colon)
                                        /\ Holds(d, p + 1, <<Byte(17)>>)
    /\ \A d \in Seq(Token), p \in Nat \ {0} :
          Holds(d, p, ClassLinking) => At(d, p) = Sign(Semicolon)
  <1> DEFINE e == Text(Literal("Gem::Version"))
             colon == Sign(Colon)
             link == Sign(Semicolon)
             size == Byte(17)
             six == Byte(6)
  <1>1. colon \in Token /\ link \in Token /\ e \in Token
    BY SignTokens, TextTokens, Zenon DEF Colon, Semicolon
  <1>2. size \in Token /\ six \in Token
    BY ByteTokens
  <1>3. ClassSpelling = <<colon>> \o <<size>> \o <<e>> /\ ClassLinking = <<link>> \o <<six>>
    BY Zenon DEF ClassSpelling, ClassLinking, Colon, Semicolon
  <1> HIDE DEF e, colon, link, size, six, Token
  <1>4. /\ ClassSpelling \in Seq(Token) /\ ClassLinking \in Seq(Token)
        /\ Len(ClassSpelling) = 3 /\ Len(ClassLinking) = 2
    BY <1>1, <1>2, <1>3
  <1>5. ASSUME NEW d \in Seq(Token), NEW p \in Nat \ {0}, Holds(d, p, ClassLinking)
        PROVE  At(d, p) = link
    <2>1. <<link>> \in Seq(Token) /\ <<six>> \in Seq(Token)
      BY <1>1, <1>2
    <2>2. Holds(d, p, <<link>>)
      BY <1>3, <1>5, <2>1, HoldsBoth
    <2> QED
      BY <2>2, HoldsOne
  <1>6. ASSUME NEW d \in Seq(Token), NEW p \in Nat \ {0}, Holds(d, p, ClassSpelling)
        PROVE  At(d, p) = colon /\ Holds(d, p + 1, <<size>>)
    <2> DEFINE both == <<colon>> \o <<size>>
    <2>1. /\ <<colon>> \in Seq(Token) /\ <<size>> \in Seq(Token) /\ <<e>> \in Seq(Token)
          /\ both \in Seq(Token) /\ Len(<<colon>>) = 1
      BY <1>1, <1>2
    <2>2. ClassSpelling = both \o <<e>>
      BY <1>3
    <2> HIDE DEF both
    <2>3. Holds(d, p, both)
      BY <1>6, <2>1, <2>2, HoldsBoth
    <2>4. Holds(d, p, <<colon>>) /\ Holds(d, p + Len(<<colon>>), <<size>>)
      BY <2>1, <2>3, HoldsBoth DEF both
    <2> QED
      BY <2>1, <2>4, HoldsOne
  <1> QED
    BY <1>4, <1>5, <1>6, Zenon DEF colon, link, size

\* What a writer of versions writes for their class.
LEMMA ClassWrites ==
    ASSUME NEW w, IsWriter(w), Inside(w), NEW x, x = EncSymbol(w, "Gem::Version")
    PROVE  /\ IsWriter(x) /\ x.out = w.out \o ClassMarks(w)
           /\ x.slinktbl = <<"E", "Gem::Version">> /\ ClassMarks(w) \in Seq(Token)
  <1> DEFINE name == "Gem::Version"
  <1>0. ClassMarks(w) \in Seq(Token)
    BY ClassMarksAre, Zenon DEF ClassMarks
  <1>1. CASE w.slinktbl = <<"E">>
    <2>1. Places(w, name) = {}
      BY <1>1 DEF Places
    <2>2. x = [Spell(w, name) EXCEPT !.slinktbl = Append(@, name)]
      BY <2>1 DEF EncSymbol
    <2>3. Spell(w, name) = Put(w, ClassMarks(w))
      <3>1. EncInt(Len(name)) = <<Byte(17)>>
        <4>1. EncInt(12) = <<Byte(17)>>
          BY OneByteEach
        <4> QED
          BY <4>1, SymbolAssumption, Zenon
      <3> QED
        BY <1>1, <3>1, Zenon DEF Spell, ClassMarks, ClassSpelling
    <2> DEFINE y == Put(w, ClassMarks(w))
    <2>4. IsWriter(y) /\ y.out = w.out \o ClassMarks(w) /\ y.slinktbl = <<"E">>
      BY <1>0, <1>1, PutWrites
    <2> HIDE DEF y
    <2>5. x = [y EXCEPT !.slinktbl = Append(y.slinktbl, name)]
      BY <2>2, <2>3 DEF y
    <2>6. Append(y.slinktbl, name) = <<"E", name>>
      BY <2>4, AppendToOne, Zenon
    <2>7. IsWriter(x) /\ x.out = y.out /\ x.slinktbl = <<"E", name>>
      BY <2>4, <2>5, <2>6 DEF IsWriter
    <2> QED
      BY <1>0, <2>4, <2>7
  <1>2. CASE w.slinktbl = <<"E", name>>
    <2>1. Places(w, name) = {2}
      BY <1>2 DEF Places
    <2>2. x = Link(w, ";", 1)
      <3>1. (CHOOSE i \in {2} : TRUE) - 1 = 1
        OBVIOUS
      <3> QED
        BY <2>1, <3>1 DEF EncSymbol
    <2>3. x = Put(w, ClassMarks(w))
      <3>1. EncInt(1) = <<Byte(6)>>
        BY OneByteEach
      <3>2. w.slinktbl # <<"E">>
        BY <1>2
      <3> QED
        BY <2>2, <3>1, <3>2, Zenon DEF Link, ClassMarks, ClassLinking
    <2> QED
      BY <1>0, <1>2, <2>3, PutWrites
  <1> QED
    BY <1>1, <1>2 DEF Inside

\* A sign that is expected is stepped over.
LEMMA SeesIt ==
    ASSUME NEW d, NEW r, IsReader(r), NEW signs, NEW sign \in signs, At(d, r.at) = Sign(sign),
           NEW x, x = Sees(d, r, signs)
    PROVE  /\ IsReader(x) /\ x.at = r.at + 1 /\ (x.ok <=> r.ok)
           /\ x.texts = r.texts /\ x.specs = r.specs
  <1>1. /\ IsReader(x) /\ x.at = r.at + 1
        /\ (x.ok <=> (r.ok /\ At(d, r.at) \in {Sign(c) : c \in signs}))
        /\ x.texts = r.texts /\ x.specs = r.specs
    BY SeesFields
  <1>2. At(d, r.at) \in {Sign(c) : c \in signs}
    OBVIOUS
  <1> QED
    BY <1>1, <1>2

\* What passing over tokens changes.
LEMMA SkipsIt ==
    ASSUME NEW r, IsReader(r), NEW n \in Nat, NEW x, x = Skip(r, n)
    PROVE  /\ IsReader(x) /\ x.at = r.at + n /\ (x.ok <=> r.ok)
           /\ x.texts = r.texts /\ x.specs = r.specs
  BY DEF Skip, IsReader

\* The place after n more tokens, counted in two ways.
LEMMA InOtherWords == \A a \in Nat, n \in Nat : a + 2 + n = a + 1 + (n + 1)
  OBVIOUS

\* The size of the symbol of the class, without its sign.
ClassStep(d, p) == IF At(d, p + 1) = Sign(Colon) THEN ReadInt(d, p + 2).at - p - 1 ELSE 1

\* The reader finds the size of the class in both of its forms.
LEMMA ClassSize ==
    ASSUME NEW d \in Seq(Token), NEW p \in Nat \ {0}, NEW w, Inside(w),
           Holds(d, p + 1, ClassMarks(w)), NEW size, size = ClassStep(d, p)
    PROVE  /\ size \in Nat \ {0} /\ size + 1 = Len(ClassMarks(w))
           /\ At(d, p + 1) \in {Sign(Colon), Sign(Semicolon)}
  <1>1. p + 1 \in Nat \ {0} /\ p + 2 \in Nat \ {0} /\ p + 1 + 1 = p + 2
    OBVIOUS
  <1>2. CASE w.slinktbl = <<"E">>
    <2>0. ClassMarks(w) = ClassSpelling
      BY <1>2, Zenon DEF ClassMarks
    <2>1. /\ At(d, p + 1) = Sign(Colon) /\ Len(ClassMarks(w)) = 3
          /\ Holds(d, p + 1 + 1, <<Byte(17)>>)
      BY <1>1, <2>0, ClassMarksAre, Zenon
    <2>2. Holds(d, p + 2, <<Byte(17)>>)
      BY <1>1, <2>1, Zenon
    <2>3. EncInt(12) = <<Byte(17)>>
      BY OneByteEach
    <2>4. Holds(d, p + 2, EncInt(12))
      BY <2>2, <2>3, Zenon
    <2>5. 12 \in Int /\ Encodes(12)
      BY SMT DEF Encodes
    <2> DEFINE name == ReadInt(d, p + 2)
               e == EncInt(12)
    <2>6. name = [n |-> 12, at |-> p + 2 + Len(e)]
      BY <1>1, <2>4, <2>5, IntHeld
    <2>7. Len(e) = 1
      BY <2>3
    <2> HIDE DEF name, e
    <2>8. name.at = p + 2 + Len(e)
      BY <2>6
    <2>9. name.at = p + 3
      BY <2>7, <2>8
    <2>10. size = name.at - p - 1
      BY <2>1, Zenon DEF name, ClassStep
    <2>11. size = 2
      BY <2>9, <2>10
    <2> QED
      BY <2>1, <2>11
  <1>3. CASE w.slinktbl # <<"E">>
    <2>1. At(d, p + 1) = Sign(Semicolon) /\ Len(ClassMarks(w)) = 2
      BY <1>1, <1>3, ClassMarksAre, Zenon DEF ClassMarks
    <2>2. size = 1
      BY <2>1, SignsDiffer, Zenon DEF ClassStep
    <2> QED
      BY <2>1, <2>2
  <1> QED
    BY <1>2, <1>3

\* The symbol of the class is read over.
LEMMA ClassReads ==
    ASSUME NEW d \in Seq(Token), NEW r, IsReader(r), NEW w, Inside(w),
           Holds(d, r.at, <<Sign("U")>>), Holds(d, r.at + 1, ClassMarks(w)),
           NEW x, x = ReadClass(d, r)
    PROVE  /\ IsReader(x) /\ x.at = r.at + 1 + Len(ClassMarks(w)) /\ (x.ok <=> r.ok)
           /\ x.texts = r.texts /\ x.specs = r.specs /\ At(d, r.at) = Sign("U")
  <1> DEFINE signs == {Colon, Semicolon}
             U == {"U"}
             size == IF At(d, r.at + 1) = Sign(Colon)
                     THEN ReadInt(d, r.at + 2).at - r.at - 1 ELSE 1
             a == Sees(d, r, U)
             b == Sees(d, a, signs)
             n == Len(ClassMarks(w))
             p == r.at
  <1>1. r.at \in Nat \ {0} /\ r.at + 1 + 1 = r.at + 2
    BY DEF IsReader
  <1>2. size \in Nat \ {0} /\ size + 1 = n /\ At(d, r.at + 1) \in {Sign(Colon), Sign(Semicolon)}
    <2>1. size = ClassStep(d, p)
      BY Zenon DEF ClassStep
    <2>2. p \in Nat \ {0} /\ Holds(d, p + 1, ClassMarks(w))
      BY <1>1
    <2> HIDE DEF size, p
    <2>3. /\ size \in Nat \ {0} /\ size + 1 = Len(ClassMarks(w))
          /\ At(d, p + 1) \in {Sign(Colon), Sign(Semicolon)}
      BY <2>1, <2>2, ClassSize
    <2> QED
      BY <2>3, Zenon DEF p, n
  <1>3. PICK sign \in signs : At(d, r.at + 1) = Sign(sign)
    BY <1>2, Zenon
  <1>4. At(d, r.at) = Sign("U") /\ "U" \in U
    BY <1>1, HoldsOne
  <1>5. x = Skip(b, size)
    BY Zenon DEF ReadClass, Colon, Semicolon
  <1> HIDE DEF signs, U, size, a, b, n
  <1>6. /\ IsReader(a) /\ a.at = r.at + 1 /\ (a.ok <=> r.ok) /\ a.texts = r.texts
        /\ a.specs = r.specs
    <2>1. a = Sees(d, r, U)
      BY Zenon DEF a
    <2> QED
      BY <1>4, <2>1, SeesIt
  <1>7. /\ IsReader(b) /\ b.at = a.at + 1 /\ (b.ok <=> a.ok) /\ b.texts = a.texts
        /\ b.specs = a.specs
    <2>1. b = Sees(d, a, signs)
      BY Zenon DEF b
    <2>2. At(d, a.at) = Sign(sign)
      BY <1>3, <1>6, Zenon
    <2> QED
      BY <1>3, <1>6, <2>1, <2>2, SeesIt
  <1>8. size \in Nat
    BY <1>2
  <1>9. /\ IsReader(x) /\ x.at = b.at + size /\ (x.ok <=> b.ok) /\ x.texts = b.texts
        /\ x.specs = b.specs
    BY <1>5, <1>7, <1>8, SkipsIt, Zenon
  <1>10. x.at = r.at + 1 + n
    <2>1. x.at = r.at + 2 + size
      BY <1>1, <1>6, <1>7, <1>9, Zenon
    <2>2. r.at + 2 + size = r.at + 1 + (size + 1)
      <3>1. r.at \in Nat
        BY <1>1
      <3> QED
        BY <1>8, <3>1, InOtherWords, Zenon
    <2> QED
      BY <1>2, <2>1, <2>2, Zenon
  <1> QED
    BY <1>4, <1>6, <1>7, <1>9, <1>10, Zenon DEF n

\* Three parts that were written one after the other.
Three(d, o, a, b, c, x) ==
    /\ IsPart(o, d) /\ Holds(d, Len(o) + 1, a) /\ Holds(d, Len(o) + 1 + Len(a), b)
    /\ Holds(d, Len(o) + 1 + Len(a) + Len(b), c)
    /\ Len(x) = Len(o) + Len(a) + Len(b) + Len(c)

\* A stream that begins with o and three runs holds each where it was written.
LEMMA WrittenThree ==
    ASSUME NEW d, NEW o \in Seq(Token), NEW a \in Seq(Token), NEW b \in Seq(Token),
           NEW c \in Seq(Token), NEW x, x = o \o a \o b \o c, IsPart(x, d)
    PROVE  Three(d, o, a, b, c, x)
  <1> DEFINE m == o \o a
             n == m \o b
  <1>1. m \in Seq(Token)
    OBVIOUS
  <1>2. n \in Seq(Token)
    <2> HIDE DEF m
    <2> QED
      BY <1>1
  <1>3. IsPart(n \o c, d) /\ x = n \o c
    OBVIOUS
  <1> HIDE DEF n
  <1>4. IsPart(n, d) /\ Holds(d, Len(n) + 1, c) /\ Len(n \o c) = Len(n) + Len(c)
    BY <1>2, <1>3, Written
  <1>5. IsPart(m \o b, d)
    BY <1>4 DEF n
  <1> HIDE DEF m
  <1>6. IsPart(m, d) /\ Holds(d, Len(m) + 1, b) /\ Len(m \o b) = Len(m) + Len(b)
    BY <1>1, <1>5, Written
  <1>7. IsPart(o \o a, d)
    BY <1>6 DEF m
  <1>8. IsPart(o, d) /\ Holds(d, Len(o) + 1, a) /\ Len(o \o a) = Len(o) + Len(a)
    <2>1. Len(o \o a) = Len(o) + Len(a)
      OBVIOUS
    <2>2. IsPart(o, d) /\ Holds(d, Len(o) + 1, a)
      BY <1>7, Written
    <2> QED
      BY <2>1, <2>2, Zenon
  <1>9. Len(o) \in Nat /\ Len(a) \in Nat /\ Len(b) \in Nat /\ Len(c) \in Nat
    OBVIOUS
  <1>10. Len(m) = Len(o) + Len(a) /\ Len(n) = Len(m) + Len(b) /\ Len(x) = Len(n) + Len(c)
    BY <1>3, <1>4, <1>6, <1>8, Zenon DEF m, n
  <1>11. /\ Len(m) + 1 = Len(o) + 1 + Len(a) /\ Len(n) + 1 = Len(o) + 1 + Len(a) + Len(b)
         /\ Len(x) = Len(o) + Len(a) + Len(b) + Len(c)
    BY <1>9, <1>10
  <1> QED
    BY <1>4, <1>6, <1>8, <1>11, Zenon DEF Three

\* The head of an array: its sign and its size.
ArrayMarks(n) == <<Sign("[")>> \o EncInt(n)

\* The sign and the length of an array as tokens.
LEMMA ArrayMarksAre ==
    ASSUME NEW n \in Countable
    PROVE  /\ ArrayMarks(n) \in Seq(Token) /\ Len(EncInt(n)) \in Nat \ {0}
           /\ Len(ArrayMarks(n)) = 1 + Len(EncInt(n)) /\ <<Sign("[")>> \in Seq(Token)
           /\ EncInt(n) \in Seq(Token) /\ n \in Int /\ Encodes(n)
           /\ Len(<<Sign("[")>>) = 1
  <1> DEFINE e == EncInt(n)
             i == Sign("[")
  <1>1. n \in Int /\ Encodes(n)
    BY EncodesCounts
  <1>2. e \in Seq(Token) /\ Len(e) \in Nat \ {0}
    BY <1>1, IntTokens
  <1>3. i \in Token
    BY SignTokens, Zenon
  <1>4. ArrayMarks(n) = <<i>> \o e
    BY DEF ArrayMarks
  <1> HIDE DEF e, i
  <1>5. /\ <<i>> \in Seq(Token) /\ <<i>> \o e \in Seq(Token) /\ Len(<<i>> \o e) = 1 + Len(e)
        /\ Len(<<i>>) = 1
    BY <1>2, <1>3
  <1> QED
    BY <1>1, <1>2, <1>4, <1>5, Zenon DEF e, i

\* EncArray writes them, ...
LEMMA ArrayWrites ==
    ASSUME NEW w, IsWriter(w), NEW n \in Countable, NEW x, x = EncArray(w, n)
    PROVE  IsWriter(x) /\ x.out = w.out \o ArrayMarks(n) /\ x.slinktbl = w.slinktbl
  <1>1. x = Put(w, ArrayMarks(n))
    BY Zenon DEF EncArray, ArrayMarks
  <1> QED
    BY <1>1, ArrayMarksAre, PutWrites

\* ... and a reader finds them.
LEMMA ArrayHeld ==
    ASSUME NEW d \in Seq(Token), NEW p \in Nat \ {0}, NEW n \in Countable,
           Holds(d, p, ArrayMarks(n))
    PROVE  /\ At(d, p) = Sign("[")
           /\ ReadInt(d, p + 1) = [n |-> n, at |-> p + 1 + Len(EncInt(n))]
  <1> DEFINE i == Sign("[")
             one == <<i>>
             e == EncInt(n)
  <1>1. ArrayMarks(n) = one \o e
    BY DEF ArrayMarks
  <1>2. one \in Seq(Token) /\ e \in Seq(Token) /\ Len(one) = 1
    BY ArrayMarksAre
  <1> HIDE DEF one, e
  <1>3. Holds(d, p, one) /\ Holds(d, p + Len(one), e)
    BY <1>1, <1>2, HoldsBoth
  <1>4. Holds(d, p + 1, EncInt(n))
    BY <1>2, <1>3, Zenon DEF e
  <1>5. p + 1 \in Nat \ {0}
    OBVIOUS
  <1>6. ReadInt(d, p + 1) = [n |-> n, at |-> p + 1 + Len(EncInt(n))]
    BY <1>4, <1>5, ArrayMarksAre, IntHeld
  <1>7. At(d, p) = i
    <2>1. Holds(d, p, <<i>>)
      BY <1>3 DEF one
    <2> HIDE DEF i
    <2> QED
      BY <2>1, HoldsOne
  <1> QED
    BY <1>6, <1>7, Zenon DEF i

\* An array of one takes two tokens.
LEMMA OneMarks == ArrayMarks(1) \in Seq(Token) /\ Len(ArrayMarks(1)) = 2
  <1>1. EncInt(1) = <<Byte(6)>>
    BY OneByteEach
  <1>2. 1 + Len(EncInt(1)) = 2
    <2> DEFINE e == EncInt(1)
    <2>1. Len(e) = 1
      BY <1>1
    <2> HIDE DEF e
    <2>2. 1 + Len(e) = 2
      BY <2>1
    <2> QED
      BY <2>2, Zenon DEF e
  <1>3. 1 \in Countable
    BY DEF Countable
  <1>4. ArrayMarks(1) \in Seq(Token) /\ Len(ArrayMarks(1)) = 1 + Len(EncInt(1))
    BY <1>3, ArrayMarksAre, Zenon
  <1> QED
    BY <1>2, <1>4, Zenon

\* A version before its string.
LEMMA VersionWrites ==
    ASSUME NEW w, IsWriter(w), Inside(w), NEW v,
           v = EncArray(EncSymbol(Put(w, <<Sign("U")>>), "Gem::Version"), 1)
    PROVE  /\ IsWriter(v) /\ v.slinktbl = <<"E", "Gem::Version">>
           /\ v.out = w.out \o <<Sign("U")>> \o ClassMarks(w) \o ArrayMarks(1)
           /\ <<Sign("U")>> \in Seq(Token) /\ ClassMarks(w) \in Seq(Token)
           /\ ArrayMarks(1) \in Seq(Token) /\ Len(ArrayMarks(1)) = 2
  <1> DEFINE user == <<Sign("U")>>
             a == Put(w, user)
             b == EncSymbol(a, "Gem::Version")
  <1>1. user \in Seq(Token)
    <2> DEFINE sign == Sign("U")
    <2>1. sign \in Token
      BY SignTokens
    <2> HIDE DEF sign, Token
    <2>2. <<sign>> \in Seq(Token)
      BY <2>1
    <2> QED
      BY <2>2 DEF sign
  <1> HIDE DEF user
  <1>2. IsWriter(a) /\ a.out = w.out \o user /\ a.slinktbl = w.slinktbl
    BY <1>1, PutWrites
  <1> HIDE DEF a
  <1>3. Inside(a) /\ ClassMarks(a) = ClassMarks(w)
    BY <1>2, Zenon DEF Inside, ClassMarks
  <1>4. /\ IsWriter(b) /\ b.out = a.out \o ClassMarks(w)
        /\ b.slinktbl = <<"E", "Gem::Version">> /\ ClassMarks(w) \in Seq(Token)
    <2>1. /\ IsWriter(b) /\ b.out = a.out \o ClassMarks(a)
          /\ b.slinktbl = <<"E", "Gem::Version">> /\ ClassMarks(a) \in Seq(Token)
      BY <1>2, <1>3, ClassWrites
    <2> QED
      BY <1>3, <2>1, Zenon
  <1>5. v = EncArray(b, 1)
    BY Zenon DEF a, b, user
  <1> HIDE DEF b
  <1>6. 1 \in Countable
    BY DEF Countable
  <1>7. IsWriter(v) /\ v.out = b.out \o ArrayMarks(1) /\ v.slinktbl = b.slinktbl
    BY <1>4, <1>5, <1>6, ArrayWrites
  <1> QED
    BY <1>1, <1>2, <1>4, <1>7, OneMarks, Zenon DEF user

\* No object begins as a link to one does.
LEMMA SignsOfObjects == Sign("U") # Sign("@") /\ Sign("I") # Sign("@")
  BY Zenon DEF Sign

\* The table after the class is spelled.
Full(w) == w.slinktbl = <<"E", "Gem::Version">>

\* A table with the class has the encoding too.
LEMMA FullTable ==
    ASSUME NEW w, Full(w)
    PROVE  Inside(w) /\ Table(w) /\ w.slinktbl # <<>>
  <1>1. <<"E", "Gem::Version">> # <<>>
    OBVIOUS
  <1> QED
    BY <1>1, Zenon DEF Full, Inside, Table

\* A version that was written is read where it is.
VersionRead(d, w, t, x) ==
    /\ IsWriter(x) /\ Full(x)
    /\ IsPart(x.out, d) => IsPart(w.out, d)
    /\ \A r : IsPart(x.out, d) /\ IsReader(r) /\ r.at = Len(w.out) + 1 =>
          TextRead(r, x, t, ReadVersion(d, r))

\* A version that was written is read, whichever form its class has.
LEMMA VersionReads ==
    ASSUME NEW d, NEW w, NEW t, NEW x, IsWriter(w), Inside(w), t \in Sized,
           x = EncGemVersion(w, t)
    PROVE  VersionRead(d, w, t, x)
  <1> DEFINE v == EncArray(EncSymbol(Put(w, <<Sign("U")>>), "Gem::Version"), 1)
             user == <<Sign("U")>>
             class == ClassMarks(w)
             one == ArrayMarks(1)
             o == w.out
  <1>1. x = EncString(v, t)
    BY Zenon DEF EncGemVersion
  <1>2. /\ IsWriter(v) /\ Full(v) /\ v.out = o \o user \o class \o one
        /\ user \in Seq(Token) /\ class \in Seq(Token) /\ one \in Seq(Token)
        /\ Len(one) = 2
    BY VersionWrites, Zenon DEF Full
  <1> HIDE DEF v, user, class, one
  <1>3. Inside(v) /\ Table(v) /\ v.slinktbl # <<>>
    BY <1>2, FullTable
  <1>4. IsWriter(x) /\ Full(x)
    <2>1. IsWriter(x) /\ x.slinktbl = Known(v)
      BY <1>1, <1>2, <1>3, StringWrites
    <2> QED
      BY <1>2, <1>3, <2>1, Zenon DEF Known, Full
  <1>5. o \in Seq(Token) /\ Len(user) = 1
    BY DEF IsWriter, user
  <1>6. ASSUME IsPart(x.out, d)
        PROVE  /\ IsPart(v.out, d) /\ IsPart(o, d) /\ Holds(d, Len(o) + 1, user)
               /\ Holds(d, Len(o) + 1 + 1, class) /\ Holds(d, Len(o) + 1 + 1 + Len(class), one)
               /\ Len(v.out) = Len(o) + 1 + Len(class) + 2
    <2>1. IsPart(v.out, d)
      BY <1>1, <1>2, <1>3, <1>6, StringWithin
    <2> HIDE DEF o
    <2>2. Three(d, o, user, class, one, v.out)
      BY <1>2, <1>5, <2>1, WrittenThree, Zenon
    <2> QED
      BY <1>2, <1>5, <2>1, <2>2, Zenon DEF Three
  <1>7. ASSUME NEW r, IsPart(x.out, d), IsReader(r), r.at = Len(w.out) + 1
        PROVE  TextRead(r, x, t, ReadVersion(d, r))
    <2> DEFINE a == ReadClass(d, r)
               array == {"["}
               b == Sees(d, a, array)
               c == Skip(b, 1)
               signs == {";"}
               e == ReadEncoded(d, c, signs)
               y == ReadVersion(d, r)
               links == e.links \o <<Literal("["), Literal("U")>>
               p == r.at
    <2>1. d \in Seq(Token) /\ p \in Nat \ {0} /\ p = Len(o) + 1
      BY <1>7 DEF IsPart, IsReader
    <2>2. /\ Holds(d, p, user) /\ Holds(d, p + 1, class) /\ Holds(d, p + 1 + Len(class), one)
          /\ Len(v.out) = Len(o) + 1 + Len(class) + 2
      BY <1>6, <1>7, <2>1, Zenon
    <2>3. At(d, p) # Sign("@") => y = [e EXCEPT !.links = links]
      BY Zenon DEF ReadVersion, ReadEncoded
    <2>4. Semicolon \in signs /\ "[" \in array
      BY Zenon DEF Semicolon
    <2> HIDE DEF a, array, b, c, signs, e, y, links, p
    <2>5. /\ IsReader(a) /\ a.at = p + 1 + Len(class) /\ (a.ok <=> r.ok)
          /\ a.texts = r.texts /\ a.specs = r.specs /\ At(d, p) = Sign("U")
      <3>1. a = ReadClass(d, r)
        BY Zenon DEF a
      <3>2. Holds(d, r.at, <<Sign("U")>>) /\ Holds(d, r.at + 1, ClassMarks(w))
        BY <2>2, Zenon DEF p, user, class
      <3>3. /\ IsReader(a) /\ a.at = r.at + 1 + Len(ClassMarks(w)) /\ (a.ok <=> r.ok)
            /\ a.texts = r.texts /\ a.specs = r.specs /\ At(d, r.at) = Sign("U")
        BY <1>7, <2>1, <3>1, <3>2, ClassReads
      <3> QED
        BY <3>3, Zenon DEF p, class
    <2>6. Len(class) \in Nat /\ Len(o) \in Nat
      <3> HIDE DEF o
      <3> QED
        BY <1>2, <1>5
    <2>7. At(d, a.at) = Sign("[")
      <3>1. a.at \in Nat \ {0} /\ 1 \in Countable
        BY <2>1, <2>5, <2>6 DEF Countable
      <3>2. Holds(d, a.at, ArrayMarks(1))
        BY <2>2, <2>5, Zenon DEF one
      <3> QED
        BY <2>1, <3>1, <3>2, ArrayHeld
    <2>8. /\ IsReader(b) /\ b.at = a.at + 1 /\ (b.ok <=> a.ok)
          /\ b.texts = a.texts /\ b.specs = a.specs
      <3>1. b = Sees(d, a, array)
        BY Zenon DEF b
      <3> QED
        BY <2>4, <2>5, <2>7, <3>1, SeesIt
    <2>9. /\ IsReader(c) /\ c.at = b.at + 1 /\ (c.ok <=> b.ok)
          /\ c.texts = b.texts /\ c.specs = b.specs
      <3>1. c = Skip(b, 1) /\ 1 \in Nat
        BY DEF c
      <3> QED
        BY <2>8, <3>1, SkipsIt
    <2>10. c.at = Len(v.out) + 1
      <3>1. c.at = p + 1 + Len(class) + 1 + 1
        BY <2>5, <2>8, <2>9, Zenon
      <3>2. p + 1 + Len(class) + 1 + 1 = Len(o) + 1 + Len(class) + 2 + 1
        <4>1. \A i \in Nat, j \in Nat : i + 1 + 1 + j + 1 + 1 = i + 1 + j + 2 + 1
          OBVIOUS
        <4> QED
          BY <2>1, <2>6, <4>1, Zenon
      <3> QED
        BY <2>2, <3>1, <3>2, Zenon
    <2>11. /\ IsReader(e) /\ e.at = Len(x.out) + 1 /\ (e.ok <=> c.ok)
           /\ e.texts = Append(c.texts, t) /\ e.specs = c.specs
      <3>1. e = ReadEncoded(d, c, signs)
        BY Zenon DEF e
      <3> QED
        <4>1. /\ IsWriter(v) /\ Table(v) /\ x = EncString(v, t) /\ IsPart(x.out, d)
              /\ IsReader(c) /\ c.at = Len(v.out) + 1 /\ Semicolon \in signs
              /\ (v.slinktbl = <<>> => Colon \in signs)
          BY <1>1, <1>2, <1>3, <1>7, <2>4, <2>9, <2>10, Zenon
        <4> QED
          <5>1. TextRead(c, x, t, e)
            BY <3>1, <4>1, StringReads
          <5> QED
            BY <5>1, Zenon DEF TextRead
    <2>12. y = [e EXCEPT !.links = links]
      BY <2>3, <2>5, SignsOfObjects, Zenon
    <2>13. /\ IsReader(y) /\ y.at = e.at /\ y.ok = e.ok
           /\ y.texts = e.texts /\ y.specs = e.specs
      BY <2>11, <2>12, LinksFields
    <2> QED
      BY <2>5, <2>8, <2>9, <2>11, <2>13, Zenon DEF y, TextRead
  <1>8. IsPart(x.out, d) => IsPart(w.out, d)
    BY <1>6, Zenon DEF o
  <1> QED
    BY <1>4, <1>7, <1>8, Zenon DEF VersionRead

-----------------------------------------------------------------------------
(* The spec.                                                               *)

\* The specs of an index: texts that encInt has a length for.
Entry == [name : Sized, number : Sized, platform : Sized]

\* The parts of a spec.
LEMMA EntryFields ==
    ASSUME NEW spec \in Entry
    PROVE  /\ spec.name \in Sized /\ spec.number \in Sized /\ spec.platform \in Sized
           /\ spec = [name |-> spec.name, number |-> spec.number, platform |-> spec.platform]
  BY DEF Entry

\* Three elements, one after the other.
LEMMA ThreeTexts ==
    ASSUME NEW a, NEW b, NEW c, NEW s, s = Append(Append(Append(<<>>, a), b), c)
    PROVE  s[1] = a /\ s[2] = b /\ s[3] = c
  <1> DEFINE one == Append(<<>>, a)
             two == Append(one, b)
             all == {a, b, c}
  <1>0. a \in all /\ b \in all /\ c \in all
    OBVIOUS
  <1> HIDE DEF all
  <1>1. one \in Seq(all) /\ Len(one) = 1 /\ one[1] = a
    BY <1>0
  <1> HIDE DEF one
  <1>2. two \in Seq(all) /\ Len(two) = 2 /\ two[1] = a /\ two[2] = b
    <2>1. /\ two \in Seq(all) /\ Len(two) = Len(one) + 1
          /\ \A i \in 1 .. Len(one) : two[i] = one[i] /\ two[Len(one) + 1] = b
      BY <1>0, <1>1, AppendProperties, Zenon
    <2>2. 1 \in 1 .. Len(one) /\ Len(one) + 1 = 2
      BY <1>1
    <2> HIDE DEF two
    <2> QED
      BY <1>1, <2>1, <2>2
  <1>3. s = Append(two, c)
    BY DEF two, one
  <1> HIDE DEF two
  <1> QED
    BY <1>0, <1>2, <1>3

\* After a string the encoding is in the table.
LEMMA KnownInside ==
    ASSUME NEW w, Table(w), NEW x, x.slinktbl = Known(w)
    PROVE  Inside(x)
  BY Zenon DEF Table, Known, Inside

\* The writer and the stream after each part of a tuple.
TupleWritten(d, w, spec, a, b, c, x) ==
    /\ IsWriter(a) /\ Table(a) /\ IsWriter(b) /\ Inside(b) /\ IsWriter(c) /\ Full(c)
    /\ IsWriter(x) /\ Full(x)
    /\ IsPart(x.out, d) =>
          /\ IsPart(w.out, d) /\ IsPart(a.out, d) /\ IsPart(b.out, d) /\ IsPart(c.out, d)
          /\ Holds(d, Len(w.out) + 1, ArrayMarks(3))
          /\ Len(a.out) = Len(w.out) + Len(ArrayMarks(3))

\* What EncTuple writes, part by part.
LEMMA TupleWrites ==
    ASSUME NEW d, NEW w, NEW spec, NEW a, NEW b, NEW c, NEW x,
           IsWriter(w), Table(w), spec \in Entry,
           a = EncArray(w, 3), b = EncString(a, spec.name), c = EncGemVersion(b, spec.number),
           x = EncString(c, spec.platform)
    PROVE  TupleWritten(d, w, spec, a, b, c, x) /\ x = EncTuple(w, spec)
  <1>1. /\ spec.name \in Sized /\ spec.number \in Sized /\ spec.platform \in Sized
    BY EntryFields
  <1>2. 3 \in Countable
    BY DEF Countable
  <1>3. IsWriter(a) /\ a.out = w.out \o ArrayMarks(3) /\ a.slinktbl = w.slinktbl
    BY <1>2, ArrayWrites
  <1>4. Table(a)
    BY <1>3, Zenon DEF Table
  <1>5. IsWriter(b) /\ b.slinktbl = Known(a)
    BY <1>1, <1>3, <1>4, StringWrites
  <1>6. Inside(b)
    BY <1>4, <1>5, KnownInside
  <1>7. VersionRead(d, b, spec.number, c)
    BY <1>1, <1>5, <1>6, VersionReads
  <1>8. IsWriter(c) /\ Full(c) /\ (IsPart(c.out, d) => IsPart(b.out, d))
    BY <1>7, Zenon DEF VersionRead
  <1>9. Table(c) /\ c.slinktbl # <<>>
    BY <1>8, FullTable
  <1>10. IsWriter(x) /\ Full(x)
    <2>1. IsWriter(x) /\ x.slinktbl = Known(c)
      BY <1>1, <1>8, <1>9, StringWrites
    <2> QED
      BY <1>8, <1>9, <2>1, Zenon DEF Known, Full
  <1>11. ASSUME IsPart(x.out, d)
         PROVE  /\ IsPart(w.out, d) /\ IsPart(a.out, d) /\ IsPart(b.out, d) /\ IsPart(c.out, d)
                /\ Holds(d, Len(w.out) + 1, ArrayMarks(3))
                /\ Len(a.out) = Len(w.out) + Len(ArrayMarks(3))
    <2>1. IsPart(c.out, d)
      BY <1>1, <1>8, <1>9, <1>11, StringWithin
    <2>2. IsPart(b.out, d)
      BY <1>8, <2>1
    <2>3. IsPart(a.out, d)
      BY <1>1, <1>3, <1>4, <2>2, StringWithin
    <2> DEFINE o == w.out
               m == ArrayMarks(3)
    <2>4. o \in Seq(Token) /\ m \in Seq(Token) /\ IsPart(o \o m, d)
      <3>1. o \in Seq(Token)
        BY DEF IsWriter
      <3>2. m \in Seq(Token)
        BY <1>2, ArrayMarksAre
      <3> QED
        BY <1>3, <2>3, <3>1, <3>2, Zenon
    <2> HIDE DEF o, m
    <2>5. IsPart(o, d) /\ Holds(d, Len(o) + 1, m) /\ Len(o \o m) = Len(o) + Len(m)
      BY <2>4, Written
    <2> QED
      BY <1>3, <2>1, <2>2, <2>3, <2>5, Zenon DEF o, m
  <1>12. x = EncTuple(w, spec)
    BY Zenon DEF EncTuple
  <1> QED
    BY <1>3, <1>4, <1>5, <1>6, <1>8, <1>10, <1>11, <1>12, Zenon DEF TupleWritten

\* A reader after a spec, whose platform was no link to an object.
TupleRead(d, r, spec, x, y) ==
    /\ IsReader(y) /\ y.at = Len(x.out) + 1 /\ (y.ok <=> r.ok)
    /\ y.specs = Append(r.specs, spec)
    /\ At(d, AfterVersion(d, r).at) # Sign("@")

\* A reader after the sign and the size of a tuple.
SizeRead(r, n, b) ==
    /\ IsReader(b) /\ b.at = r.at + n /\ (b.ok <=> r.ok)
    /\ b.texts = <<>> /\ b.specs = r.specs

\* The length of a tuple is read as three.
LEMMA SizeReads ==
    ASSUME NEW d, NEW r, NEW n, NEW array, NEW a, NEW b, d \in Seq(Token), IsReader(r),
           Holds(d, r.at, ArrayMarks(3)), n = Len(ArrayMarks(3)),
           "[" \in array, a = Sees(d, r, array), b = ReadSize(d, a)
    PROVE  SizeRead(r, n, b)
  <1> DEFINE size == ReadInt(d, a.at)
             e == EncInt(3)
             p == r.at
  <1>1. p \in Nat \ {0} /\ 3 \in Countable
    BY DEF IsReader, Countable
  <1>2. At(d, p) = Sign("[") /\ ReadInt(d, p + 1) = [n |-> 3, at |-> p + 1 + Len(e)]
    BY <1>1, ArrayHeld
  <1>4. Len(e) \in Nat \ {0} /\ n = 1 + Len(e)
    BY <1>1, ArrayMarksAre
  <1> HIDE DEF e
  <1>5. /\ IsReader(a) /\ a.at = r.at + 1 /\ (a.ok <=> r.ok) /\ a.specs = r.specs
    BY <1>2, SeesIt
  <1>6. size = [n |-> 3, at |-> p + 1 + Len(e)]
    BY <1>2, <1>5, Zenon
  <1>7. b = SizedTuple(a, size)
    BY Zenon DEF ReadSize
  <1> HIDE DEF size
  <1>8. size.n = 3 /\ size.at = p + 1 + Len(e)
    BY <1>6
  <1>9. p + 1 + Len(e) \in Nat \ {0} /\ p + 1 + Len(e) = p + n
    <2> DEFINE l == Len(e)
    <2>1. l \in Nat /\ n = 1 + l
      BY <1>4
    <2> HIDE DEF l, p
    <2>2. p + 1 + l \in Nat \ {0} /\ p + 1 + l = p + n
      BY <1>1, <2>1
    <2> QED
      BY <2>2, Zenon DEF l
  <1>10. size.at \in Nat \ {0}
    BY <1>8, <1>9, Zenon
  <1>11. /\ IsReader(b) /\ b.at = size.at /\ (b.ok <=> (a.ok /\ size.n = 3))
         /\ b.texts = <<>> /\ b.specs = a.specs
    BY <1>5, <1>7, <1>10, SizedFields
  <1> QED
    BY <1>5, <1>8, <1>9, <1>11, Zenon DEF SizeRead

\* A spec that was written is read where it is.
LEMMA TupleReads ==
    ASSUME NEW d, NEW w, NEW spec, NEW x, NEW r,
           IsWriter(w), Table(w), spec \in Entry, x = EncTuple(w, spec), IsPart(x.out, d),
           IsReader(r), r.at = Len(w.out) + 1
    PROVE  TupleRead(d, r, spec, x, ReadTuple(d, r))
  <1> DEFINE a == EncArray(w, 3)
             b == EncString(a, spec.name)
             c == EncGemVersion(b, spec.number)
             z == EncString(c, spec.platform)
             array == {"["}
             any == {":", ";"}
             link == {";"}
             e == Sees(d, r, array)
             f == ReadSize(d, e)
             g == ReadEncoded(d, f, any)
             h == ReadVersion(d, g)
             k == ReadEncoded(d, h, link)
             y == AddSpec(k)
  <1>1. TupleWritten(d, w, spec, a, b, c, z) /\ z = x
    BY TupleWrites, Zenon
  <1>2. /\ a = EncArray(w, 3) /\ b = EncString(a, spec.name)
        /\ c = EncGemVersion(b, spec.number) /\ x = EncString(c, spec.platform)
    BY <1>1, Zenon
  <1>3. At(d, f.at) # Sign("@") => ReadName(d, f) = g
    BY Zenon DEF ReadName, ReadEncoded
  <1>4. ReadName(d, f) = g => AfterVersion(d, r) = h
    BY Zenon DEF AfterVersion
  <1>5. AfterVersion(d, r) = h /\ At(d, h.at) # Sign("@") => ReadTuple(d, r) = y
    BY Zenon DEF ReadTuple, ReadPlatform, ReadEncoded, AfterVersion
  <1>6. "[" \in array /\ e = Sees(d, r, array) /\ f = ReadSize(d, e)
    BY Zenon
  <1>7. Semicolon \in any /\ Colon \in any /\ Semicolon \in link
    BY Zenon DEF Colon, Semicolon
  <1> HIDE DEF a, b, c, z, array, any, link, e, f, g, h, k, y
  <1>8. /\ IsWriter(a) /\ Table(a) /\ IsWriter(b) /\ Inside(b) /\ IsWriter(c) /\ Full(c)
        /\ IsPart(w.out, d) /\ IsPart(a.out, d) /\ IsPart(b.out, d) /\ IsPart(c.out, d)
        /\ Holds(d, Len(w.out) + 1, ArrayMarks(3))
        /\ Len(a.out) = Len(w.out) + Len(ArrayMarks(3))
    BY <1>1, Zenon DEF TupleWritten
  <1>9. d \in Seq(Token) /\ r.at \in Nat
    BY <1>8 DEF IsPart, IsReader
  <1>10. /\ IsReader(f) /\ f.at = Len(a.out) + 1 /\ (f.ok <=> r.ok)
         /\ f.texts = <<>> /\ f.specs = r.specs
    <2> DEFINE n == Len(ArrayMarks(3))
               l == Len(w.out)
    <2>1. n = Len(ArrayMarks(3)) /\ Holds(d, r.at, ArrayMarks(3))
      BY <1>8, Zenon
    <2> HIDE DEF n
    <2>2. /\ IsReader(f) /\ f.at = r.at + n /\ (f.ok <=> r.ok)
          /\ f.texts = <<>> /\ f.specs = r.specs
      <3>1. SizeRead(r, n, f)
        BY <1>6, <1>9, <2>1, SizeReads
      <3> QED
        BY <3>1, Zenon DEF SizeRead
    <2>3. l \in Nat /\ n \in Nat /\ 3 \in Countable
      <3>1. l \in Nat
        BY <1>8 DEF IsWriter, IsPart
      <3>2. 3 \in Countable
        BY DEF Countable
      <3>3. ArrayMarks(3) \in Seq(Token)
        BY <3>2, ArrayMarksAre, Zenon
      <3>4. n \in Nat
        BY <3>3 DEF n
      <3> QED
        BY <3>1, <3>2, <3>4
    <2>4. r.at = l + 1 /\ Len(a.out) = l + n
      BY <1>8, Zenon DEF n
    <2> HIDE DEF l
    <2>5. r.at + n = Len(a.out) + 1
      BY <2>3, <2>4
    <2> QED
      BY <2>2, <2>5, Zenon
  <1>11. spec.name \in Sized /\ spec.number \in Sized /\ spec.platform \in Sized
    BY EntryFields
  <1>12. At(d, f.at) = Sign("I") /\ TextRead(f, b, spec.name, g)
    <2>1. g = ReadEncoded(d, f, any)
      BY Zenon DEF g
    <2> QED
      BY <1>2, <1>7, <1>8, <1>10, <1>11, <2>1, StringReads
  <1>13. /\ IsReader(g) /\ g.at = Len(b.out) + 1 /\ (g.ok <=> f.ok)
         /\ g.texts = Append(f.texts, spec.name) /\ g.specs = f.specs
    BY <1>12, Zenon DEF TextRead
  <1>14. AfterVersion(d, r) = h
    BY <1>3, <1>4, <1>12, SignsOfObjects, Zenon
  <1>15. TextRead(g, c, spec.number, h)
    <2>1. VersionRead(d, b, spec.number, c)
      BY <1>2, <1>8, <1>11, VersionReads
    <2> QED
      BY <1>8, <1>13, <2>1, Zenon DEF VersionRead, h
  <1>16. /\ IsReader(h) /\ h.at = Len(c.out) + 1 /\ (h.ok <=> g.ok)
         /\ h.texts = Append(g.texts, spec.number) /\ h.specs = g.specs
    BY <1>15, Zenon DEF TextRead
  <1>17. Table(c) /\ c.slinktbl # <<>>
    BY <1>8, FullTable
  <1>18. At(d, h.at) = Sign("I") /\ TextRead(h, x, spec.platform, k)
    <2>1. k = ReadEncoded(d, h, link)
      BY Zenon DEF k
    <2> QED
      BY <1>2, <1>7, <1>8, <1>11, <1>16, <1>17, <2>1, StringReads
  <1>19. /\ IsReader(k) /\ k.at = Len(x.out) + 1 /\ (k.ok <=> h.ok)
         /\ k.texts = Append(h.texts, spec.platform) /\ k.specs = h.specs
    BY <1>18, Zenon DEF TextRead
  <1>20. At(d, h.at) # Sign("@") /\ ReadTuple(d, r) = y
    BY <1>5, <1>14, <1>18, SignsOfObjects, Zenon
  <1>21. /\ IsReader(y) /\ y.at = k.at /\ y.ok = k.ok
         /\ y.specs = Append(k.specs, [name |-> k.texts[1], number |-> k.texts[2],
                                       platform |-> k.texts[3]])
    <2>1. y = AddSpec(k)
      BY DEF y
    <2> QED
      BY <1>19, <2>1, AddFields
  <1>22. k.texts[1] = spec.name /\ k.texts[2] = spec.number /\ k.texts[3] = spec.platform
    <2>1. k.texts = Append(Append(Append(<<>>, spec.name), spec.number), spec.platform)
      BY <1>10, <1>13, <1>16, <1>19, Zenon
    <2> QED
      BY <2>1, ThreeTexts
  <1>23. y.specs = Append(r.specs, spec)
    <2>1. k.specs = r.specs
      BY <1>10, <1>13, <1>16, <1>19, Zenon
    <2>2. [name |-> k.texts[1], number |-> k.texts[2], platform |-> k.texts[3]] = spec
      BY <1>22, EntryFields, Zenon
    <2> QED
      BY <1>21, <2>1, <2>2, Zenon
  <1> QED
    BY <1>10, <1>13, <1>14, <1>16, <1>19, <1>20, <1>21, <1>23, Zenon DEF TupleRead

-----------------------------------------------------------------------------
(* The list of specs: the functions that DumpSpecs and LoadSpecs build.    *)

\* What holds at 0, and at each number when it holds at the one before, holds
\* up to n.
LEMMA OverNumbers ==
    ASSUME NEW n \in Nat, NEW P, 0 \in P, \A i \in 1 .. n : i - 1 \in P => i \in P
    PROVE  \A i \in 0 .. n : i \in P
  <1> DEFINE Bad == {i \in 0 .. n : i \notin P}
  <1>1. SUFFICES ASSUME Bad # {} PROVE FALSE
    OBVIOUS
  <1>2. PICK i \in Bad : \A j \in Bad : i <= j
    <2>1. Bad \subseteq Nat
      OBVIOUS
    <2> HIDE DEF Bad
    <2> QED
      BY <1>1, <2>1, LeastNumber
  <1>3. i \in 0 .. n /\ i \notin P /\ i # 0
    BY <1>2
  <1>4. i \in 1 .. n /\ i - 1 \in 0 .. n /\ ~(i <= i - 1)
    BY <1>3
  <1>5. i - 1 \in P
    BY <1>2, <1>4
  <1> QED
    BY <1>3, <1>4, <1>5

\* The function that DumpSpecs writes with.
WroteAt(f, specs, i) ==
    IF i = 0 THEN EncArray(NewWriter, Len(specs)) ELSE EncTuple(f[i - 1], specs[i])
IsDump(f, specs) == f = [i \in 0 .. Len(specs) |-> WroteAt(f, specs, i)]

\* There is a function as DumpSpecs builds it: the writer after each spec.
LEMMA DumpExists ==
    ASSUME NEW specs, Len(specs) \in Nat
    PROVE  \E f : IsDump(f, specs)
  <1> DEFINE n == Len(specs)
             Upto(k, f) == /\ DOMAIN f = 0 .. n
                           /\ \A i \in 0 .. k : f[i] = WroteAt(f, specs, i)
             P == {k \in 0 .. n : \E f : Upto(k, f)}
  <1> HIDE DEF n
  <1>0. n \in Nat
    BY DEF n
  <1>1. 0 \in P
    <2> DEFINE f == [i \in 0 .. n |-> EncArray(NewWriter, Len(specs))]
    <2>1. 0 \in 0 .. n /\ \A i \in 0 .. 0 : i = 0
      BY <1>0
    <2>2. DOMAIN f = 0 .. n /\ f[0] = WroteAt(f, specs, 0)
      BY <2>1 DEF WroteAt
    <2> HIDE DEF f
    <2>3. \A i \in 0 .. 0 : f[i] = WroteAt(f, specs, i)
      BY <2>1, <2>2, Zenon
    <2>4. Upto(0, f)
      BY <2>2, <2>3, Zenon
    <2> HIDE DEF Upto
    <2> QED
      BY <2>1, <2>4, Zenon
  <1>2. ASSUME NEW k \in 1 .. n, k - 1 \in P PROVE k \in P
    <2>1. PICK f : Upto(k - 1, f)
      BY <1>2, Zenon
    <2> DEFINE g == [i \in 0 .. n |-> WroteAt(f, specs, i)]
    <2>2. DOMAIN g = 0 .. n /\ \A i \in 0 .. n : g[i] = WroteAt(f, specs, i)
      OBVIOUS
    <2> HIDE DEF g
    <2>3. ASSUME NEW i \in 0 .. k PROVE g[i] = WroteAt(g, specs, i)
      <3>1. i \in 0 .. n
        BY <1>0, <1>2
      <3>2. CASE i = 0
        BY <2>2, <3>1, <3>2 DEF WroteAt
      <3>3. CASE i # 0
        <4>1. i - 1 \in 0 .. k - 1 /\ i - 1 \in 0 .. n
          BY <1>0, <1>2, <3>3
        <4>2. g[i - 1] = f[i - 1]
          BY <2>1, <2>2, <4>1, Zenon
        <4> QED
          BY <2>2, <3>1, <3>3, <4>2, Zenon DEF WroteAt
      <3> QED
        BY <3>2, <3>3
    <2>4. Upto(k, g)
      BY <2>2, <2>3, Zenon
    <2> HIDE DEF Upto
    <2>5. k \in 0 .. n
      BY <1>0
    <2> QED
      BY <2>4, <2>5, Zenon
  <1> HIDE DEF P
  <1>3. n \in P
    <2>1. \A i \in 0 .. n : i \in P
      BY <1>0, <1>1, <1>2, OverNumbers
    <2> QED
      BY <1>0, <2>1
  <1>4. PICK f : DOMAIN f = 0 .. n /\ \A i \in 0 .. n : f[i] = WroteAt(f, specs, i)
    BY <1>3, Zenon DEF P
  <1>5. IsDump([i \in 0 .. n |-> f[i]], specs)
    <2> DEFINE g == [i \in 0 .. n |-> f[i]]
    <2>1. DOMAIN g = 0 .. n /\ \A i \in 0 .. n : g[i] = f[i]
      OBVIOUS
    <2>2. ASSUME NEW i \in 0 .. n PROVE f[i] = WroteAt(g, specs, i)
      <3>1. CASE i = 0
        BY <1>4, <3>1 DEF WroteAt
      <3>2. CASE i # 0
        <4>1. i - 1 \in 0 .. n
          BY <1>0, <3>2
        <4>2. g[i - 1] = f[i - 1]
          BY <2>1, <4>1
        <4> HIDE DEF g
        <4> QED
          BY <1>4, <3>2, <4>2, Zenon DEF WroteAt
      <3> QED
        BY <3>1, <3>2
    <2>3. g = [i \in 0 .. n |-> WroteAt(g, specs, i)]
      BY <2>2, Zenon
    <2> HIDE DEF g
    <2> QED
      BY <2>3 DEF IsDump, n
  <1> QED
    BY <1>5

\* What DumpSpecs writes, and how: after each spec a writer.
LEMMA DumpIs ==
    ASSUME NEW specs, Len(specs) \in Nat
    PROVE  \E f : /\ DumpSpecs(specs) = f[Len(specs)].out
                  /\ f[0] = EncArray(NewWriter, Len(specs))
                  /\ \A i \in 1 .. Len(specs) : f[i] = EncTuple(f[i - 1], specs[i])
  <1> DEFINE n == Len(specs)
             f == CHOOSE g : IsDump(g, specs)
  <1>1. IsDump(f, specs)
    BY DumpExists
  <1>2. DumpSpecs(specs) = f[n].out
    BY Zenon DEF DumpSpecs, IsDump, WroteAt
  <1> HIDE DEF f, n
  <1>3. \A i \in 0 .. Len(specs) : f[i] = WroteAt(f, specs, i)
    BY <1>1 DEF IsDump
  <1>4. 0 \in 0 .. Len(specs) /\ \A i \in 1 .. Len(specs) : i \in 0 .. Len(specs) /\ i # 0
    OBVIOUS
  <1>5. f[0] = EncArray(NewWriter, Len(specs))
    BY <1>3, <1>4, Zenon DEF WroteAt
  <1>6. \A i \in 1 .. Len(specs) : f[i] = EncTuple(f[i - 1], specs[i])
    BY <1>3, <1>4, Zenon DEF WroteAt
  <1> QED
    BY <1>2, <1>5, <1>6, Zenon DEF n

\* The function that LoadSpecs reads with.
FirstReader(s) ==
    [at |-> ReadInt(s, 4).at, ok |-> Len(s) >= 2, texts |-> <<>>, links |-> <<>>, specs |-> <<>>]
ReadAt(f, s, i) ==
    IF i = 0 THEN FirstReader(s)
    ELSE IF ~f[i - 1].ok THEN f[i - 1] ELSE ReadTuple(s, f[i - 1])
IsLoad(f, s) == f = [i \in 0 .. ReadInt(s, 4).n |-> ReadAt(f, s, i)]

\* There is a function as LoadSpecs builds it: the reader after each spec.
LEMMA LoadExists ==
    ASSUME NEW s, ReadInt(s, 4).n \in Nat
    PROVE  \E f : IsLoad(f, s)
  <1> DEFINE n == ReadInt(s, 4).n
             Upto(k, f) == /\ DOMAIN f = 0 .. n
                           /\ \A i \in 0 .. k : f[i] = ReadAt(f, s, i)
             P == {k \in 0 .. n : \E f : Upto(k, f)}
  <1> HIDE DEF n
  <1>0. n \in Nat
    BY DEF n
  <1>1. 0 \in P
    <2> DEFINE f == [i \in 0 .. n |-> FirstReader(s)]
    <2>1. 0 \in 0 .. n /\ \A i \in 0 .. 0 : i = 0
      BY <1>0
    <2>2. DOMAIN f = 0 .. n /\ f[0] = ReadAt(f, s, 0)
      BY <2>1 DEF ReadAt
    <2> HIDE DEF f
    <2>3. \A i \in 0 .. 0 : f[i] = ReadAt(f, s, i)
      BY <2>1, <2>2, Zenon
    <2>4. Upto(0, f)
      BY <2>2, <2>3, Zenon
    <2> HIDE DEF Upto
    <2> QED
      BY <2>1, <2>4, Zenon
  <1>2. ASSUME NEW k \in 1 .. n, k - 1 \in P PROVE k \in P
    <2>1. PICK f : Upto(k - 1, f)
      BY <1>2, Zenon
    <2> DEFINE g == [i \in 0 .. n |-> ReadAt(f, s, i)]
    <2>2. DOMAIN g = 0 .. n /\ \A i \in 0 .. n : g[i] = ReadAt(f, s, i)
      OBVIOUS
    <2> HIDE DEF g
    <2>3. ASSUME NEW i \in 0 .. k PROVE g[i] = ReadAt(g, s, i)
      <3>1. i \in 0 .. n
        BY <1>0, <1>2
      <3>2. CASE i = 0
        BY <2>2, <3>1, <3>2 DEF ReadAt
      <3>3. CASE i # 0
        <4>1. i - 1 \in 0 .. k - 1 /\ i - 1 \in 0 .. n
          BY <1>0, <1>2, <3>3
        <4>2. g[i - 1] = f[i - 1]
          BY <2>1, <2>2, <4>1, Zenon
        <4> QED
          BY <2>2, <3>1, <3>3, <4>2, Zenon DEF ReadAt
      <3> QED
        BY <3>2, <3>3
    <2>4. Upto(k, g)
      BY <2>2, <2>3, Zenon
    <2> HIDE DEF Upto
    <2>5. k \in 0 .. n
      BY <1>0
    <2> QED
      BY <2>4, <2>5, Zenon
  <1> HIDE DEF P
  <1>3. n \in P
    <2>1. \A i \in 0 .. n : i \in P
      BY <1>0, <1>1, <1>2, OverNumbers
    <2> QED
      BY <1>0, <2>1
  <1>4. PICK f : DOMAIN f = 0 .. n /\ \A i \in 0 .. n : f[i] = ReadAt(f, s, i)
    BY <1>3, Zenon DEF P
  <1>5. IsLoad([i \in 0 .. n |-> f[i]], s)
    <2> DEFINE g == [i \in 0 .. n |-> f[i]]
    <2>1. DOMAIN g = 0 .. n /\ \A i \in 0 .. n : g[i] = f[i]
      OBVIOUS
    <2>2. ASSUME NEW i \in 0 .. n PROVE f[i] = ReadAt(g, s, i)
      <3>1. CASE i = 0
        BY <1>4, <3>1 DEF ReadAt
      <3>2. CASE i # 0
        <4>1. i - 1 \in 0 .. n
          BY <1>0, <3>2
        <4>2. g[i - 1] = f[i - 1]
          BY <2>1, <4>1
        <4> HIDE DEF g
        <4> QED
          BY <1>4, <3>2, <4>2, Zenon DEF ReadAt
      <3> QED
        BY <3>1, <3>2
    <2>3. g = [i \in 0 .. n |-> ReadAt(g, s, i)]
      BY <2>2, Zenon
    <2> QED
      BY <2>3, Zenon DEF IsLoad, n
  <1> QED
    BY <1>5

\* What LoadSpecs reads, and how.
LEMMA LoadIs ==
    ASSUME NEW s, ReadInt(s, 4).n \in Nat
    PROVE  \E f : /\ LoadSpecs(s) = f[ReadInt(s, 4).n]
                  /\ f[0] = FirstReader(s)
                  /\ \A i \in 1 .. ReadInt(s, 4).n :
                        f[i] = IF ~f[i - 1].ok THEN f[i - 1] ELSE ReadTuple(s, f[i - 1])
  <1> DEFINE n == ReadInt(s, 4).n
             f == CHOOSE g : IsLoad(g, s)
  <1>1. IsLoad(f, s)
    BY LoadExists
  <1>2. LoadSpecs(s) = f[n]
    BY Zenon DEF LoadSpecs, IsLoad, ReadAt, FirstReader
  <1> HIDE DEF f
  <1>3. \A i \in 0 .. n : f[i] = ReadAt(f, s, i)
    BY <1>1 DEF IsLoad
  <1>4. 0 \in 0 .. n /\ \A i \in 1 .. n : i \in 0 .. n /\ i # 0
    <2> HIDE DEF n
    <2>1. n \in Nat
      BY DEF n
    <2> QED
      BY <2>1
  <1> HIDE DEF n
  <1>5. f[0] = FirstReader(s)
    BY <1>3, <1>4, Zenon DEF ReadAt
  <1>6. \A i \in 1 .. n : f[i] = IF ~f[i - 1].ok THEN f[i - 1] ELSE ReadTuple(s, f[i - 1])
    BY <1>3, <1>4, Zenon DEF ReadAt
  <1> QED
    BY <1>2, <1>5, <1>6, Zenon DEF n

-----------------------------------------------------------------------------
(* A whole stream, from its head to its last spec.                         *)

\* The writers of a dump, the stream that the last one wrote, and its parts.
Dumped(f, specs, d) ==
    /\ d = DumpSpecs(specs) /\ d = f[Len(specs)].out /\ d \in Seq(Token)
    /\ f[0] = EncArray(NewWriter, Len(specs))
    /\ \A i \in 1 .. Len(specs) : f[i] = EncTuple(f[i - 1], specs[i])
    /\ \A i \in 0 .. Len(specs) : IsWriter(f[i]) /\ Table(f[i]) /\ IsPart(f[i].out, d)

\* The writer of a new stream, which has written the version of the format.
LEMMA NewIsWriter == IsWriter(NewWriter) /\ Table(NewWriter) /\ Len(NewWriter.out) = 2
  <1> DEFINE four == Byte(4)
             eight == Byte(8)
  <1>1. four \in Token /\ eight \in Token
    BY ByteTokens
  <1>2. NewWriter = [out |-> <<four, eight>>, slinktbl |-> <<>>]
    BY DEF NewWriter
  <1> HIDE DEF four, eight, Token
  <1>3. <<four, eight>> \in Seq(Token) /\ Len(<<four, eight>>) = 2
    BY <1>1
  <1> QED
    BY <1>2, <1>3 DEF IsWriter, Table

\* A spec is written after what was written before it.
LEMMA TupleOfWriter ==
    ASSUME NEW d, NEW w, NEW spec, NEW x, IsWriter(w), Table(w), spec \in Entry,
           x = EncTuple(w, spec)
    PROVE  IsWriter(x) /\ Table(x) /\ (IsPart(x.out, d) => IsPart(w.out, d))
  <1> DEFINE a == EncArray(w, 3)
             b == EncString(a, spec.name)
             c == EncGemVersion(b, spec.number)
             z == EncString(c, spec.platform)
  <1>1. TupleWritten(d, w, spec, a, b, c, z) /\ z = x
    BY TupleWrites, Zenon
  <1>2. IsWriter(x) /\ Full(x) /\ (IsPart(x.out, d) => IsPart(w.out, d))
    BY <1>1, Zenon DEF TupleWritten
  <1> QED
    BY <1>2, FullTable

\* DumpSpecs writes one stream, which begins with what each writer wrote.
LEMMA DumpHolds ==
    ASSUME NEW specs, specs \in Seq(Entry), Len(specs) \in Countable
    PROVE  \E f, d : Dumped(f, specs, d)
  <1> DEFINE n == Len(specs)
             d == DumpSpecs(specs)
  <1>0. n \in Nat /\ n \in Countable /\ \A i \in 1 .. n : specs[i] \in Entry
    BY DEF Countable
  <1>1. PICK f : /\ d = f[n].out /\ f[0] = EncArray(NewWriter, n)
                 /\ \A i \in 1 .. n : f[i] = EncTuple(f[i - 1], specs[i])
    BY <1>0, DumpIs, Zenon
  <1> HIDE DEF n, d
  <1>2. \A i \in 0 .. n : IsWriter(f[i]) /\ Table(f[i])
    <2> DEFINE P == {i \in 0 .. n : IsWriter(f[i]) /\ Table(f[i])}
    <2>1. 0 \in P
      <3>1. IsWriter(f[0]) /\ f[0].slinktbl = NewWriter.slinktbl
        BY <1>0, <1>1, NewIsWriter, ArrayWrites
      <3>2. Table(f[0])
        BY <3>1, NewIsWriter, Zenon DEF Table
      <3>3. 0 \in 0 .. n
        BY <1>0
      <3> QED
        BY <3>1, <3>2, <3>3, Zenon
    <2>2. ASSUME NEW i \in 1 .. n, i - 1 \in P PROVE i \in P
      <3>1. IsWriter(f[i - 1]) /\ Table(f[i - 1]) /\ specs[i] \in Entry
        BY <1>0, <2>2, Zenon
      <3>2. f[i] = EncTuple(f[i - 1], specs[i])
        BY <1>1, Zenon
      <3>3. IsWriter(f[i]) /\ Table(f[i])
        BY <3>1, <3>2, TupleOfWriter, Zenon
      <3>4. i \in 0 .. n
        BY <1>0
      <3> QED
        BY <3>3, <3>4, Zenon
    <2>3. \A i \in 0 .. n : i \in P
      <3> HIDE DEF P
      <3> QED
        BY <1>0, <2>1, <2>2, OverNumbers
    <2> QED
      BY <2>3, Zenon
  <1>3. IsPart(d, d)
    <2>1. d \in Seq(Token)
      <3>1. n \in 0 .. n
        BY <1>0
      <3>2. IsWriter(f[n])
        BY <1>2, <3>1, Zenon
      <3> QED
        BY <1>1, <3>2, Zenon DEF IsWriter
    <2> QED
      BY <2>1 DEF IsPart
  <1>4. \A i \in 0 .. n : IsPart(f[i].out, d)
    <2> DEFINE P == {j \in 0 .. n : IsPart(f[n - j].out, d)}
    <2>1. 0 \in P
      <3>1. n - 0 = n /\ 0 \in 0 .. n
        BY <1>0
      <3> QED
        BY <1>1, <1>3, <3>1, Zenon
    <2>2. ASSUME NEW j \in 1 .. n, j - 1 \in P PROVE j \in P
      <3> DEFINE i == n - (j - 1)
                 w == f[i - 1]
                 x == f[i]
      <3>1. i \in 1 .. n /\ i - 1 = n - j /\ i - 1 \in 0 .. n /\ j \in 0 .. n
        BY <1>0
      <3>2. IsPart(x.out, d) /\ IsWriter(w) /\ Table(w) /\ specs[i] \in Entry
            /\ x = EncTuple(w, specs[i])
        <4>1. IsPart(x.out, d)
          BY <2>2, Zenon
        <4> HIDE DEF i
        <4> QED
          BY <1>0, <1>1, <1>2, <3>1, <4>1, Zenon
      <3> HIDE DEF w, x
      <3>3. IsPart(w.out, d)
        <4> DEFINE spec == specs[i]
        <4>1. IsWriter(w) /\ Table(w) /\ spec \in Entry /\ x = EncTuple(w, spec) /\ IsPart(x.out, d)
          BY <3>2, Zenon
        <4> HIDE DEF spec
        <4> QED
          BY <4>1, TupleOfWriter
      <3>4. IsPart(f[n - j].out, d)
        BY <3>1, <3>3, Zenon DEF w
      <3> QED
        BY <3>1, <3>4, Zenon
    <2>3. \A j \in 0 .. n : j \in P
      <3> HIDE DEF P
      <3> QED
        BY <1>0, <2>1, <2>2, OverNumbers
    <2>4. ASSUME NEW i \in 0 .. n PROVE IsPart(f[i].out, d)
      <3>1. n - i \in 0 .. n /\ n - (n - i) = i
        BY <1>0
      <3>2. IsPart(f[n - (n - i)].out, d)
        BY <2>3, <3>1, Zenon
      <3> QED
        BY <3>1, <3>2, Zenon
    <2> QED
      BY <2>4
  <1>5. d \in Seq(Token) /\ d = DumpSpecs(specs)
    BY <1>3 DEF IsPart, d
  <1>6. Dumped(f, specs, d)
    BY <1>1, <1>2, <1>4, <1>5, Zenon DEF Dumped, n
  <1> QED
    BY <1>6

\* The head of a stream: two bytes, the sign of an array, the count of the specs.
Headed(x, d, n) ==
    /\ Len(x.out) = 3 + Len(EncInt(n)) /\ Len(EncInt(n)) \in Nat \ {0}
    /\ ReadInt(d, 4).n = n /\ ReadInt(d, 4).at = Len(x.out) + 1
    /\ 3 + Len(EncInt(n)) <= Len(d) /\ Holds(d, 4, EncInt(n))

\* The head of a stream: the version of the format and the count of specs.
LEMMA HeadIs ==
    ASSUME NEW n, NEW x, NEW d, n \in Countable, x = EncArray(NewWriter, n), IsPart(x.out, d)
    PROVE  Headed(x, d, n)
  <1> DEFINE o == NewWriter.out
             m == ArrayMarks(n)
             l == Len(EncInt(n))
  <1>1. n \in Nat /\ d \in Seq(Token)
    BY DEF Countable, IsPart
  <1>2. o \in Seq(Token) /\ Len(o) = 2
    BY NewIsWriter DEF IsWriter
  <1>3. m \in Seq(Token) /\ Len(m) = 1 + l /\ l \in Nat \ {0}
    BY ArrayMarksAre
  <1> HIDE DEF o, m, l
  <1>4. x.out = o \o m
    <2>1. x.out = NewWriter.out \o ArrayMarks(n)
      BY <1>1, NewIsWriter, ArrayWrites
    <2> QED
      BY <2>1, Zenon DEF o, m
  <1>5. IsPart(o \o m, d)
    BY <1>4, Zenon
  <1>6. Holds(d, Len(o) + 1, m) /\ Len(o \o m) = Len(o) + Len(m)
    <2>1. Holds(d, Len(o) + 1, m)
      BY <1>2, <1>3, <1>5, Written
    <2>2. Len(o \o m) = Len(o) + Len(m)
      BY <1>2, <1>3, ConcatProperties, Zenon
    <2> QED
      BY <2>1, <2>2, Zenon
  <1>7. Len(x.out) = 3 + l
    <2>1. Len(x.out) = Len(o) + Len(m)
      BY <1>4, <1>6, Zenon
    <2> QED
      BY <1>2, <1>3, <2>1
  <1>8. Len(x.out) <= Len(d)
    BY DEF IsPart
  <1>9. ReadInt(d, 4) = [n |-> n, at |-> 4 + l]
    <2>1. Holds(d, 3, ArrayMarks(n))
      <3>1. Len(o) + 1 = 3
        BY <1>2
      <3> QED
        BY <1>6, <3>1, Zenon DEF m
    <2>2. ReadInt(d, 3 + 1) = [n |-> n, at |-> 3 + 1 + Len(EncInt(n))]
      <3>1. 3 \in Nat \ {0}
        OBVIOUS
      <3> QED
        BY <1>1, <2>1, <3>1, ArrayHeld, Zenon
    <2>3. 3 + 1 = 4
      OBVIOUS
    <2> QED
      BY <2>2, <2>3, Zenon DEF l
  <1>12. Holds(d, 4, EncInt(n))
    <2> DEFINE one == <<Sign("[")>>
               e == EncInt(n)
    <2>1. one \in Seq(Token) /\ e \in Seq(Token) /\ Len(one) = 1 /\ m = one \o e
      BY ArrayMarksAre, Zenon DEF ArrayMarks, m
    <2> HIDE DEF one, e
    <2>2. Holds(d, 3, m) /\ 3 \in Nat \ {0}
      <3>1. Len(o) + 1 = 3
        BY <1>2
      <3> QED
        BY <1>6, <3>1
    <2>3. Holds(d, 3 + Len(one), e)
      BY <1>1, <2>1, <2>2, HoldsBoth
    <2>4. 3 + Len(one) = 4
      BY <2>1
    <2> QED
      BY <2>3, <2>4, Zenon DEF e
  <1>10. 4 + l = Len(x.out) + 1 /\ 3 + l <= Len(d)
    BY <1>3, <1>7, <1>8
  <1>11. ReadInt(d, 4).n = n /\ ReadInt(d, 4).at = 4 + l
    BY <1>9
  <1> QED
    BY <1>3, <1>7, <1>10, <1>11, <1>12, Zenon DEF Headed, l

\* What DumpSpecs writes begins with such a head.
LEMMA DumpHead ==
    ASSUME NEW specs, NEW f, NEW d, Len(specs) \in Countable, Dumped(f, specs, d)
    PROVE  Headed(f[0], d, Len(specs)) /\ IsPart(f[0].out, d)
  <1>1. Len(specs) \in Nat
    BY DEF Countable
  <1>2. 0 \in 0 .. Len(specs)
    BY <1>1
  <1>3. f[0] = EncArray(NewWriter, Len(specs)) /\ IsPart(f[0].out, d)
    BY <1>2, Zenon DEF Dumped
  <1> QED
    BY <1>3, HeadIs

\* The reader after some of the specs.
Read(g, f, specs, i) ==
    /\ IsReader(g[i]) /\ g[i].at = Len(f[i].out) + 1 /\ g[i].ok
    /\ g[i].specs \in Seq(Entry) /\ Len(g[i].specs) = i
    /\ \A j \in 1 .. i : g[i].specs[j] = specs[j]

\* The readers of a load, from first to last.
Loaded(g, s, n) ==
    /\ LoadSpecs(s) = g[n] /\ g[0] = FirstReader(s)
    /\ \A i \in 1 .. n : g[i] = IF ~g[i - 1].ok THEN g[i - 1] ELSE ReadTuple(s, g[i - 1])

\* The reader after the head.
LEMMA FirstIs ==
    ASSUME NEW s, NEW r, NEW c, Len(s) \in Nat, c = ReadInt(s, 4), c.at \in Nat \ {0},
           r = FirstReader(s)
    PROVE  IsReader(r) /\ r.at = c.at /\ (r.ok <=> Len(s) >= 2) /\ r.specs = <<>>
  <1> DEFINE at == c.at
             long == Len(s) >= 2
  <1>1. at \in Nat \ {0} /\ long \in BOOLEAN
    OBVIOUS
  <1>2. r = [at |-> at, ok |-> long, texts |-> <<>>, links |-> <<>>, specs |-> <<>>]
    BY Zenon DEF FirstReader
  <1> HIDE DEF at, long
  <1>3. IsReader(r) /\ r.at = at /\ r.ok = long /\ r.specs = <<>>
    BY <1>1, <1>2 DEF IsReader
  <1> QED
    BY <1>3, Zenon DEF at, long

\* The first specs and one more are the first specs.
LEMMA AppendSpec ==
    ASSUME NEW n \in Nat, NEW i \in 1 .. n, NEW a \in Seq(Entry), Len(a) = i - 1,
           NEW e \in Entry, NEW specs, specs[i] = e, \A j \in 1 .. i - 1 : a[j] = specs[j],
           NEW b, b = Append(a, e)
    PROVE  b \in Seq(Entry) /\ Len(b) = i /\ \A j \in 1 .. i : b[j] = specs[j]
  <1>1. /\ b \in Seq(Entry) /\ Len(b) = Len(a) + 1
        /\ \A j \in 1 .. Len(a) : b[j] = a[j]
        /\ b[Len(a) + 1] = e
    BY AppendProperties
  <1>2. Len(b) = i /\ Len(a) + 1 = i
    BY <1>1
  <1>3. ASSUME NEW j \in 1 .. i PROVE b[j] = specs[j]
    <2>1. CASE j = i
      BY <1>1, <1>2, <2>1
    <2>2. CASE j # i
      <3>1. j \in 1 .. i - 1
        BY <2>2
      <3> QED
        BY <1>1, <3>1
    <2> QED
      BY <2>1, <2>2
  <1> QED
    BY <1>1, <1>2, <1>3

\* The reader after each spec has read as far as its writer wrote, and the
\* specs up to it.
LEMMA DumpReads ==
    ASSUME NEW specs, NEW f, NEW d, NEW g, specs \in Seq(Entry), Len(specs) \in Countable,
           Dumped(f, specs, d), Loaded(g, d, Len(specs))
    PROVE  /\ \A i \in 0 .. Len(specs) : Read(g, f, specs, i)
           /\ \A i \in 1 .. Len(specs) : /\ g[i] = ReadTuple(d, g[i - 1])
                                         /\ At(d, AfterVersion(d, g[i - 1]).at) # Sign("@")
  <1> DEFINE n == Len(specs)
             P == {i \in 0 .. n : Read(g, f, specs, i)}
  <1>0. /\ n \in Nat /\ \A i \in 1 .. n : specs[i] \in Entry
    BY DEF Countable
  <1>1. Headed(f[0], d, n)
    BY DumpHead
  <1> HIDE DEF n
  <1>2. 0 \in P
    <2> DEFINE r == g[0]
               c == ReadInt(d, 4)
    <2>1. c.at = Len(f[0].out) + 1 /\ Len(f[0].out) \in Nat /\ Len(d) >= 2 /\ Len(d) \in Nat
      <3>1. Len(f[0].out) = 3 + Len(EncInt(n)) /\ Len(EncInt(n)) \in Nat
            /\ 3 + Len(EncInt(n)) <= Len(d) /\ c.at = Len(f[0].out) + 1
        BY <1>1 DEF Headed
      <3>2. d \in Seq(Token)
        BY Zenon DEF Dumped
      <3>3. Len(d) \in Nat
        BY <3>2
      <3> HIDE DEF c
      <3> QED
        BY <3>1, <3>3
    <2>2. r = FirstReader(d)
      BY Zenon DEF Loaded
    <2> HIDE DEF r
    <2>3. c = ReadInt(d, 4) /\ c.at \in Nat \ {0}
      BY <2>1
    <2> HIDE DEF c
    <2>4. IsReader(r) /\ r.at = Len(f[0].out) + 1 /\ r.ok /\ r.specs = <<>>
      BY <2>1, <2>2, <2>3, FirstIs
    <2>5. 0 \in 0 .. n /\ r.specs \in Seq(Entry) /\ Len(r.specs) = 0 /\ 1 .. 0 = {}
      BY <1>0, <2>4
    <2> QED
      BY <2>4, <2>5, Zenon DEF Read, r
  <1>3. ASSUME NEW i \in 1 .. n, Read(g, f, specs, i - 1)
        PROVE  /\ Read(g, f, specs, i) /\ g[i] = ReadTuple(d, g[i - 1])
               /\ At(d, AfterVersion(d, g[i - 1]).at) # Sign("@")
    <2> DEFINE w == f[i - 1]
               x == f[i]
               e == specs[i]
               r == g[i - 1]
               y == g[i]
    <2>1. IsReader(r) /\ r.at = Len(w.out) + 1 /\ r.ok
      BY <1>3, Zenon DEF Read
    <2>2. y = ReadTuple(d, r)
      BY <2>1, Zenon DEF Loaded, n
    <2>3. i \in 0 .. n /\ i - 1 \in 0 .. n
      BY <1>0
    <2>4. IsWriter(w) /\ Table(w) /\ e \in Entry /\ x = EncTuple(w, e) /\ IsPart(x.out, d)
      BY <1>0, <2>3, Zenon DEF Dumped, n
    <2>5. TupleRead(d, r, e, x, y)
      <3> HIDE DEF w, x, e, r, y
      <3> QED
        BY <2>1, <2>2, <2>4, TupleReads
    <2>6. /\ IsReader(y) /\ y.at = Len(x.out) + 1 /\ y.ok /\ y.specs = Append(r.specs, e)
          /\ At(d, AfterVersion(d, r).at) # Sign("@")
      BY <2>1, <2>5, Zenon DEF TupleRead
    <2>7. /\ y.specs \in Seq(Entry) /\ Len(y.specs) = i
          /\ \A j \in 1 .. i : y.specs[j] = specs[j]
      <3> DEFINE a == r.specs
                 b == y.specs
      <3>1. /\ a \in Seq(Entry) /\ Len(a) = i - 1 /\ \A j \in 1 .. i - 1 : a[j] = specs[j]
        BY <1>3, Zenon DEF Read
      <3>2. e = specs[i] /\ e \in Entry /\ b = Append(a, e)
        BY <2>4, <2>6, Zenon
      <3> HIDE DEF a, b, e, r, y, x, w
      <3>3. b \in Seq(Entry) /\ Len(b) = i /\ \A j \in 1 .. i : b[j] = specs[j]
        BY <1>0, <3>1, <3>2, AppendSpec
      <3> QED
        BY <3>3, Zenon DEF b
    <2> QED
      BY <2>2, <2>6, <2>7, Zenon DEF Read
  <1>4. \A i \in 0 .. n : i \in P
    <2>1. ASSUME NEW i \in 1 .. n, i - 1 \in P PROVE i \in P
      <3>1. Read(g, f, specs, i - 1)
        BY <2>1, Zenon
      <3>2. i \in 0 .. n
        BY <1>0
      <3> QED
        BY <1>3, <3>1, <3>2, Zenon
    <2> HIDE DEF P
    <2> QED
      BY <1>0, <1>2, <2>1, OverNumbers
  <1>5. \A i \in 0 .. n : Read(g, f, specs, i)
    BY <1>4, Zenon
  <1>6. \A i \in 1 .. n : i - 1 \in 0 .. n
    BY <1>0
  <1> QED
    BY <1>3, <1>5, <1>6, Zenon DEF n

-----------------------------------------------------------------------------
(* A list that is written is read.                                         *)

\* A list of specs is read to the last byte of what is written for it.
LEMMA WholeLoads ==
    ASSUME NEW specs, NEW d, NEW x, specs \in Seq(Entry), Len(specs) \in Countable,
           d = DumpSpecs(specs), x = LoadSpecs(d)
    PROVE  x.ok /\ x.at = Len(d) + 1 /\ x.specs = specs
  <1> DEFINE n == Len(specs)
  <1>1. PICK f : Dumped(f, specs, d)
    BY DumpHolds, Zenon DEF Dumped
  <1>2. n \in Nat /\ Headed(f[0], d, n)
    BY <1>1, DumpHead DEF Countable
  <1>3. PICK g : Loaded(g, d, n)
    <2>1. ReadInt(d, 4).n = n
      BY <1>2, Zenon DEF Headed
    <2> HIDE DEF n
    <2>2. ReadInt(d, 4).n \in Nat
      BY <1>2, <2>1
    <2> QED
      <3>1. \E g : Loaded(g, d, ReadInt(d, 4).n)
        BY <2>2, LoadIs DEF Loaded
      <3> QED
        BY <2>1, <3>1, Zenon
  <1>4. Read(g, f, specs, n)
    <2>1. n \in 0 .. n
      BY <1>2
    <2>2. \A i \in 0 .. Len(specs) : Read(g, f, specs, i)
      BY <1>1, <1>3, DumpReads
    <2> QED
      BY <2>1, <2>2
  <1>5. x = g[n] /\ f[n].out = d
    BY <1>1, <1>3, Zenon DEF Loaded, Dumped
  <1>6. /\ x.ok /\ x.at = Len(d) + 1 /\ x.specs \in Seq(Entry) /\ Len(x.specs) = n
        /\ \A j \in 1 .. n : x.specs[j] = specs[j]
    BY <1>4, <1>5, Zenon DEF Read
  <1>7. x.specs = specs
    <2> DEFINE a == x.specs
    <2>1. a \in Seq(Entry) /\ Len(a) = Len(specs) /\ \A j \in 1 .. Len(a) : a[j] = specs[j]
      BY <1>6, Zenon
    <2> HIDE DEF a
    <2>2. a = specs
      BY <2>1, SeqEqual, Zenon
    <2> QED
      BY <2>2, Zenon DEF a
  <1> QED
    BY <1>6, <1>7

\* The list of a walk is one that DumpSpecs has lengths for.
LEMMA TuplesAreEntries ==
    ASSUME InputInv
    PROVE  Tuples \in Seq(Entry) /\ Len(Tuples) \in Countable
  <1> DEFINE n == Len(Walk)
             tuple(g) == [name |-> TextOf(g.name), number |-> TextOf(g.number),
                          platform |-> TextOf(g.platform)]
  <1>1. /\ n \in Nat /\ n \in Countable /\ DOMAIN Walk = 1 .. n
        /\ \A i \in 1 .. n : Walk[i] \in Gem
    <2>1. stored \subseteq Gem /\ IsFiniteSet(stored) /\ Cardinality(stored) \in Countable
      BY DEF InputInv
    <2> DEFINE w == WalkOrder(stored)
    <2>2. /\ Len(w) \in Nat /\ DOMAIN w = 1 .. Len(w) /\ Len(w) = Cardinality(stored)
          /\ \A i \in 1 .. Len(w) : w[i] \in stored
      BY <2>1, WalkLists
    <2> HIDE DEF w
    <2>3. Walk = w
      BY DEF Walk, w
    <2> QED
      BY <2>1, <2>2, <2>3
  <1>2. \A rank \in Names \cup Numbers \cup Platforms : TextOf(rank) \in Sized
    <2> SUFFICES ASSUME NEW rank \in Names \cup Numbers \cup Platforms
                 PROVE  TextOf(rank) \in Sized
      OBVIOUS
    <2> DEFINE l == Lengths[rank]
    <2>1. rank \in Nat
      BY SpecListAssumption
    <2>2. l \in Countable
      BY EncodedAssumption
    <2>3. l \in Nat
      BY <2>2 DEF Countable
    <2>4. TextOf(rank) = [of |-> rank, length |-> l]
      BY DEF TextOf
    <2> HIDE DEF l
    <2>5. TextOf(rank) \in Texts /\ TextOf(rank).length = l
      <3>1. rank \in {"E", "Gem::Version"} \cup Nat
        BY <2>1, Zenon
      <3> DEFINE all == {"E", "Gem::Version"} \cup Nat
      <3>2. rank \in all /\ Texts = [of : all, length : Nat]
        BY <3>1, Zenon DEF Texts
      <3> HIDE DEF all
      <3> QED
        BY <2>3, <2>4, <3>2
    <2> QED
      BY <2>2, <2>5, Zenon DEF Sized
  <1>3. \A g \in Gem : tuple(g) \in Entry
    <2> SUFFICES ASSUME NEW g \in Gem PROVE tuple(g) \in Entry
      OBVIOUS
    <2>1. g.name \in Names /\ g.number \in Numbers /\ g.platform \in Platforms
      BY DEF Gem
    <2>2. /\ TextOf(g.name) \in Sized /\ TextOf(g.number) \in Sized
          /\ TextOf(g.platform) \in Sized
      BY <1>2, <2>1
    <2> QED
      BY <2>2 DEF Entry
  <1>4. Tuples = [i \in 1 .. n |-> tuple(Walk[i])]
    BY <1>1 DEF Tuples
  <1>5. \A i \in 1 .. n : tuple(Walk[i]) \in Entry
    BY <1>1, <1>3
  <1> HIDE DEF n, tuple
  <1>6. Tuples \in Seq(Entry) /\ Len(Tuples) = n
    BY <1>1, <1>4, <1>5
  <1> QED
    BY <1>1, <1>6

\* What DumpSpecs writes for any set of gem files LoadSpecs reads, to the last
\* byte: an upload and a yank change the index that was written before them.
THEOREM IndexReloaded == Spec => []SpecsAreRead
  <1>1. InputInv => SpecsAreRead
    <2> SUFFICES ASSUME InputInv PROVE SpecsAreRead
      OBVIOUS
    <2>1. Tuples \in Seq(Entry) /\ Len(Tuples) \in Countable
      BY TuplesAreEntries
    <2>2. ASSUME NEW d, d = DumpSpecs(Tuples), NEW x, x = LoadSpecs(d)
          PROVE  x.ok /\ x.at = Len(d) + 1 /\ x.specs = Tuples
      BY <2>1, <2>2, WholeLoads
    <2> QED
      BY <2>2, Zenon DEF SpecsAreRead
  <1> QED
    BY <1>1, Inputs, PTL

-----------------------------------------------------------------------------
(* A list that is cut is refused.                                          *)

\* No byte of a count stands for a negative number.
LEMMA CountBytes ==
    ASSUME NEW n, n \in Countable, NEW e, e = EncInt(n)
    PROVE  /\ ByteAt(e, 1) \in 0 .. 4 \cup 6 .. 127
           /\ \A k \in 0 .. 4 : ByteAt(e, 1 + k) \in Nat
  <1>1. n \in Int /\ n >= 0 /\ Encodes(n)
    BY EncodesCounts
  <1>2. e \in Seq(Token)
    BY <1>1, IntTokens
  <1>3. CASE n <= 122
    <2>1. n \in -123 .. 122
      BY <1>1, <1>3
    <2>2. Len(e) = 1 /\ ByteAt(e, 1) = IF n = 0 THEN 0 ELSE IF n > 0 THEN n + 5 ELSE n + 251
      BY <2>1, WritesShort
    <2>3. ByteAt(e, 1) \in 0 .. 4 \cup 6 .. 127
      BY <1>1, <1>3, <2>2
    <2>4. ASSUME NEW k \in 0 .. 4 PROVE ByteAt(e, 1 + k) \in Nat
      <3>1. CASE k = 0
        BY <2>3, <3>1
      <3>2. CASE k # 0
        <4>1. ~(1 + k <= Len(e))
          BY <2>2, <3>2
        <4> QED
          BY <4>1 DEF ByteAt, At, Byte
      <3> QED
        BY <3>1, <3>2
    <2> QED
      BY <2>3, <2>4
  <1>4. CASE ~(n <= 122)
    <2> DEFINE size == ByteCount(n)
    <2>1. n \notin -123 .. 122
      BY <1>4
    <2>2. InRange(n) # {}
      BY <1>1, <2>1 DEF Encodes
    <2>3. size \in 1 .. 4
      BY <1>1, <1>4, <2>2, Counts
    <2>4. size = IF size < 0 THEN -size ELSE size
      BY <2>3
    <2>5. /\ Len(e) = size + 1 /\ ByteAt(e, 1) = size % 256
          /\ \A k \in 1 .. size : ByteAt(e, 1 + k) = Digit(n, k)
      BY <1>1, <2>1, <2>3, <2>4, WritesLong
    <2> HIDE DEF size
    <2>6. ByteAt(e, 1) \in 1 .. 4
      BY <2>3, <2>5
    <2>7. ASSUME NEW k \in 0 .. 4 PROVE ByteAt(e, 1 + k) \in Nat
      <3>1. CASE k = 0
        BY <2>6, <3>1
      <3>2. CASE k \in 1 .. size
        <4>1. Digit(n, k) \in Nat
          <5> DEFINE w == Weight(k)
          <5>1. w \in Int /\ w > 0
            <6>1. k = 1 \/ k = 2 \/ k = 3 \/ k = 4
              BY <2>3, <3>2
            <6> QED
              BY <6>1, Weights
          <5> HIDE DEF w
          <5>2. (n \div w) % 256 \in Nat
            BY <1>1, <5>1
          <5> QED
            BY <5>2 DEF Digit, w
        <4> QED
          BY <2>5, <3>2, <4>1
      <3>3. CASE k # 0 /\ k \notin 1 .. size
        <4>1. ~(1 + k <= Len(e))
          BY <2>3, <2>5, <3>3
        <4> QED
          BY <4>1 DEF ByteAt, At, Byte
      <3> QED
        BY <3>1, <3>2, <3>3
    <2> QED
      BY <2>6, <2>7
  <1> QED
    BY <1>3, <1>4

\* Nor does a count of which the end is missing.
LEMMA TornCount ==
    ASSUME NEW n, NEW d, NEW s, n \in Countable, IsPart(s, d), Holds(d, 4, EncInt(n)),
           Len(s) < 3 + Len(EncInt(n))
    PROVE  ReadInt(s, 4).n \in Nat
  <1> DEFINE e == EncInt(n)
             b == ByteAt(s, 4)
             c == Signed(b)
  <1>1. n \in Int /\ Encodes(n) /\ e \in Seq(Token) /\ Len(e) \in Nat \ {0}
    BY EncodesCounts, IntTokens
  <1>2. s \in Seq(Token) /\ d \in Seq(Token) /\ Len(s) \in Nat /\ Len(d) \in Nat
    BY DEF IsPart
  <1>3. /\ ByteAt(e, 1) \in 0 .. 4 \cup 6 .. 127
        /\ \A k \in 0 .. 4 : ByteAt(e, 1 + k) \in Nat
    BY CountBytes
  <1> HIDE DEF e
  <1>4. ASSUME NEW k \in 0 .. 4
        PROVE  ByteAt(s, 4 + k) = 0 \/ ByteAt(s, 4 + k) = ByteAt(e, 1 + k)
    <2>1. CASE 4 + k <= Len(s)
      <3>1. ByteAt(s, 4 + k) = ByteAt(d, 4 + k)
        <4>1. 4 + k \in Nat \ {0}
          OBVIOUS
        <4> QED
          BY <2>1, <4>1, SameToken
      <3>2. 1 + k \in 1 .. Len(e) /\ 4 + (1 + k) - 1 = 4 + k
        <4>1. Len(s) < 3 + Len(e)
          BY DEF e
        <4> QED
          BY <1>1, <1>2, <2>1, <4>1
      <3>3. At(d, 4 + k) = At(e, 1 + k)
        <4>1. Holds(d, 4, e)
          BY DEF e
        <4>2. 4 + k <= Len(d) /\ d[4 + k] = e[1 + k]
          <5>1. 4 + k <= Len(d)
            BY <1>2, <2>1 DEF IsPart
          <5>2. d[4 + (1 + k) - 1] = e[1 + k]
            BY <3>2, <4>1 DEF Holds
          <5> QED
            BY <3>2, <5>1, <5>2
        <4>3. 1 + k <= Len(e)
          BY <3>2
        <4> QED
          BY <4>2, <4>3, Zenon DEF At
      <3> QED
        <4>1. ByteAt(d, 4 + k) = ByteAt(e, 1 + k)
          BY <3>3, Zenon DEF ByteAt
        <4> QED
          BY <3>1, <4>1, Zenon
    <2>2. CASE ~(4 + k <= Len(s))
      BY <2>2 DEF ByteAt, At, Byte
    <2> QED
      BY <2>1, <2>2
  <1>5. \A k \in 0 .. 4 : ByteAt(s, 4 + k) \in Nat
    BY <1>3, <1>4
  <1>6. b \in 0 .. 4 \cup 6 .. 127
    <2>1. 0 \in 0 .. 4 /\ 4 + 0 = 4 /\ 1 + 0 = 1
      OBVIOUS
    <2>2. b = 0 \/ b = ByteAt(e, 1)
      BY <1>4, <2>1
    <2> HIDE DEF b
    <2> QED
      BY <1>3, <2>1, <2>2
  <1> HIDE DEF b
  <1>7. c = b
    BY <1>6 DEF Signed
  <1>8. ReadInt(s, 4) = IntFrom(s, 4, b)
    BY <1>7, Zenon DEF ReadInt, b
  <1> DEFINE total == SumOf(s, 4, b)[Following(b)]
  <1>9. IntFrom(s, 4, b) =
             IF b > 5 THEN [n |-> b - 5, at |-> 4 + 1]
             ELSE IF b < -5 THEN [n |-> b + 5, at |-> 4 + 1]
             ELSE [n |-> IF b < 0 THEN total - 1 ELSE total, at |-> 4 + 1 + Following(b)]
    BY FromSum, Zenon
  <1>10. CASE b \in 6 .. 127
    <2>1. IntFrom(s, 4, b) = [n |-> b - 5, at |-> 4 + 1]
      BY <1>9, <1>10
    <2>2. b - 5 \in Nat
      BY <1>10
    <2> QED
      BY <1>8, <2>1, <2>2
  <1>11. CASE b \in 0 .. 4
    <2>1. total \in Nat
      <3> DEFINE b1 == ByteAt(s, 4 + 1)
                 b2 == ByteAt(s, 4 + 2)
                 b3 == ByteAt(s, 4 + 3)
                 b4 == ByteAt(s, 4 + 4)
      <3>1. b1 \in Nat /\ b2 \in Nat /\ b3 \in Nat /\ b4 \in Nat
        <4>1. 1 \in 0 .. 4 /\ 2 \in 0 .. 4 /\ 3 \in 0 .. 4 /\ 4 \in 0 .. 4
          OBVIOUS
        <4> QED
          BY <1>5, <4>1, Zenon
      <3>2. \A k \in 1 .. 4 : ByteAt(s, 4 + k) \in Int
        BY <1>5
      <3>3. Following(b) = b /\ Filler(b) = 0 /\ b \in -4 .. 4
        BY <1>11 DEF Following, Filler
      <3>5. /\ Following(b) = 0 => total = 0
            /\ Following(b) = 1 => total = Addend(s, 4, b, 1)
            /\ Following(b) = 2 => total = Addend(s, 4, b, 1) + Addend(s, 4, b, 2) * 256
            /\ Following(b) = 3 => total = Addend(s, 4, b, 1) + Addend(s, 4, b, 2) * 256
                                             + Addend(s, 4, b, 3) * 65536
            /\ Following(b) = 4 => total = Addend(s, 4, b, 1) + Addend(s, 4, b, 2) * 256
                                             + Addend(s, 4, b, 3) * 65536
                                             + Addend(s, 4, b, 4) * 16777216
        <4>1. 4 \in Nat
          OBVIOUS
        <4> QED
          BY <3>2, <3>3, <4>1, SumsUp
      <3>6. /\ Addend(s, 4, b, 1) = b1 /\ Addend(s, 4, b, 2) = b2
            /\ Addend(s, 4, b, 3) = b3 /\ Addend(s, 4, b, 4) = b4
        <4> HIDE DEF b1, b2, b3, b4
        <4>1. b1 - 0 = b1 /\ b2 - 0 = b2 /\ b3 - 0 = b3 /\ b4 - 0 = b4
          BY <3>1
        <4> QED
          BY <3>3, <4>1, Zenon DEF Addend, b1, b2, b3, b4
      <3> HIDE DEF total, b1, b2, b3, b4
      <3>7. /\ b = 0 => total = 0
            /\ b = 1 => total = b1
            /\ b = 2 => total = b1 + b2 * 256
            /\ b = 3 => total = b1 + b2 * 256 + b3 * 65536
            /\ b = 4 => total = b1 + b2 * 256 + b3 * 65536 + b4 * 16777216
        <4>1. b = 0 => total = 0
          BY <3>3, <3>5
        <4>2. b = 1 => total = b1
          BY <3>3, <3>5, <3>6
        <4>3. b = 2 => total = b1 + b2 * 256
          BY <3>3, <3>5, <3>6
        <4>4. b = 3 => total = b1 + b2 * 256 + b3 * 65536
          BY <3>3, <3>5, <3>6
        <4>5. b = 4 => total = b1 + b2 * 256 + b3 * 65536 + b4 * 16777216
          BY <3>3, <3>5, <3>6
        <4> QED
          BY <4>1, <4>2, <4>3, <4>4, <4>5
      <3> QED
        BY <1>11, <3>1, <3>7
    <2> HIDE DEF total
    <2>2. IntFrom(s, 4, b) = [n |-> total, at |-> 4 + 1 + Following(b)]
      BY <1>9, <1>11
    <2> QED
      BY <1>8, <2>1, <2>2
  <1> QED
    BY <1>6, <1>10, <1>11

\* Behind the end of a stream there is no spec.
LEMMA NoTupleAfter ==
    ASSUME NEW s, NEW r, s \in Seq(Token), IsReader(r), r.at > Len(s)
    PROVE  ~ReadTuple(s, r).ok
  <1> DEFINE v == AfterVersion(s, r)
             y == ReadTuple(s, r)
  <1>1. IsPart(s, s) /\ Len(s) \in Nat /\ r.at \in Nat
    BY DEF IsPart, IsReader
  <1>2. Goes(s, r, v, v)
    BY <1>1, AfterGoes
  <1> HIDE DEF v, y
  <1>3. v.at \in Nat /\ v.at > Len(s)
    BY <1>1, <1>2 DEF Goes, IsReader
  <1>4. At(s, v.at) # Sign("@")
    BY <1>3, NoSignAfter
  <1>5. IsReader(y) /\ r.at < y.at /\ Refuses(s, y, y)
    BY <1>1, <1>4, TupleRefused, Zenon DEF v, y
  <1>6. ~y.ok
    BY <1>1, <1>5 DEF IsReader, Refuses
  <1> QED
    BY <1>6 DEF y

\* A stream cut before or in its count: no spec is read.
LEMMA TornInHead ==
    ASSUME NEW n, NEW x, NEW d, NEW s, NEW y, n \in Countable, Headed(x, d, n), IsPart(s, d),
           Len(s) < Len(x.out), y = LoadSpecs(s)
    PROVE  y.ok => y.specs = <<>>
  <1> DEFINE c == ReadInt(s, 4)
             m == c.n
  <1>1. s \in Seq(Token) /\ Len(s) \in Nat
    BY DEF IsPart
  <1>2. m \in Nat
    BY TornCount, Zenon DEF Headed
  <1>3. c.at \in Nat \ {0} /\ c.at > Len(s)
    <2> DEFINE e == ReadInt(d, 4)
    <2>1. c.at \in Nat /\ c.at > 4 /\ (c = e \/ c.at > Len(s))
      <3>1. 4 \in Nat \ {0}
        OBVIOUS
      <3> QED
        BY <3>1, TornInt
    <2>2. e.at = Len(x.out) + 1 /\ Len(x.out) \in Nat
      BY DEF Headed
    <2> HIDE DEF c, e
    <2>3. c.at > Len(s)
      BY <1>1, <2>1, <2>2
    <2> QED
      BY <2>1, <2>3
  <1>4. PICK g : Loaded(g, s, m)
    BY <1>2, LoadIs DEF Loaded
  <1> HIDE DEF m
  <1>5. y = g[m] /\ g[0] = FirstReader(s)
    BY <1>4, Zenon DEF Loaded
  <1>6. IsReader(g[0]) /\ g[0].at = c.at /\ g[0].specs = <<>>
    <2> HIDE DEF c
    <2>1. c = ReadInt(s, 4)
      BY DEF c
    <2> QED
      BY <1>1, <1>3, <1>5, <2>1, FirstIs
  <1>7. CASE m = 0
    BY <1>5, <1>6, <1>7
  <1>8. CASE m # 0
    <2> DEFINE P == {i \in 0 .. m : i = 0 \/ ~g[i].ok}
    <2>1. 0 \in P
      BY <1>2
    <2>2. ASSUME NEW i \in 1 .. m, i - 1 \in P PROVE i \in P
      <3>1. g[i] = IF ~g[i - 1].ok THEN g[i - 1] ELSE ReadTuple(s, g[i - 1])
        BY <1>4, Zenon DEF Loaded
      <3>2. i \in 0 .. m
        BY <1>2
      <3>3. ~g[i].ok
        <4>1. CASE ~g[i - 1].ok
          BY <3>1, <4>1
        <4>2. CASE g[i - 1].ok
          <5> DEFINE r == g[i - 1]
          <5>1. r = g[0]
            BY <2>2, <4>2
          <5>2. IsReader(r) /\ r.at > Len(s)
            BY <1>3, <1>6, <5>1
          <5>3. ~ReadTuple(s, r).ok
            <6> HIDE DEF r
            <6> QED
              BY <1>1, <5>2, NoTupleAfter
          <5> QED
            BY <3>1, <4>2, <5>3
        <4> QED
          BY <4>1, <4>2
      <3> QED
        BY <3>2, <3>3
    <2>3. \A i \in 0 .. m : i \in P
      <3> HIDE DEF P
      <3> QED
        BY <1>2, <2>1, <2>2, OverNumbers
    <2>4. m \in 0 .. m
      BY <1>2
    <2>5. ~g[m].ok
      BY <1>8, <2>3, <2>4
    <2> QED
      BY <1>5, <2>5
  <1> QED
    BY <1>7, <1>8

\* A stream cut behind its count is refused.
LEMMA TornInSpecs ==
    ASSUME NEW specs, NEW f, NEW d, NEW g, NEW s, NEW y, specs \in Seq(Entry),
           Len(specs) \in Countable, Dumped(f, specs, d), Loaded(g, d, Len(specs)),
           IsPart(s, d), Len(s) < Len(d), Len(f[0].out) <= Len(s), y = LoadSpecs(s)
    PROVE  ~y.ok
  <1> DEFINE n == Len(specs)
             x == f[0]
  <1>0. n \in Nat /\ n \in Countable
    BY DEF Countable
  <1>1. Headed(x, d, n) /\ IsPart(x.out, d)
    BY DumpHead
  <1>2. s \in Seq(Token) /\ Len(s) \in Nat /\ Len(d) \in Nat
    BY DEF IsPart
  <1>3. IsPart(x.out, s)
    <2> DEFINE o == x.out
    <2>1. IsPart(o, d) /\ Len(o) <= Len(s)
      BY <1>1
    <2> HIDE DEF o, x
    <2>2. IsPart(o, s)
      BY <1>2, <2>1 DEF IsPart
    <2> QED
      BY <2>2 DEF o
  <1>4. Headed(x, s, n)
    <2>1. x = EncArray(NewWriter, n)
      BY Zenon DEF Dumped
    <2> HIDE DEF x, n
    <2> QED
      BY <1>0, <1>3, <2>1, HeadIs
  <1>5. PICK h : Loaded(h, s, n)
    <2>1. ReadInt(s, 4).n = n
      BY <1>4, Zenon DEF Headed
    <2> HIDE DEF n
    <2>2. ReadInt(s, 4).n \in Nat
      BY <1>0, <2>1
    <2> QED
      <3>1. \E h : Loaded(h, s, ReadInt(s, 4).n)
        BY <2>2, LoadIs DEF Loaded
      <3> QED
        BY <2>1, <3>1, Zenon
  <1>6. /\ \A i \in 0 .. n : Read(g, f, specs, i)
        /\ \A i \in 1 .. n : /\ g[i] = ReadTuple(d, g[i - 1])
                             /\ At(d, AfterVersion(d, g[i - 1]).at) # Sign("@")
    BY DumpReads
  <1> DEFINE P == {i \in 0 .. n : h[i].ok => h[i] = g[i] /\ g[i].at <= Len(s) + 1}
  <1>7. 0 \in P
    <2>1. h[0] = g[0]
      <3>1. h[0] = FirstReader(s) /\ g[0] = FirstReader(d)
        BY <1>5, Zenon DEF Loaded
      <3>2. ReadInt(s, 4).at = ReadInt(d, 4).at
        BY <1>1, <1>4, Zenon DEF Headed
      <3>3. (Len(s) >= 2) = (Len(d) >= 2)
        <4> DEFINE l == Len(EncInt(n))
        <4>1. l \in Nat /\ 3 + l <= Len(s) /\ 3 + l <= Len(d)
          BY <1>1, <1>4 DEF Headed
        <4> HIDE DEF l
        <4>2. Len(s) >= 2 /\ Len(d) >= 2
          BY <1>2, <4>1
        <4> QED
          BY <4>2
      <3>4. FirstReader(s) = FirstReader(d)
        BY <3>2, <3>3, Zenon DEF FirstReader
      <3> QED
        BY <3>1, <3>4
    <2>2. 0 \in 0 .. n
      BY <1>0
    <2>3. g[0].at = Len(x.out) + 1
      BY <1>6, <2>2, Zenon DEF Read
    <2>4. Len(x.out) + 1 <= Len(s) + 1
      <3> DEFINE l == Len(x.out)
      <3>1. l \in Nat /\ l <= Len(s)
        BY <1>3 DEF IsPart
      <3> HIDE DEF l
      <3>2. l + 1 <= Len(s) + 1
        BY <1>2, <3>1
      <3> QED
        BY <3>2 DEF l
    <2> QED
      BY <2>1, <2>2, <2>3, <2>4, Zenon
  <1>8. ASSUME NEW i \in 1 .. n, i - 1 \in P PROVE i \in P
    <2>1. i \in 0 .. n /\ i - 1 \in 0 .. n
      BY <1>0
    <2> DEFINE r == g[i - 1]
               u == ReadTuple(s, r)
               v == ReadTuple(d, r)
    <2>2. SUFFICES ASSUME h[i].ok PROVE h[i] = g[i] /\ g[i].at <= Len(s) + 1
      BY <2>1
    <2>3. h[i] = IF ~h[i - 1].ok THEN h[i - 1] ELSE ReadTuple(s, h[i - 1])
      BY <1>5, Zenon DEF Loaded
    <2>4. h[i - 1].ok
      BY <2>2, <2>3
    <2>5. h[i - 1] = r
      BY <1>8, <2>4
    <2>6. h[i] = u /\ g[i] = v /\ At(d, AfterVersion(d, r).at) # Sign("@")
      BY <1>6, <2>3, <2>4, <2>5, Zenon
    <2>7. IsReader(r)
      BY <1>6, <2>1, Zenon DEF Read
    <2>8. Refuses(s, u, v)
      <3> HIDE DEF r
      <3> QED
        BY <2>6, <2>7, TupleRefused
    <2> HIDE DEF u, v
    <2> QED
      BY <2>2, <2>6, <2>8 DEF Refuses
  <1>9. \A i \in 0 .. n : i \in P
    <2> HIDE DEF P, n
    <2> QED
      BY <1>0, <1>7, <1>8, OverNumbers
  <1>10. n \in 0 .. n /\ ~(Len(d) + 1 <= Len(s) + 1)
    BY <1>0, <1>2
  <1>11. g[n].at = Len(d) + 1
    <2>1. f[n].out = d
      BY Zenon DEF Dumped
    <2> QED
      BY <1>6, <1>10, <2>1, Zenon DEF Read
  <1>12. y = h[n]
    BY <1>5, Zenon DEF Loaded
  <1> QED
    BY <1>9, <1>10, <1>11, <1>12

\* A cut stream is the beginning of the whole one.
LEMMA CutIsPart ==
    ASSUME NEW d, d \in Seq(Token), NEW cut, cut \in 0 .. Len(d) - 1, NEW s, s = SubSeq(d, 1, cut)
    PROVE  IsPart(s, d) /\ Len(s) = cut
  <1>1. cut \in Nat /\ cut <= Len(d) /\ Len(d) \in Nat
    OBVIOUS
  <1>2. s \in Seq(Token) /\ Len(s) = cut /\ \A p \in 1 .. cut : s[p] = d[p]
    BY <1>1
  <1> QED
    BY <1>1, <1>2 DEF IsPart

\* What is read without error from a cut stream was cut in its head.
LEMMA TornLoads ==
    ASSUME NEW specs, NEW d, NEW cut, NEW s, NEW y, specs \in Seq(Entry),
           Len(specs) \in Countable, d = DumpSpecs(specs), cut \in 0 .. Len(d) - 1,
           s = SubSeq(d, 1, cut), y = LoadSpecs(s), y.ok
    PROVE  cut < Len(EncArray(NewWriter, Len(specs)).out) /\ y.specs = <<>>
  <1> DEFINE n == Len(specs)
  <1>1. PICK f : Dumped(f, specs, d)
    BY DumpHolds, Zenon DEF Dumped
  <1> DEFINE x == f[0]
  <1>2. Headed(x, d, n) /\ IsPart(x.out, d) /\ x = EncArray(NewWriter, n) /\ d \in Seq(Token)
    BY <1>1, DumpHead DEF Dumped
  <1>3. IsPart(s, d) /\ Len(s) = cut /\ Len(d) \in Nat /\ cut \in Nat /\ Len(s) < Len(d)
    <2>1. IsPart(s, d) /\ Len(s) = cut
      BY <1>2, CutIsPart, Zenon
    <2>2. Len(d) \in Nat
      BY <1>2
    <2>3. cut \in Nat /\ cut < Len(d)
      BY <2>2
    <2> QED
      BY <2>1, <2>2, <2>3
  <1>4. Len(x.out) \in Nat
    BY <1>2 DEF IsPart
  <1>5. PICK g : Loaded(g, d, n)
    <2>1. ReadInt(d, 4).n = n
      BY <1>2, Zenon DEF Headed
    <2>2. n \in Nat
      BY DEF Countable
    <2> HIDE DEF n
    <2>3. ReadInt(d, 4).n \in Nat
      BY <2>1, <2>2
    <2>4. \E g : Loaded(g, d, ReadInt(d, 4).n)
      BY <2>3, LoadIs DEF Loaded
    <2> QED
      BY <2>1, <2>4, Zenon
  <1>6. Len(s) < Len(x.out)
    <2> SUFFICES ASSUME ~(Len(s) < Len(x.out)) PROVE FALSE
      OBVIOUS
    <2>1. Len(f[0].out) <= Len(s)
      BY <1>3, <1>4
    <2> QED
      BY <1>1, <1>3, <1>5, <2>1, TornInSpecs
  <1>7. y.specs = <<>>
    <2> HIDE DEF n, x
    <2>1. n \in Countable
      BY DEF n
    <2> QED
      BY <1>2, <1>3, <1>6, <2>1, TornInHead
  <1> QED
    BY <1>2, <1>3, <1>6, <1>7

\* An index file that was cut short is not taken for one of fewer specs: it is
\* refused, or, cut before or in its count, taken for an empty one.
THEOREM TornRefused == Spec => []TornIsRefused
  <1>1. InputInv => TornIsRefused
    <2> SUFFICES ASSUME InputInv PROVE TornIsRefused
      OBVIOUS
    <2>1. Tuples \in Seq(Entry) /\ Len(Tuples) \in Countable
      BY TuplesAreEntries
    <2>2. ASSUME NEW d, d = DumpSpecs(Tuples), NEW cut \in 0 .. Len(d) - 1, NEW y,
                 y = LoadSpecs(SubSeq(d, 1, cut)), y.ok
          PROVE  cut < Len(EncArray(NewWriter, Len(Tuples)).out) /\ y.specs = <<>>
      BY <2>1, <2>2, TornLoads
    <2> QED
      BY <2>2, Zenon DEF TornIsRefused
  <1> QED
    BY <1>1, Inputs, PTL
=============================================================================

------------------------------ MODULE Marshal -------------------------------
(***************************************************************************)
(* Ruby's marshal format as internal/marshal writes and reads it: spec     *)
(* indexes, gemspecs and the answer of the dependency endpoint.            *)
(*                                                                         *)
(* A stream is a sequence of tokens: a sign (one of the format's letters), *)
(* a byte of an encoded integer, or a whole text, which stands for as many *)
(* bytes as its length says.  Symbols and hard-coded texts are strings;    *)
(* a text is [of |-> what it says, length |-> its bytes].                  *)
(***************************************************************************)
EXTENDS Integers, Sequences, FiniteSets, SequencesExt

Sign(c) == <<"sign", c>>
Byte(n) == <<"byte", n>>
Text(t) == <<"text", t>>
Literal(string) == [of |-> string, length |-> Len(string)]

-----------------------------------------------------------------------------
(* Integers.                                                               *)

(* The lengths encInt chooses for what does not fit one byte: from, to,    *)
(* and the number of bytes, negative for negative integers.  There is none *)
(* from -0x100000 up to -0x10001: the code has 0x100000 for 0x10000.       *)
IntRanges == { <<123, 255, 1>>, <<256, 65535, 2>>, <<65536, 16777215, 3>>,
               <<16777216, 1073741823, 4>>, <<-256, -124, -1>>,
               <<-65536, -257, -2>>, <<-16777216, -1048577, -3>>,
               <<-1073741824, -16777217, -4>> }

InRange(i) == {r \in IntRanges : r[1] <= i /\ i <= r[2]}
ByteCount(i) == IF InRange(i) = {} THEN 0 ELSE (CHOOSE r \in InRange(i) : TRUE)[3]

(* The integers that encInt has an encoding for.                           *)
Encodes(i) == i \in -123 .. 122 \/ InRange(i) # {}

\* Mutant of OneByte: one more, which reads as the least negative one.
OneByteWide == 1 .. 123

(* The positive integers that fit one byte.                                *)
OneByte == 1 .. 122

EncInt(i) ==
    LET count == ByteCount(i)
        size == IF count < 0 THEN -count ELSE count
    IN  IF i = 0 THEN <<Byte(0)>>
        ELSE IF i \in OneByte THEN <<Byte(i + 5)>>
        ELSE IF i \in -123 .. -1 THEN <<Byte((i - 5) % 256)>>
        ELSE <<Byte(count % 256)>>
                \o [c \in 1 .. size |-> Byte((i \div 256 ^ (c - 1)) % 256)]

(* A reader at the end of the stream gets zeros: the errors of ReadByte     *)
(* are not looked at.                                                      *)
At(s, p) == IF p <= Len(s) THEN s[p] ELSE Byte(0)
ByteAt(s, p) == IF At(s, p)[1] = "byte" THEN At(s, p)[2] ELSE 0

Signed(b) == IF b < 128 THEN b ELSE b - 256

(* What readInt makes of its first byte c, at p: all of a small integer, or *)
(* how many bytes follow, negative when the rest of the integer is ones.   *)
IntFrom(s, p, c) ==
    LET size == IF c < 0 THEN -c ELSE c
        rest == IF c < 0 THEN 255 ELSE 0
        sum[k \in 0 .. size] ==
            IF k = 0 THEN 0
            ELSE sum[k - 1] + (ByteAt(s, p + k) - rest) * 256 ^ (k - 1)
    IN  IF c > 5 THEN [n |-> c - 5, at |-> p + 1]
        ELSE IF c < -5 THEN [n |-> c + 5, at |-> p + 1]
        ELSE [n |-> IF c < 0 THEN sum[size] - 1 ELSE sum[size],
              at |-> p + 1 + size]

(* readInt: the integer at p, and where the reader is then.                *)
ReadInt(s, p) == IntFrom(s, p, Signed(ByteAt(s, p)))

-----------------------------------------------------------------------------
(* Writing.  A writer is what is written and the table of symbols written. *)

NewWriter == [out |-> <<Byte(4), Byte(8)>>, slinktbl |-> <<>>]
Put(w, tokens) == [w EXCEPT !.out = @ \o tokens]

(* A symbol in full, as most of DumpGemspecGemfast writes it: by hand.     *)
Spell(w, symbol) ==
    Put(w, <<Sign(":")>> \o EncInt(Len(symbol)) \o <<Text(Literal(symbol))>>)

Places(w, symbol) == {i \in DOMAIN w.slinktbl : w.slinktbl[i] = symbol}
Link(w, sign, i) == Put(w, <<Sign(sign)>> \o EncInt(i))

\* Mutant of EncSymbol: the link is the place in the table, counted from one.
EncSymbolFromOne(w, symbol) ==
    IF Places(w, symbol) # {}
    THEN Link(w, ";", CHOOSE i \in Places(w, symbol) : TRUE)
    ELSE [Spell(w, symbol) EXCEPT !.slinktbl = Append(@, symbol)]

EncSymbol(w, symbol) ==
    IF Places(w, symbol) # {}
    THEN Link(w, ";", (CHOOSE i \in Places(w, symbol) : TRUE) - 1)
    ELSE [Spell(w, symbol) EXCEPT !.slinktbl = Append(@, symbol)]

(* encStringNoCache: the string and its one instance variable, E = true.   *)
EncString(w, t) ==
    LET head == Put(w, <<Sign("I"), Sign("\"")>> \o EncInt(t.length)
                       \o <<Text(t), Byte(6)>>)
    IN  Put(EncSymbol(head, "E"), <<Sign("T")>>)

EncArray(w, size) == Put(w, <<Sign("[")>> \o EncInt(size))
EncHash(w, size) == Put(w, <<Sign("{")>> \o EncInt(size))
EncStrings(w, texts) == FoldLeft(EncString, EncArray(w, Len(texts)), texts)

(* encGemVersion never finds the version in its table of objects, since it  *)
(* puts only the signs of arrays and user classes there.                   *)
EncGemVersion(w, t) ==
    EncString(EncArray(EncSymbol(Put(w, <<Sign("U")>>), "Gem::Version"), 1), t)

(* The array of a spec: its name, its version, its platform.               *)
EncTuple(w, spec) ==
    EncString(EncGemVersion(EncString(EncArray(w, 3), spec.name),
                            spec.number), spec.platform)

DumpSpecs(specs) ==
    LET wrote[i \in 0 .. Len(specs)] ==
            IF i = 0 THEN EncArray(NewWriter, Len(specs))
            ELSE EncTuple(wrote[i - 1], specs[i])
    IN  wrote[Len(specs)].out

(* The hash of each version, with its dependencies of every type.          *)
DumpBundlerDeps(gems) ==
    LET entry(w, key, t) == EncString(EncSymbol(w, key), t)
        dependency(w, dep) == EncStrings(w, <<dep.name, dep.constraints>>)
        hash(w, gem) ==
            LET texts == entry(entry(entry(EncHash(w, 4), "name", gem.name),
                                     "number", gem.number),
                               "platform", gem.platform)
                array == EncArray(EncSymbol(texts, "dependencies"),
                                  Len(gem.dependencies))
            IN  FoldLeft(dependency, array, gem.dependencies)
    IN  FoldLeft(hash, EncArray(NewWriter, Len(gems)), gems).out

-----------------------------------------------------------------------------
(* DumpGemspecGemfast.  A gem's metadata is the set of the fields that are  *)
(* absent (empty, or zero) and its dependencies; a field that is there      *)
(* says its own name, in a list of one where it is a list.                 *)
Required == {"@name", "@version", "@authors"}
Optional == {"@summary", "@email", "@description", "@homepage",
             "@specification_version", "@require_paths", "@licenses",
             "rubygems_version"}

(* NumInstanceVars fails without these, and DumpGemspecGemfast then panics. *)
CanDump(meta) == meta.absent \cap Required = {}

NumInstanceVars(meta) ==
    15 - Cardinality(meta.absent \cap Optional)
       - (IF meta.dependencies = <<>> THEN 1 ELSE 0)

(* The pairs in the order they are written, with what each value is.       *)
Fields == << <<"@name", "text">>, <<"@version", "version">>,
             <<"@summary", "text">>,
             <<"@required_ruby_version", "2.6.0">>,
             <<"@required_rubygems_version", "3.3.3">>,
             <<"@original_platform", "text">>, <<"@email", "list">>,
             <<"@authors", "list">>, <<"@description", "text">>,
             <<"@homepage", "text">>, <<"@licenses", "list">>,
             <<"@require_paths", "list">>,
             <<"@specification_version", "fixnum">>,
             <<"@dependencies", "dependencies">>,
             <<"rubygems_version", "text">> >>

\* Mutant of LinkedVersion: the link counts the symbols from one.
LinkedVersionFromOne(w, t) ==
    EncString(EncArray(Link(Put(w, <<Sign("U")>>), ";", 5), 1), t)

(* The class by a hard-coded link to the fifth symbol of the stream.       *)
LinkedVersion(w, t) ==
    EncString(EncArray(Link(Put(w, <<Sign("U")>>), ";", 4), 1), t)

Requirement(w, constraints) ==
    LET head == Spell(Put(w, <<Sign("U")>>), "Gem::Requirement")
        pair(v, c) == LinkedVersion(EncString(EncArray(v, 2), c.constraint),
                                    c.version)
    IN  FoldLeft(pair, EncArray(EncArray(head, 1), Len(constraints)), constraints)

(* Its first instance variable is a link to the stream's second symbol, its *)
(* last a link to object 21: so a reader takes the byte 26, EMPTY_STRING.   *)
Dependency(w, dep) ==
    LET head == Put(Spell(Put(w, <<Sign("o")>>), "Gem::Dependency"), EncInt(5))
        name == EncString(Link(head, ";", 1), dep.name)
        requirement == Requirement(Spell(name, "@requirement"), dep.constraints)
        type == Spell(Spell(requirement, "@type"), dep.type)
        prerelease == Put(Spell(type, "@prerelease"),
                          <<Sign(IF dep.prerelease THEN "T" ELSE "F")>>)
    IN  Link(Spell(prerelease, "@version_requirements"), "@", 21)

Pair(meta, w, field) ==
    LET name == field[1]
        kind == field[2]
        key == Spell(w, name)
        there == name \notin meta.absent
        text == IF there THEN Literal(name) ELSE Literal("")
    IN  CASE kind = "text" -> EncString(key, text)
          [] kind = "list" -> EncStrings(key, IF there THEN <<text>> ELSE <<>>)
          [] kind = "version" ->
                EncString(EncArray(Spell(Put(key, <<Sign("U")>>),
                                         "Gem::Version"), 1), text)
          [] kind = "fixnum" ->
                Put(key, <<Sign("i")>> \o EncInt(IF there THEN 4 ELSE 0))
          [] kind = "dependencies" ->
                FoldLeft(Dependency, EncArray(key, Len(meta.dependencies)),
                         meta.dependencies)
          [] OTHER -> Requirement(key, << [constraint |-> Literal(">="),
                                           version |-> Literal(kind)] >>)

DumpGemspecGemfast(meta) ==
    LET head == Put(Spell(Put(NewWriter, <<Sign("o")>>), "Gem::Specification"),
                    EncInt(NumInstanceVars(meta)))
    IN  FoldLeft(LAMBDA w, field : Pair(meta, w, field), head, Fields).out

-----------------------------------------------------------------------------
(* LoadSpecs.  A reader is where it is, whether it has met what it expects, *)
(* the texts of the tuple it is in, the specs read, and the table of        *)
(* objects; the table of symbols is never looked up.                       *)
Torn == [of |-> "zeros", length |-> 0]

Sees(s, r, signs) ==
    [r EXCEPT !.at = @ + 1, !.ok = @ /\ At(s, r.at) \in {Sign(c) : c \in signs}]
Skip(r, n) == [r EXCEPT !.at = @ + n]

(* As many bytes as size says: a text the stream ends in reads as zeros.   *)
TextOfSize(s, r, size) ==
    LET token == At(s, size.at)
        text == IF token[1] = "text" THEN token[2] ELSE Torn
    IN  [r EXCEPT !.at = size.at + 1, !.links = Append(@, text),
                  !.texts = Append(@, text),
                  !.ok = @ /\ (token[1] = "text" => text.length = size.n)]

ReadText(s, r) == TextOfSize(s, r, ReadInt(s, r.at))

ObjectOf(r, i) ==
    [r EXCEPT !.at = i.at, !.ok = @ /\ i.n \in DOMAIN r.links,
              !.texts = Append(@, IF i.n \in DOMAIN r.links
                                  THEN r.links[i.n] ELSE Torn)]

ReadObjectLink(s, r) == ObjectOf(r, ReadInt(s, r.at + 1))

(* The symbol E, spelled or by link, and its value.                        *)
ReadEncoding(s, r, signs) ==
    LET spelled == At(s, r.at + 1) = Sign(":") IN
    Sees(s, Skip(Sees(s, Skip(r, 1), signs), IF spelled THEN 2 ELSE 1), {"T"})

ReadRawString(s, r) == ReadText(s, Sees(s, Sees(s, r, {"I"}), {"\""}))

\* Mutant of ReadPlatform: the value after the symbol is not looked at.
ReadPlatformOpen(s, r) ==
    [ReadEncoding(s, ReadRawString(s, r), {";"}) EXCEPT !.ok = r.ok]

\* Mutant of ReadName: the symbol is taken for a link, as in a platform.
ReadNameLinked(s, r) == ReadEncoding(s, ReadRawString(s, r), {";"})

ReadName(s, r) ==
    IF At(s, r.at) = Sign("@") THEN ReadObjectLink(s, r)
    ELSE ReadEncoding(s, ReadRawString(s, r), {":", ";"})
ReadPlatform(s, r) ==
    IF At(s, r.at) = Sign("@") THEN ReadObjectLink(s, r)
    ELSE ReadEncoding(s, ReadRawString(s, r), {";"})

(* The symbol Gem::Version, spelled or by link.                            *)
ReadClass(s, r) ==
    LET spelled == At(s, r.at + 1) = Sign(":")
        name == ReadInt(s, r.at + 2)
    IN  Skip(Sees(s, Sees(s, r, {"U"}), {":", ";"}),
             IF spelled THEN name.at - r.at - 1 ELSE 1)

ReadVersion(s, r) ==
    LET string == ReadRawString(s, Skip(Sees(s, ReadClass(s, r), {"["}), 1)) IN
    IF At(s, r.at) = Sign("@") THEN ReadObjectLink(s, r)
    ELSE [ReadEncoding(s, string, {";"})
             EXCEPT !.links = @ \o <<Literal("["), Literal("U")>>]

SizedTuple(r, size) ==
    [r EXCEPT !.at = size.at, !.ok = @ /\ size.n = 3, !.texts = <<>>,
              !.links = Append(@, Literal("["))]
ReadSize(s, r) == SizedTuple(r, ReadInt(s, r.at))

AddSpec(r) ==
    [r EXCEPT !.specs = Append(@, [name |-> r.texts[1], number |-> r.texts[2],
                                   platform |-> r.texts[3]])]

ReadTuple(s, r) ==
    AddSpec(ReadPlatform(s, ReadVersion(s, ReadName(s,
        ReadSize(s, Sees(s, r, {"["}))))))

(* The specs read, or ok = FALSE where the code panics.                    *)
LoadSpecs(s) ==
    LET count == ReadInt(s, 4)
        start == [at |-> count.at, ok |-> Len(s) >= 2, texts |-> <<>>,
                  links |-> <<>>, specs |-> <<>>]
        read[i \in 0 .. count.n] ==
            IF i = 0 THEN start
            ELSE IF ~read[i - 1].ok THEN read[i - 1]
            ELSE ReadTuple(s, read[i - 1])
    IN  read[count.n]
=============================================================================

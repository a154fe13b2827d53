---------------------------- MODULE MCFunctions -----------------------------
(***************************************************************************)
(* The inputs of FunctionInputs for the model checker, and the properties  *)
(* of whole streams: what one side writes, as the other side reads it.     *)
(***************************************************************************)
EXTENDS FunctionInputs, RubyMarshal

\* The lengths at which the encoding of a length changes.
LengthsAtBounds == <<122, 123, 256>>

\* Around each bound of encInt that a length or a count may have.
Bounds == {0, 1, 122, 123, 255, 256, 65535, 65536, 16777215, 16777216,
           1073741823, -1, -123, -124, -256, -257, -65536}

-----------------------------------------------------------------------------
\* Every text of a stream says that it is UTF-8, by its pair E = true.
TextsAreUtf8(ruby) == \A pairs \in Range(ruby.encodings) : pairs = << <<"E", TRUE>> >>

\* A Ruby client reads an index as an array of names, Gem::Versions and
\* platforms: the links to symbols written with the first spec still say the
\* same in the last.
IndexIsRead ==
    \A dump \in {DumpSpecs(Tuples)} : \A ruby \in {MarshalLoad(dump)} :
        /\ ruby.ok /\ ruby.at = Len(dump) + 1 /\ TextsAreUtf8(ruby)
        /\ ruby.value = [i \in DOMAIN Walk |->
                <<Walk[i].name, <<"Gem::Version", <<Walk[i].number>>>>,
                  Walk[i].platform>>]

\* The answer of the dependency endpoint is read by a client as one hash for
\* each version, with all its dependencies.
BundlerDepsAreRead ==
    LET gem(n) == [name |-> Literal("rails"), number |-> Literal("7.0"),
                   platform |-> Literal("ruby"),
                   dependencies |-> [i \in 1 .. n |->
                        [name |-> Literal("rack"),
                         constraints |-> Literal("~> 1.2&>= 1.2.3")]]]
        counts == [i \in DOMAIN meta.dependencies |->
                        Len(meta.dependencies[i].constraints)]
        hash(n) == << <<"name", "rails">>, <<"number", "7.0">>,
                      <<"platform", "ruby">>,
                      <<"dependencies", [i \in 1 .. n |->
                            <<"rack", "~> 1.2&>= 1.2.3">>]>> >>
        gems == [i \in DOMAIN counts |-> gem(counts[i])]
    IN  \A dump \in {DumpBundlerDeps(gems)} : \A ruby \in {MarshalLoad(dump)} :
        /\ ruby.ok /\ ruby.at = Len(dump) + 1 /\ TextsAreUtf8(ruby)
        /\ ruby.value = [i \in DOMAIN counts |-> hash(counts[i])]

\* What DumpSpecs and DumpBundlerDeps write says to a client what the server
\* has: every link is to the symbol it stands for, those of the texts' encoding
\* too.
ClientsReadLists == IndexIsRead /\ BundlerDepsAreRead

-----------------------------------------------------------------------------
(* What a client reads of a gemspec: its class, and its pairs.             *)
Gemspec == MarshalLoad(DumpGemspecGemfast(meta))

Read(gemspec, name) ==
    {pair[2] : pair \in {p \in Range(gemspec.value[2]) : p[1] = name}}

\* A gemspec whose gem lacks at most one field is read with every dependency:
\* its name, its constraints, each with a Gem::Version, its type and whether it
\* is for prereleases.  The hard-coded links to the symbols @name and
\* Gem::Version (marshal.go:378-470) hold whatever the gem has.  Nothing is said
\* of what else is linked: the encoding of each text after the first is symbol 0,
\* Gem::Specification, as encSymbol numbers E and does not know of the symbols
\* spelled by hand; and @version_requirements is object 21, the text "3.3.3".
DependenciesAreRead ==
    LET fields(d) ==
            << <<"@name", d.name.of>>,
               <<"@requirement", <<"Gem::Requirement",
                    << [i \in DOMAIN d.constraints |->
                            <<"~>", <<"Gem::Version", <<"1.2">>>>>>] >> >> >>,
               <<"@type", d.type>>, <<"@prerelease", d.prerelease>> >>
        isRead(read, d) ==
            /\ read[1] = "Gem::Dependency" /\ Len(read[2]) = 5
            /\ SubSeq(read[2], 1, 4) = fields(d)
    IN  \A gemspec \in {Gemspec} :
        /\ gemspec.ok /\ gemspec.value[1] = "Gem::Specification"
        /\ Read(gemspec, "@name") = {"@name"}
        /\ Read(gemspec, "@version") = {<<"Gem::Version", <<"@version">>>>}
        /\ Cardinality(meta.absent) <= 1 /\ meta.dependencies # <<>> =>
              \E list \in Read(gemspec, "@dependencies") :
                  /\ Len(list) = Len(meta.dependencies)
                  /\ \A i \in DOMAIN list : isRead(list[i], meta.dependencies[i])

\* "Number of instance variables" (marshal.go:243): a client reads as many
\* pairs as were written, so that the gemspec has all its fields.
EveryFieldIsCounted == Gemspec.at = Len(DumpGemspecGemfast(meta)) + 1
=============================================================================

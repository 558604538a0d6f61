---------------------------- MODULE MCOperations ----------------------------
(***************************************************************************)
(* The parts that put files in place, and what configures them, side by    *)
(* side: a behaviour is one of the component named by "operation", while   *)
(* the others stay where they start.                                       *)
(***************************************************************************)
EXTENDS ImmutableArtifact, FiniteSets, Operations

VARIABLE operation

\* Two readers, two installers with two attempts each, and an eviction: a reader and an
\* installer can quarantine the same file, and an installer can find the name taken by a
\* corrupt file, quarantine it and win its next try.
CONSTANTS r1, r2, i1, i2, e1

MCReaders == {r1, r2}
MCInstallers == {i1, i2}
MCEvictors == {e1}

\* A program, its record and two host documents, of which one is not there; an editor
\* that saves or removes three times.
MCTargets == <<"program", "record", "codex", "json">>
MCBefore == [f \in {"program", "record", "codex", "json"} |->
               IF f = "json" THEN -2 ELSE 0]

\* Two builds of one release, whose text may gain or lose its imports.  Two generators, a
\* website build and a staging of one channel, over one release of two texts that is edited
\* once.
CONSTANTS g1, g2
MCPublishers == {g1, g2}

\* Two runs of the archive build for one target, and two states of the sources, between
\* which the version changes.  Beside the maintainer's commands one of the runs does nothing,
\* the builds of the bundle follow one another, and a file is there in part only while there
\* is no other event.
MCTargetOf == [a \in Archivers |-> "linux-x64"]
MCVersionOf == <<1, 2>>

\* Two setups and a build of their bundle, and beside them two events of three kinds: an edit
\* of the sources and of the version of the package, a release, the loss of a file.
CONSTANTS s1, s2
MCSetups == {s1, s2}

\* At most two arguments and two variables: an option and its value, two options of two
\* sources, an option that is repeated, an option beside a variable.
MCTokens ==
  {Bare(o) : o \in Options}
  \cup {Flag(f) : f \in Flags}
  \cup {Word(v) : v \in {"file-system", "garbage", "absolute", "loopback"}}
  \cup {Attached("source", v) :
          v \in {"file-system", "http", "garbage", Empty}}
  \cup {Attached("root", v) : v \in {"garbage", Empty}}
  \cup {Attached("url", v) :
          v \in {"https", "loopback", "garbage", Empty}}
  \cup {Attached("cache", v) : v \in {"absolute", "garbage"}}
  \cup {Attached("channel", "development"),
        Attached("bytes", "number"), Attached("bytes", "garbage")}
MCArgumentLists == UNION {[1..n -> MCTokens] : n \in 0..2}
MCUnset == [v \in Variables |-> NotSet]
MCValues == [source |-> {"file-system", "http", "garbage", Empty},
             root |-> {"garbage", Empty},
             channel |-> {"stable", "development", "garbage"},
             url |-> {"https", "loopback"}, cache |-> {"absolute", "garbage"},
             bytes |-> {"number", Empty},
             XDG_CACHE_HOME |-> {"garbage", Empty, "absolute"}]
MCOneSet == UNION {{[MCUnset EXCEPT ![v] = x] : x \in MCValues[v]} :
                     v \in Variables}
MCEnvironments ==
  {MCUnset} \cup MCOneSet
  \cup UNION {{[e EXCEPT ![v] = x] : x \in MCValues[v], e \in MCOneSet} :
                v \in {"source", "url"}}

\* Two managed servers and two obsolete ones.  A text is made of at most two pieces: lines of
\* the user (named "user"), a block as it is or was, a marker without its partner, a table
\* of a managed or an obsolete name in one of its forms.
MCBlock(n, content) == << <<"begin", n>> >> \o content \o << <<"end", n>> >>
MCKey == << <<"key", "user">> >>
MCPieces ==
  { << <<"comment", "user">> >>, << <<"table", "user">> >> \o MCKey, MCKey,
    MCBlock("ontology", << <<"table", "ontology">>, <<"entry", "ontology">> >>),
    MCBlock("ontology", << <<"table", "ontology">>, <<"formerly", "ontology">> >>),
    << <<"begin", "ontology">> >>, << <<"end", "ontology">> >>,
    << <<"table", "ontology">>, <<"entry", "ontology">> >>,
    << <<"child", "ontology">> >>, << <<"quoted", "ontology">> >>,
    MCBlock("old", << <<"table", "old">>, <<"formerly", "old">> >>) \o MCKey,
    << <<"table", "old">>, <<"comment", "user">> >> \o MCKey,
    MCBlock("older", << <<"table", "older">>, <<"formerly", "older">> >>) \o MCKey,
    << <<"child", "old">> >> \o MCKey, << <<"end", "old">> >> }
MCTexts == {<<>>} \cup MCPieces \cup {p \o q : p, q \in MCPieces}
MCJsonDocuments ==
  [shape : {"none", "no servers", "refused"}]
  \cup [shape : {"object"},
        servers : UNION {[names -> {"entry", "formerly"}] :
                           names \in SUBSET {"github", "ontology", "old", "other"}}]
MCManaged == <<"github", "ontology">>
MCLegacy == <<"old", "older">>
MCInsertedLines == {<<k, "user">> : k \in {"key", "table"}}

-----------------------------------------------------------------------------
OperationsInit ==
  /\ operation \in {"artifact", "set up", "full build", "publication", "configuration",
                    "merge", "installation", "archives", "candidate"}
  /\ Init /\ (operation # "artifact" => name = None /\ corrupt = {})
  /\ SetUp!SetUpInit /\ FullInit /\ PublicationInit /\ CandidateInit
  /\ ConfigurationInit /\ MergeInit
  /\ Installation!InstallationInit
ArtifactStep ==
  /\ operation = "artifact" /\ Next
  /\ UNCHANGED <<setUpVars, buildsVars, configurationVars, mergeVars, installationVars>>
SetUpStep ==
  /\ operation = "set up" /\ SetUp!SetUpNext
  /\ UNCHANGED <<vars, buildsVars, configurationVars, mergeVars, installationVars>>
FullBuildStep ==
  /\ operation = "full build" /\ FullNext
  /\ UNCHANGED <<vars, setUpVars, publicationVars, candidateVars, configurationVars,
                 mergeVars, installationVars>>
\* Of what a website build has written into nothing is promised: then no generator goes on.
PublicationStep ==
  /\ operation = "publication" /\ PublicationNext
  /\ websiteWrote => \A w \in MCPublishers :
                       <<writer'[w], open'[w], done'[w]>> = <<writer[w], open[w], done[w]>>
  /\ UNCHANGED <<vars, setUpVars, fullVars, candidateVars, configurationVars, mergeVars,
                 installationVars>>
CutOff == {n \in DOMAIN release : n.kind \notin Targets /\ release[n] = Partial(n.kind)}
CandidateStep ==
  /\ \/ /\ operation = "archives"
        /\ EditTree \/ BundleStep \/ RemoveArchive \/ \E a \in Archivers : ArchiverNext(a)
     \/ /\ operation = "candidate" /\ CandidateNext /\ UNCHANGED archiver["a2"]
        /\ bundling'["a1"].stage = "idle" \/ bundling'[Assembler].stage = "idle"
        /\ (tree' - 1) + removals' + Cardinality(CutOff') <= MaxEvents
  /\ UNCHANGED <<vars, setUpVars, fullVars, publicationVars, configurationVars, mergeVars,
                 installationVars>>
ConfigurationStep ==
  /\ operation = "configuration" /\ ConfigurationNext
  /\ UNCHANGED <<vars, setUpVars, buildsVars, mergeVars, installationVars>>
MergeStep ==
  /\ operation = "merge" /\ MergeNext
  /\ UNCHANGED <<vars, setUpVars, buildsVars, configurationVars, installationVars>>
InstallationStep ==
  /\ operation = "installation" /\ Installation!InstallationNext
  /\ UNCHANGED <<vars, setUpVars, buildsVars, configurationVars, mergeVars>>
OperationsNext ==
  /\ UNCHANGED operation
  /\ \/ ArtifactStep \/ SetUpStep \/ FullBuildStep \/ PublicationStep \/ CandidateStep
     \/ ConfigurationStep \/ MergeStep \/ InstallationStep

operationsVars == <<operation, vars, setUpVars, buildsVars, configurationVars, mergeVars,
                    installationVars>>
OperationsSpec == OperationsInit /\ [][OperationsNext]_operationsVars

-----------------------------------------------------------------------------
\* "A concurrent edit preserves the user's bytes", in a rollback as well: see
\* SetUpTransaction.
EditsSurvive == SetUp!EditsSurvive
=============================================================================

--------------------------- MODULE ReleaseCandidate ---------------------------
(***************************************************************************)
(* The development candidate of the MCP server: the platform archives of   *)
(* buildUniversalOntologyMcpPlatformArchive.js, which several runs build   *)
(* at once and publish under names that are never replaced, the npm        *)
(* tarball, the documents, SBOMs and checksums of                          *)
(* createUniversalOntologyMcpSpdxSbom.js, and the check of the whole       *)
(* directory by verifyUniversalOntologyMcpRelease.js.                      *)
(*                                                                         *)
(* Archives and the tarball contain the bundle and the worker that the     *)
(* build of the bundle (ApplicationBundle) publishes, for any of these     *)
(* runs, while the sources are edited.  A digest is the content it is of;  *)
(* the generated documents differ by the version they name.                *)
(***************************************************************************)
EXTENDS Integers, Sequences

CONSTANTS
  Archivers,     \* runs of the archive build
  TargetOf,      \* the target of each
  VersionOf,     \* version of package.json in each state of the sources
  MaxEvents      \* bound: edits of the sources and removals of an archive in all

Assembler == "assembler"     \* the maintainer's commands: pack, generate, verify
Documents == {"server.json", "oci metadata", "notes"}
Sboms == {"npm sbom", "release sbom"}
Targets == {TargetOf[a] : a \in Archivers}

VARIABLES
  tree,        \* state of the sources
  outputs,     \* the files that builds of the bundle publish
  bundling,    \* each build of the bundle
  removals,    \* archives removed so far
  release,     \* the files of the release directory, by name
  archiver,    \* each run of the archive build
  assembly     \* what the maintainer's command does

BundleBuild == INSTANCE ApplicationBundle
                 WITH Bundlers <- Archivers \cup {Assembler}, sources <- tree,
                      canonical <- outputs, build <- bundling

CandidateAssumption ==
  /\ Assembler \notin Archivers
  /\ TargetOf \in [Archivers -> Targets]
  /\ Targets \cap (Documents \cup Sboms \cup {"npm", "SHA256SUMS"}) = {}
  /\ BundleBuild!BundleAssumption /\ MaxEvents \in Nat
ASSUME CandidateAssumption

bundleVars == <<tree, outputs, bundling>>
candidateVars == <<bundleVars, removals, release, archiver, assembly>>

\* The names of the files of a candidate; server.json and SHA256SUMS have no version.
Named(kind, version) ==
  [kind |-> kind, version |-> IF kind \in {"server.json", "SHA256SUMS"} THEN 0 ELSE version]
Archives(version) == {Named(t, version) : t \in Targets}
Tarball(version) == Named("npm", version)
Subjects(version) ==
  {Named(k, version) : k \in Documents} \cup {Tarball(version)} \cup Archives(version)
Checksummed(version) == Subjects(version) \cup {Named(k, version) : k \in Sboms}
Sums == Named("SHA256SUMS", 0)
Expected(version) == Checksummed(version) \cup {Sums}

Written(files) == [n \in DOMAIN release \cup DOMAIN files |->
                     IF n \in DOMAIN files THEN files[n] ELSE release[n]]

NoContent == [version |-> 0, bundle |-> BundleBuild!NoBundle, worker |-> 0]
NewArchiver == [stage |-> "idle", content |-> NoContent, at |-> 0]
Resting(stage) ==
  [stage |-> stage, version |-> 0, metadata |-> BundleBuild!NoProduct, read |-> {},
   packed |-> NoContent, hashed |-> <<>>, pending |-> {}]

CandidateInit ==
  /\ BundleBuild!BundleInit /\ removals = 0
  /\ release = <<>>
  /\ archiver = [a \in Archivers |-> NewArchiver]
  /\ assembly = Resting("idle")

-----------------------------------------------------------------------------
(* The sources are edited, and a build of the bundle takes a step.         *)

Happens == (tree - 1) + removals < MaxEvents
EditTree == /\ Happens /\ BundleBuild!EditSources
            /\ UNCHANGED <<removals, release, archiver, assembly>>

BundleStep == /\ \E r \in Archivers \cup {Assembler} : BundleBuild!BuildNext(r)
              /\ UNCHANGED <<removals, release, archiver, assembly>>

\* An archive is not replaced: to have it built again it is removed, between two commands.
RemoveArchive ==
  /\ Happens /\ assembly.stage \in {"idle", "verified"}
  /\ \E n \in DOMAIN release :
       /\ n.kind \in Targets
       /\ release' = [m \in DOMAIN release \ {n} |-> release[m]]
  /\ removals' = removals + 1
  /\ assembly' = Resting("idle")
  /\ UNCHANGED <<bundleVars, archiver>>

-----------------------------------------------------------------------------
(* A run of the archive build.  It works in a directory of its own, so     *)
(* that it is seen only when it reads what others write or publishes.      *)

ArchiveName(a) == Named(TargetOf[a], archiver[a].content.version)
ArchiverGoes(a, from, to) ==
  /\ archiver[a].stage = from
  /\ archiver' = [archiver EXCEPT ![a] = to]
  /\ UNCHANGED <<removals, assembly>>
ArchiverReads(a, from, to) == ArchiverGoes(a, from, to) /\ UNCHANGED <<bundleVars, release>>

BeginArchive(a) ==
  /\ archiver[a].stage \in {"idle", "done"}
  /\ ArchiverReads(a, archiver[a].stage,
                   [NewArchiver EXCEPT !.stage = "download",
                                       !.content.version = VersionOf[tree]])

\* The runtime that is downloaded has the pinned digest, or the run stops; then the bundle
\* is built.
DownloadRuntime(a) ==
  /\ ArchiverGoes(a, "download", [archiver[a] EXCEPT !.stage = "build"])
  /\ BundleBuild!BuildBegins(a) /\ UNCHANGED release

ReadBundle(a) ==
  /\ bundling[a].stage = "built"
  /\ ArchiverGoes(a, "build", [archiver[a] EXCEPT !.stage = "worker",
                                                  !.content.bundle = outputs.bundle])
  /\ bundling' = [bundling EXCEPT ![a] = BundleBuild!NewBuild]
  /\ UNCHANGED <<tree, outputs, release>>
\* With the worker and the other static files the archive is created and compared with its
\* plan.
CreateArchive(a) ==
  ArchiverReads(a, "worker", [archiver[a] EXCEPT !.stage = "publish",
                                                 !.content.worker = outputs.worker])

\* Variant: the archive is renamed into its place.
LinkReplaces(a) == TRUE
\* A hard link is not made over a name that is there.
NameIsFree(a) == ArchiveName(a) \notin DOMAIN release
PublishArchive(a) ==
  /\ NameIsFree(a)
  /\ ArchiverGoes(a, "publish", [archiver[a] EXCEPT !.stage = "report", !.at = removals])
  /\ release' = Written([n \in {ArchiveName(a)} |-> archiver[a].content])
  /\ UNCHANGED bundleVars

NameIsTaken(a) ==
  /\ ~NameIsFree(a)
  /\ ArchiverReads(a, "publish", [archiver[a] EXCEPT !.stage = "compare"])

AcceptExisting(a) ==
  /\ ArchiveName(a) \in DOMAIN release /\ release[ArchiveName(a)] = archiver[a].content
  /\ ArchiverReads(a, "compare", [archiver[a] EXCEPT !.stage = "report", !.at = removals])

\* Its own copy is unlinked before it reports the archive.
Report(a) == ArchiverReads(a, "report", [archiver[a] EXCEPT !.stage = "done"])

\* A step fails, the archive that is there is another one, or the run is killed; what it has
\* published stays.
ArchiverFails(a) ==
  /\ archiver[a].stage \notin {"idle", "done"}
  /\ archiver' = [archiver EXCEPT ![a] = NewArchiver]
  /\ bundling' = [bundling EXCEPT ![a] = BundleBuild!NewBuild]
  /\ UNCHANGED <<tree, outputs, removals, release, assembly>>

ArchiverNext(a) ==
  \/ BeginArchive(a) \/ DownloadRuntime(a) \/ ReadBundle(a) \/ CreateArchive(a)
  \/ PublishArchive(a) \/ NameIsTaken(a) \/ AcceptExisting(a) \/ Report(a)
  \/ ArchiverFails(a)

-----------------------------------------------------------------------------
(* The maintainer's commands, one at a time; each can be run again.        *)

AssemblyGoes(from, to) ==
  /\ assembly.stage \in from
  /\ assembly' = to
  /\ UNCHANGED <<tree, outputs, removals, archiver>>
AssemblyReads(from, to) == AssemblyGoes(from, to) /\ UNCHANGED <<bundling, release>>

CommandBegins(command) == AssemblyReads({"idle", "verified"}, Resting(command))

\* npm pack names the tarball, builds the bundle and packs what is then there.
PackBegins ==
  /\ AssemblyGoes({"idle", "verified"}, [Resting("pack") EXCEPT !.version = VersionOf[tree]])
  /\ bundling' = [bundling EXCEPT
                    ![Assembler] = [BundleBuild!NewBuild EXCEPT !.stage = "begun"]]
  /\ UNCHANGED release
PackBundle ==
  /\ bundling[Assembler].stage = "built"
  /\ AssemblyGoes({"pack"}, [assembly EXCEPT !.stage = "pack worker",
                                             !.packed.bundle = outputs.bundle])
  /\ bundling' = [bundling EXCEPT ![Assembler] = BundleBuild!NewBuild]
  /\ UNCHANGED release
PackWorker ==
  /\ AssemblyGoes({"pack worker"}, Resting("idle"))
  /\ release' = Written([n \in {Tarball(assembly.version)} |->
                           [assembly.packed EXCEPT !.worker = outputs.worker,
                                                   !.version = VersionOf[tree]]])
  /\ UNCHANGED bundling

\* Both generation and verification first read the sources and the metadata of the bundle,
\* in any order, and require that they name one version.  The version is that of package.json
\* when it is read; server.json and the other sources must agree with it or the command fails.
ReadSources ==
  /\ "sources" \notin assembly.read
  /\ AssemblyReads({"generate", "verify"},
                   [assembly EXCEPT !.version = VersionOf[tree], !.read = @ \cup {"sources"}])
ReadMetadata ==
  /\ "metadata" \notin assembly.read
  /\ AssemblyReads({"generate", "verify"},
                   [assembly EXCEPT !.metadata = outputs.metadata,
                                    !.read = @ \cup {"metadata"}])
OneVersion == /\ assembly.read = {"sources", "metadata"}
              /\ assembly.metadata.bundle.version = assembly.version

-----------------------------------------------------------------------------
(* The generation of the documents, SBOMs and checksums.                   *)

NamesOf(kinds) == {Named(k, assembly.version) : k \in kinds}
InspectStaging ==
  /\ OneVersion /\ DOMAIN release \subseteq Expected(assembly.version)
  /\ AssemblyReads({"generate"}, [assembly EXCEPT !.stage = "documents",
                                                  !.pending = NamesOf(Documents)])

Writes(n, stage, content) ==
  /\ AssemblyGoes({stage}, [assembly EXCEPT !.pending = @ \ {n}])
  /\ release' = Written([m \in {n} |-> content])
  /\ UNCHANGED bundling

\* One after the other, server.json first and the notes last; the SBOMs at once.
NextDocument(n) == /\ n.kind # "server.json" => Named("server.json", 0) \notin assembly.pending
                   /\ n.kind = "notes" => assembly.pending = {n}
WriteDocument(n) == NextDocument(n) /\ Writes(n, "documents", assembly.version)

Hashed(names) == [n \in names |-> release[n]]
HashSubjects ==
  /\ Subjects(assembly.version) \subseteq DOMAIN release /\ assembly.pending = {}
  /\ AssemblyReads({"documents"},
                   [assembly EXCEPT !.stage = "sboms",
                                    !.hashed = Hashed(Subjects(assembly.version)),
                                    !.pending = NamesOf(Sboms)])

\* An SBOM describes the bundle and some of the files that were hashed.
Described(names) == [bundle |-> assembly.metadata.bundle,
                     files |-> [n \in names |-> assembly.hashed[n]]]
ExpectedSbom(kind) ==
  Described(IF kind = "npm sbom" THEN {Tarball(assembly.version)}
            ELSE Subjects(assembly.version))
WriteSbom(n) == Writes(n, "sboms", ExpectedSbom(n.kind))

HashAll ==
  /\ Checksummed(assembly.version) \subseteq DOMAIN release /\ assembly.pending = {}
  /\ AssemblyReads({"sboms"},
                   [assembly EXCEPT !.stage = "sums",
                                    !.hashed = Hashed(Checksummed(assembly.version))])
WriteSums ==
  /\ AssemblyGoes({"sums"}, Resting("idle"))
  /\ release' = Written([n \in {Sums} |-> assembly.hashed])
  /\ UNCHANGED bundling

-----------------------------------------------------------------------------
(* The verification.  The files of a list are taken in any order.          *)

RequireManifest ==
  /\ OneVersion /\ DOMAIN release = Expected(assembly.version)
  /\ AssemblyReads({"verify"}, [assembly EXCEPT !.stage = "registry"])

RequireRegistry ==
  /\ AssemblyReads({"registry"}, [assembly EXCEPT !.stage = "parse"])
  /\ \A k \in {"server.json", "oci metadata"} :
       release[Named(k, assembly.version)] = assembly.version

ParseSums ==
  /\ AssemblyReads({"parse"}, [assembly EXCEPT !.stage = "checksums",
                                               !.hashed = release[Sums],
                                               !.pending = Checksummed(assembly.version)])
  /\ DOMAIN release[Sums] = Checksummed(assembly.version)
CheckSum(n) ==
  /\ AssemblyReads({"checksums"}, [assembly EXCEPT !.pending = @ \ {n}])
  /\ release[n] = assembly.hashed[n]

\* Variant: the bundle alone is compared.
BundleOnly(content) == content.bundle = assembly.metadata.bundle
\* The bundle and the runtime assets of an archive are those of the metadata.
IsTheProduct(content) == /\ content.bundle = assembly.metadata.bundle
                         /\ content.worker = assembly.metadata.worker
CheckTarball ==
  /\ AssemblyReads({"checksums"}, [assembly EXCEPT !.stage = "archives",
                                                   !.pending = Archives(assembly.version)])
  /\ assembly.pending = {}
  /\ release[Named("notes", assembly.version)] = assembly.version
  /\ LET packed == release[Tarball(assembly.version)] IN
       packed.version = assembly.version /\ IsTheProduct(packed)
CheckArchive(n) ==
  /\ AssemblyReads({"archives"}, [assembly EXCEPT !.pending = @ \ {n}])
  /\ IsTheProduct(release[n])

CheckSboms ==
  /\ AssemblyReads({"archives"}, [assembly EXCEPT !.stage = "verified"])
  /\ assembly.pending = {}
  /\ \A k \in Sboms : release[Named(k, assembly.version)] = ExpectedSbom(k)

\* The files are written in place: one of which the writing is cut off is there in part.
BeingWritten ==
  CASE assembly.stage = "documents" -> {n \in assembly.pending : NextDocument(n)}
    [] assembly.stage = "sboms" -> assembly.pending
    [] assembly.stage = "sums" -> {Sums}
    [] assembly.stage = "pack worker" -> {Tarball(assembly.version)}
    [] OTHER -> {}
Partial(kind) ==
  CASE kind = "npm" -> NoContent
    [] kind \in Sboms -> [bundle |-> BundleBuild!NoBundle, files |-> <<>>]
    [] kind = "SHA256SUMS" -> <<>>
    [] OTHER -> 0

\* A command stops at a check or an error, or it is killed; what it has written stays.
AssemblyFails ==
  /\ assembly.stage \notin {"idle", "verified"}
  /\ assembly' = Resting("idle")
  /\ \E names \in SUBSET BeingWritten :
       release' = Written([n \in names |-> Partial(n.kind)])
  /\ bundling' = [bundling EXCEPT ![Assembler] = BundleBuild!NewBuild]
  /\ UNCHANGED <<tree, outputs, removals, archiver>>

AssemblyNext ==
  \/ PackBegins \/ PackBundle \/ PackWorker \/ CommandBegins("generate")
  \/ CommandBegins("verify") \/ ReadSources \/ ReadMetadata \/ InspectStaging
  \/ HashSubjects \/ HashAll \/ WriteSums
  \/ RequireManifest \/ RequireRegistry \/ ParseSums
  \/ (\E n \in assembly.pending :
        WriteDocument(n) \/ WriteSbom(n) \/ CheckSum(n) \/ CheckArchive(n))
  \/ CheckTarball \/ CheckSboms \/ AssemblyFails

CandidateNext ==
  \/ EditTree \/ BundleStep \/ RemoveArchive
  \/ (\E a \in Archivers : ArchiverNext(a)) \/ AssemblyNext

CandidateSpec == CandidateInit /\ [][CandidateNext]_candidateVars

-----------------------------------------------------------------------------
\* What a run is going to report or has reported is in the directory until it is removed,
\* whichever of several runs for its target has published it.
ReportedIsThere ==
  \A a \in Archivers :
    archiver[a].stage \in {"report", "done"} /\ archiver[a].at = removals
      => /\ ArchiveName(a) \in DOMAIN release
         /\ release[ArchiveName(a)] = archiver[a].content

\* A candidate that is verified is one product: its tarball and all its archives contain the
\* bundle and the worker that one build has described, under the version they are named by,
\* and its SBOMs and checksums describe the files that are there, although archives are
\* built and the bundle is published while it is verified.
VerifiedIsOneProduct ==
  assembly.stage = "verified" =>
    /\ assembly.metadata.bundle.version = assembly.version
    /\ Expected(assembly.version) \subseteq DOMAIN release
    /\ \A n \in Archives(assembly.version) \cup {Tarball(assembly.version)} :
         /\ release[n].bundle = assembly.metadata.bundle
         /\ release[n].worker = assembly.metadata.worker
    /\ \A n \in Checksummed(assembly.version) : release[Sums][n] = release[n]
    /\ \A n \in Subjects(assembly.version) :
         release[Named("release sbom", assembly.version)].files[n] = release[n]

CandidateIsTrue == ReportedIsThere /\ VerifiedIsOneProduct
=============================================================================

---------------------- MODULE QueryArtifactPublication ----------------------
(***************************************************************************)
(* The directory query/v1 that serves the query artifacts, and those who   *)
(* write it: the generator (generateOntologyQueryIndexes.js), the website  *)
(* build (ontologyAssets.js and the plugins of vitePlugins.js), both with  *)
(* the artifacts of createOntologyQueryArtifacts.js, and the staging of a  *)
(* channel (stageOntologyQueryArtifactChannel.js), while the sources are   *)
(* edited and any of them fails or crashes between two writes.             *)
(*                                                                         *)
(* Every object but catalog.json and the channels has its content in its   *)
(* name: the index and the dataset of a release are named by the text they *)
(* come from, a catalog by the texts it lists.  External: the bundler that *)
(* writes the files of the website build, several at a time, in an order   *)
(* of its own.                                                             *)
(***************************************************************************)
EXTENDS Naturals

CONSTANTS
  Publishers,        \* runs of the generator
  WebsiteBuilds,     \* runs of the website build
  Stagings,          \* runs of the channel staging
  Channels,          \* "stable", "development"
  DatedReleases,     \* eligible releases
  ReleaseTexts,      \* texts a release may have
  MaxReleaseEdits    \* edits of the sources

ASSUME PublicationAssumption == ReleaseTexts # {}

Catalogs == [DatedReleases -> ReleaseTexts]
FirstCatalog == [r \in DatedReleases |-> CHOOSE t \in ReleaseTexts : TRUE]

Object(kind, c, releases) ==
  [kind |-> kind, of |-> [r \in releases |-> c[r]]]
Indexes(c) == {Object("index", c, {r}) : r \in DatedReleases}
Datasets(c) == {Object("dataset", c, {r}) : r \in DatedReleases}
Catalog(c) == Object("catalog", c, DatedReleases)

(* artifactContentsByRelativePath, in the order of its keys, without       *)
(* catalog.json, which comes last.                                         *)
Artifacts(c) == Indexes(c) \union Datasets(c) \union {Catalog(c)}
Rank == [index |-> 1, dataset |-> 2, catalog |-> 3]

Objects == UNION {Artifacts(c) : c \in Catalogs}
CatalogJson == [kind |-> "catalog.json", of |-> <<>>]

VARIABLES
  releaseText,     \* the source of every release
  releaseEdits,
  objectFile,      \* "absent", "partial" or "whole"
  catalogJson,     \* the same of catalog.json, and the catalog it holds
  channelFile,     \* the catalog every channel refers to: none or one
  websiteWrote,    \* a website build has written here
  writer,          \* where every run is
  captured,        \* the catalog of the texts it captured
  open,            \* files it has opened for writing
  done             \* objects it has written or validated

publicationVars == <<releaseText, releaseEdits, objectFile, catalogJson,
                     channelFile, websiteWrote, writer, captured, open, done>>

Writers == Publishers \union WebsiteBuilds \union Stagings

PublicationInit ==
  /\ releaseText = FirstCatalog
  /\ releaseEdits = 0
  /\ objectFile = [o \in Objects |-> "absent"]
  /\ catalogJson = [state |-> "absent", of |-> FirstCatalog]
  /\ channelFile = [n \in Channels |-> {}]
  /\ websiteWrote = FALSE
  /\ writer = [w \in Writers |-> "waiting"]
  /\ captured = [w \in Writers |-> FirstCatalog]
  /\ open = [w \in Writers |-> {}]
  /\ done = [w \in Writers |-> {}]

To(w, s) == writer' = [writer EXCEPT ![w] = s]
Done(w, o) == done' = [done EXCEPT ![w] = @ \union {o}]
Sources == UNCHANGED <<releaseText, releaseEdits>>

\* What a run knew ends with it.
Ends(w) == /\ To(w, "ended")
           /\ captured' = [captured EXCEPT ![w] = FirstCatalog]
           /\ open' = [open EXCEPT ![w] = {}] /\ done' = [done EXCEPT ![w] = {}]

---------------------------------------------------------------------------
(* createOntologyQueryArtifacts captures the bytes before it parses them.  *)
CaptureSources(w) ==
  /\ w \in Publishers \union WebsiteBuilds
  /\ writer[w] = "waiting"
  /\ captured' = [captured EXCEPT ![w] = releaseText]
  /\ To(w, IF w \in Publishers THEN "writing" ELSE "rendered")
  /\ UNCHANGED <<objectFile, catalogJson, channelFile, websiteWrote, open, done>>
  /\ Sources

InTurn(g, o) ==
  /\ o \in Artifacts(captured[g]) \ done[g]
  /\ \A p \in Artifacts(captured[g]) : Rank[p.kind] < Rank[o.kind] => p \in done[g]

(* Mutant: a file that exists is taken for granted. *)
AcceptExistingArtifact(g, o) ==
  /\ writer[g] = "writing" /\ open[g] = {}
  /\ InTurn(g, o)
  /\ IF objectFile[o] = "absent"
       THEN /\ objectFile' = [objectFile EXCEPT ![o] = "partial"]
            /\ open' = [open EXCEPT ![g] = {o}]
            /\ UNCHANGED <<writer, done>>
       ELSE Done(g, o) /\ UNCHANGED <<objectFile, open, writer>>
  /\ UNCHANGED <<catalogJson, channelFile, websiteWrote, captured>>
  /\ Sources

(* writeImmutableArtifact: the file is created exclusively and then        *)
(* filled; one that exists must have the same bytes.                       *)
WriteImmutableArtifact(g, o) ==
  /\ writer[g] = "writing" /\ open[g] = {}
  /\ InTurn(g, o)
  /\ CASE objectFile[o] = "absent" ->
            /\ objectFile' = [objectFile EXCEPT ![o] = "partial"]
            /\ open' = [open EXCEPT ![g] = {o}]
            /\ UNCHANGED <<writer, captured, done>>
       [] objectFile[o] = "partial" -> Ends(g) /\ UNCHANGED objectFile
       [] objectFile[o] = "whole" ->
            Done(g, o) /\ UNCHANGED <<objectFile, open, writer, captured>>
  /\ UNCHANGED <<catalogJson, channelFile, websiteWrote>>
  /\ Sources

FillImmutableArtifact(g, o) ==
  /\ writer[g] = "writing" /\ o \in open[g]
  /\ objectFile' = [objectFile EXCEPT ![o] = "whole"]
  /\ open' = [open EXCEPT ![g] = {}]
  /\ Done(g, o)
  /\ UNCHANGED <<catalogJson, channelFile, websiteWrote, writer, captured>>
  /\ Sources

(* Both callers look at the sources again: the generator before it         *)
(* publishes the catalog, the website build before it emits anything.      *)
AssertSourcesUnchanged(w) ==
  /\ \/ writer[w] = "writing" /\ Artifacts(captured[w]) = done[w]
     \/ writer[w] = "rendered"
  /\ IF releaseText # captured[w] THEN Ends(w)
     ELSE /\ To(w, IF writer[w] = "writing" THEN "publishing" ELSE "emitted")
          /\ UNCHANGED <<captured, open, done>>
  /\ UNCHANGED <<objectFile, catalogJson, channelFile, websiteWrote>>
  /\ Sources

(* A temporary file is renamed. *)
PublishCatalogAtomically(g) ==
  /\ writer[g] = "publishing"
  /\ catalogJson' = [state |-> "whole", of |-> captured[g]]
  /\ Ends(g)
  /\ UNCHANGED <<objectFile, channelFile, websiteWrote>>
  /\ Sources

---------------------------------------------------------------------------
(* The website build writes its bundle in place, without the files that    *)
(* were unchanged when it looked.                                          *)
PruneUnchangedBundle(w) ==
  /\ writer[w] = "emitted"
  /\ done' = [done EXCEPT ![w] =
       {o \in Artifacts(captured[w]) : objectFile[o] = "whole"}
         \union {CatalogJson : j \in {catalogJson}
                               \intersect {[state |-> "whole", of |-> captured[w]]}}]
  /\ To(w, "bundled")
  /\ UNCHANGED <<objectFile, catalogJson, channelFile, websiteWrote, captured,
                 open>>
  /\ Sources

Bundle(w) == Artifacts(captured[w]) \union {CatalogJson}

(* Opening a file empties it. *)
OpenOutput(w, o) ==
  /\ writer[w] = "bundled"
  /\ o \in Bundle(w) \ (done[w] \union open[w])
  /\ open' = [open EXCEPT ![w] = @ \union {o}]
  /\ websiteWrote' = TRUE
  /\ IF o = CatalogJson
       THEN /\ catalogJson' = [catalogJson EXCEPT !.state = "partial"]
            /\ UNCHANGED objectFile
       ELSE /\ objectFile' = [objectFile EXCEPT ![o] = "partial"]
            /\ UNCHANGED catalogJson
  /\ UNCHANGED <<channelFile, writer, captured, done>>
  /\ Sources

FillOutput(w, o) ==
  /\ writer[w] = "bundled" /\ o \in open[w]
  /\ open' = [open EXCEPT ![w] = @ \ {o}]
  /\ Done(w, o)
  /\ IF o = CatalogJson
       THEN /\ catalogJson' = [state |-> "whole", of |-> captured[w]]
            /\ UNCHANGED objectFile
       ELSE /\ objectFile' = [objectFile EXCEPT ![o] = "whole"]
            /\ UNCHANGED catalogJson
  /\ UNCHANGED <<channelFile, websiteWrote, writer, captured>>
  /\ Sources

---------------------------------------------------------------------------
(* stageOntologyQueryArtifactChannel. *)

ReadCatalogJson(s) ==
  /\ s \in Stagings /\ writer[s] = "waiting"
  /\ IF catalogJson.state = "whole"
       THEN /\ captured' = [captured EXCEPT ![s] = catalogJson.of]
            /\ To(s, "validating") /\ UNCHANGED <<open, done>>
       ELSE Ends(s)
  /\ UNCHANGED <<objectFile, catalogJson, channelFile, websiteWrote>>
  /\ Sources

(* The catalog under its digest, then the index of every release: the      *)
(* datasets are not looked at.                                             *)
Validated(c) == {Catalog(c)} \union Indexes(c)

RequireComplete(s, o) ==
  /\ writer[s] = "validating"
  /\ o \in Validated(captured[s]) \ done[s]
  /\ o.kind = "index" => Catalog(captured[s]) \in done[s]
  /\ IF objectFile[o] = "whole" THEN Done(s, o) /\ UNCHANGED <<writer, captured, open>>
                                ELSE Ends(s)
  /\ UNCHANGED <<objectFile, catalogJson, channelFile, websiteWrote>>
  /\ Sources

(* A temporary file is written, synchronised and renamed. *)
StageChannel(s, n) ==
  /\ writer[s] = "validating"
  /\ Validated(captured[s]) = done[s]
  /\ channelFile' = [channelFile EXCEPT ![n] = {captured[s]}]
  /\ Ends(s)
  /\ UNCHANGED <<objectFile, catalogJson, websiteWrote>>
  /\ Sources

---------------------------------------------------------------------------
(* A run fails or crashes: what it had opened stays as it is. *)
RunStops(w) ==
  /\ writer[w] \notin {"waiting", "ended"}
  /\ Ends(w)
  /\ UNCHANGED <<objectFile, catalogJson, channelFile, websiteWrote>>
  /\ Sources

EditRelease(r) ==
  /\ releaseEdits < MaxReleaseEdits
  /\ releaseEdits' = releaseEdits + 1
  /\ \E t \in ReleaseTexts \ {releaseText[r]} :
       releaseText' = [releaseText EXCEPT ![r] = t]
  /\ UNCHANGED <<objectFile, catalogJson, channelFile, websiteWrote, writer,
                 captured, open, done>>

PublicationNext ==
  \/ \E w \in Writers : \/ CaptureSources(w) \/ AssertSourcesUnchanged(w)
                        \/ RunStops(w)
  \/ \E g \in Publishers :
       \/ PublishCatalogAtomically(g)
       \/ \E o \in Objects : \/ WriteImmutableArtifact(g, o)
                             \/ FillImmutableArtifact(g, o)
  \/ \E w \in WebsiteBuilds :
       \/ PruneUnchangedBundle(w)
       \/ \E o \in Objects \union {CatalogJson} : OpenOutput(w, o) \/ FillOutput(w, o)
  \/ \E s \in Stagings :
       \/ ReadCatalogJson(s)
       \/ \E o \in Objects : RequireComplete(s, o)
       \/ \E n \in Channels : StageChannel(s, n)
  \/ \E r \in DatedReleases : EditRelease(r)

---------------------------------------------------------------------------
(* Properties. *)

Complete(c) == \A o \in Artifacts(c) : objectFile[o] = "whole"

(* Generators and stagings alone, whatever their interleaving and wherever *)
(* they fail, crash or find a half-written file of another, never publish  *)
(* a catalog or a channel of which any index, dataset or catalog file is   *)
(* missing or incomplete, then or later: "A failure therefore leaves the   *)
(* preceding catalog complete and queryable."                              *)
PublishedIsComplete ==
  ~websiteWrote =>
    /\ catalogJson.state = "whole" => Complete(catalogJson.of)
    /\ \A n \in Channels : \A c \in channelFile[n] : Complete(c)

(* scripts/stageOntologyQueryArtifactChannel.js:208: "A channel is a       *)
(* promise that the selected immutable catalog is complete": at the moment *)
(* it is staged, everything its catalog lists is there.                    *)
ChannelIsComplete ==
  [][\A n \in Channels : \A c \in channelFile'[n] \ channelFile[n] :
       Complete(c)]_publicationVars
===========================================================================

-------------------------- MODULE WebsitePublication --------------------------
(***************************************************************************)
(* The publication of the website: the qualification of the active         *)
(* ontologies (run_policy_validation and write_report of ontology_policy), *)
(* the gate that admits only what a receipt covers (publication.py), and   *)
(* upload_to_s3.py, which passes the gate, seals a copy of dist and passes *)
(* it twice more, while sources, policy and registry are edited, modules   *)
(* are activated and the website is built.                                 *)
(*                                                                         *)
(* A text, a policy and an authority snapshot are numbers that an edit     *)
(* increases: nothing returns to what it was.  The dependency lock is      *)
(* compared as the authorities are, and left out.  The verification of the *)
(* full builds is FullOntologyBuild; here it passes or refuses.            *)
(***************************************************************************)
EXTENDS FiniteSetsExt, Naturals, Sequences

CONSTANTS
  ArtifactsOf,                 \* dated artifacts of each module: numbers from 1 on
  Recorded,                    \* modules whose activation records a digest to begin with
  Violating,                   \* pairs of a text and a policy it violates
  Qualifications,              \* runs of the validation
  MaxWorldChanges                   \* bound: edits, activations and builds in all

ModuleCount == Len(ArtifactsOf)
Modules == 1 .. ModuleCount
Artifacts == UNION {ArtifactsOf[m] : m \in Modules}
Page == Cardinality(Artifacts) + 1   \* what else dist holds
Files == Artifacts \cup {Page}

\* There are modules, and each has an artifact that can be the active one.
ASSUME WebsiteAssumption ==
  /\ ModuleCount \in Nat \ {0} /\ MaxWorldChanges \in Nat
  /\ \A m \in Modules : ArtifactsOf[m] # {}
  /\ IsFiniteSet(Artifacts) /\ Artifacts = 1 .. Cardinality(Artifacts)

VARIABLES
  policy, authorities,
  source,        \* text of each dated artifact
  activation,    \* artifact that is active of each module, and its digest
  worldChanges,  \* how many of these changes
  dist,          \* text of each file
  building,      \* files that a website build has still to write
  receipt,       \* the receipt of the last qualification
  run,           \* each qualification
  publication,   \* the publication
  candidate,     \* the sealed copy
  whileLive      \* history: dist when its first listing was complete

worldVars == <<policy, authorities, source, activation, worldChanges>>
distVars == <<dist, building>>
uploadVars == <<publication, candidate, whileLive>>
websiteVars == <<worldVars, distVars, receipt, run, uploadVars>>

Unrecorded == 0    \* no digest in the registry
Elsewhere == 0     \* locator of a source in the index or in a commit
Texts == 1 .. MaxWorldChanges + 1
NoTexts == [m \in Modules |-> 0]
NoModules == [m \in Modules |-> [locator |-> Elsewhere, digest |-> 0]]
\* What a receipt says, and what was validated.
NoReceipt == [purpose |-> "none", policy |-> 0, authorities |-> 0, modules |-> NoModules,
              validated |-> NoTexts]
NewRun == [stage |-> "idle", replaced |-> 0, locator |-> Elsewhere, registry |-> NoModules,
           position |-> 1, result |-> NoReceipt]
NoFiles == [f \in Files |-> 0]
NewPublication == [stage |-> "idle", gate |-> 1, policy |-> 0, active |-> NoTexts,
                   authorities |-> 0, receipt |-> NoReceipt, position |-> 1,
                   before |-> NoFiles, again |-> NoFiles]

WebsiteInit ==
  /\ policy = 1 /\ authorities = 1 /\ worldChanges = 0
  /\ source = [f \in Artifacts |-> 1]
  /\ activation = [m \in Modules |->
                     [locator |-> Min(ArtifactsOf[m]),
                      digest |-> IF m \in Recorded THEN 1 ELSE Unrecorded]]
  /\ dist = [f \in Files |-> 1] /\ building = {}
  /\ receipt = NoReceipt /\ run = [q \in Qualifications |-> NewRun]
  /\ publication = NewPublication /\ candidate = NoFiles /\ whileLive = NoFiles

-----------------------------------------------------------------------------
(* What changes meanwhile. *)

Changes == worldChanges < MaxWorldChanges /\ worldChanges' = worldChanges + 1
Elsewise == UNCHANGED <<receipt, run, uploadVars>>

EditSource(f) ==
  /\ Changes /\ source' = [source EXCEPT ![f] = @ + 1]
  /\ UNCHANGED <<policy, authorities, activation, distVars>> /\ Elsewise
EditPolicy ==
  /\ Changes /\ policy' = policy + 1
  /\ UNCHANGED <<authorities, source, activation, distVars>> /\ Elsewise
EditAuthorities ==
  /\ Changes /\ authorities' = authorities + 1
  /\ UNCHANGED <<policy, source, activation, distVars>> /\ Elsewise
ActivateArtifact(m, f) ==
  /\ Changes /\ f # activation[m].locator
  /\ activation' = [activation EXCEPT ![m] = [locator |-> f, digest |-> source[f]]]
  /\ UNCHANGED <<policy, authorities, source, distVars>> /\ Elsewise

\* A build copies the sources and writes the pages; it may never finish.
BuildWebsite ==
  /\ Changes /\ building = {} /\ building' = Files
  /\ UNCHANGED <<policy, authorities, source, activation, dist>> /\ Elsewise
WriteOutput(f) ==
  /\ f \in building /\ building' = building \ {f}
  /\ dist' = [dist EXCEPT ![f] = IF f = Page THEN @ + 1 ELSE source[f]]
  /\ UNCHANGED worldVars /\ Elsewise

-----------------------------------------------------------------------------
(* A qualification reads the policy, the registry and every module and     *)
(* validates all of it together.  The authority snapshots are read for the *)
(* validation and identified when it is over: only the latter is kept.     *)

RunStep(q, from, to) ==
  /\ run[q].stage = from /\ run' = [run EXCEPT ![q] = to]
  /\ UNCHANGED <<worldVars, distVars, uploadVars>>
Ended == [NewRun EXCEPT !.stage = "ended"]

Begun(purpose) == [NoReceipt EXCEPT !.purpose = purpose, !.policy = policy]

\* The purpose; and unless it is that of the active set, the module that is replaced, by an
\* artifact of the working tree or by a text of the index.
BeginRun(q) ==
  /\ \E purpose \in {"latest-active", "candidate", "draft"} :
     \E replaced \in IF purpose = "latest-active" THEN {0} ELSE Modules :
     \E locator \in {Elsewhere} \cup IF replaced = 0 THEN {} ELSE ArtifactsOf[replaced] :
       RunStep(q, "idle", [NewRun EXCEPT !.stage = "registry", !.replaced = replaced,
                             !.locator = locator, !.result = Begun(purpose)])
  /\ UNCHANGED receipt

LoadOwnedModules(q) ==
  /\ RunStep(q, "registry", [run[q] EXCEPT !.stage = "sources", !.registry = activation])
  /\ UNCHANGED receipt

\* An active artifact must have the digest that was recorded when it was activated; the
\* digest in the receipt is that of the bytes that are validated.
MatchesActivation(r, m, text) == r.registry[m].digest \in {Unrecorded, text}
ReadSource(q) ==
  LET r == run[q]  m == r.position
      locator == IF r.replaced = m THEN r.locator ELSE r.registry[m].locator
  IN
  /\ \E text \in IF locator = Elsewhere THEN Texts ELSE {source[locator]} :
       RunStep(q, "sources",
               IF r.replaced # m /\ ~MatchesActivation(r, m, text) THEN Ended
               ELSE [r EXCEPT !.stage = IF m = ModuleCount THEN "validate" ELSE "sources",
                              !.position = IF m = ModuleCount THEN 1 ELSE m + 1,
                              !.result.modules[m] = [locator |-> locator, digest |-> text],
                              !.result.validated[m] = text])
  /\ UNCHANGED receipt

\* Only a purpose that qualifies and a result without violations give a receipt.
Conforms(texts, p) == \A m \in Modules : <<texts[m], p>> \notin Violating
Qualifies(result) == /\ result.purpose \in {"latest-active", "candidate"}
                     /\ Conforms(result.validated, result.policy)
Validate(q) ==
  /\ RunStep(q, "validate",
             IF Qualifies(run[q].result)
             THEN [run[q] EXCEPT !.stage = "open", !.result.authorities = authorities]
             ELSE Ended)
  /\ UNCHANGED receipt

\* The receipt is written in place.
OpenReceipt(q) == /\ RunStep(q, "open", [run[q] EXCEPT !.stage = "write"])
                  /\ receipt' = NoReceipt
WriteReceipt(q) == /\ RunStep(q, "write", Ended)
                   /\ receipt' = run[q].result

\* An error, or the end of the process.
RunFails(q) == /\ run[q].stage \notin {"idle", "ended"}
               /\ RunStep(q, run[q].stage, Ended) /\ UNCHANGED receipt

RunNext(q) ==
  \/ BeginRun(q) \/ LoadOwnedModules(q) \/ ReadSource(q) \/ Validate(q)
  \/ OpenReceipt(q) \/ WriteReceipt(q) \/ RunFails(q)

-----------------------------------------------------------------------------
(* The gate, which is passed three times: on dist, on the copy when it is  *)
(* sealed, and on the copy before the upload.                              *)

Moves(from, to) ==
  /\ publication.stage = from /\ publication' = to
  /\ UNCHANGED <<worldVars, distVars, receipt, run>>
Goes(from, to) == Moves(from, to) /\ UNCHANGED <<candidate, whileLive>>
At(stage) == [publication EXCEPT !.stage = stage]

LoadPolicy ==
  Goes("policy", [At("registry") EXCEPT !.policy = policy])
LoadRegistry ==
  Goes("registry", [At("authorities") EXCEPT
                      !.active = [m \in Modules |-> activation[m].locator]])
ReadAuthorities ==
  Goes("authorities", [At("receipt") EXCEPT !.authorities = authorities])

ReceiptAdmits(r) ==
  /\ r.purpose \in {"latest-active", "candidate"}
  /\ r.policy = publication.policy
  /\ r.authorities = publication.authorities
ReadReceipt ==
  /\ ReceiptAdmits(receipt)
  /\ Goes("receipt", [At("source") EXCEPT !.receipt = receipt, !.position = 1])

\* The module must have been qualified as the artifact that is active, with the text that
\* is there; then its copy is compared with the text, which is read again.
CoveredOnce(m) == publication.receipt.modules[m].locator = publication.active[m]
Covered(m) ==
  publication.receipt.modules[m] =
    [locator |-> publication.active[m],
     digest |-> source[publication.active[m]]]
CheckSource == /\ publication.stage = "source" /\ Covered(publication.position)
               /\ Goes("source", At("derived"))

Examined == IF publication.gate = 1 THEN dist ELSE candidate
CheckDerived ==
  LET m == publication.position  f == publication.active[m] IN
  /\ publication.stage = "derived" /\ Examined[f] = source[f]
  /\ Goes("derived", IF m = ModuleCount THEN At("full builds")
                     ELSE [At("source") EXCEPT !.position = m + 1])

VerifyFullBuilds ==
  \/ /\ publication.gate = 1
     /\ Goes("full builds", [At("list") EXCEPT !.position = 1])
  \/ publication.gate = 2 /\ Goes("full builds", [At("policy") EXCEPT !.gate = 3])
  \/ publication.gate = 3 /\ Goes("full builds", At("upload"))

-----------------------------------------------------------------------------
(* The copy: every file is listed, copied and listed again.                *)

Next(stage, after) ==
  IF publication.position = Page THEN [At(after) EXCEPT !.position = 1]
  ELSE [At(stage) EXCEPT !.position = @ + 1]

BeginPublication == Goes("idle", At("policy"))
ListFile ==
  LET f == publication.position IN
  /\ Moves("list", [Next("list", "copy") EXCEPT !.before[f] = dist[f]])
  /\ whileLive' = IF f = Page THEN dist ELSE whileLive
  /\ UNCHANGED candidate
CopyFile ==
  LET f == publication.position IN
  /\ Moves("copy", Next("copy", "list again"))
  /\ candidate' = [candidate EXCEPT ![f] = dist[f]] /\ UNCHANGED whileLive
ListAgain ==
  LET f == publication.position IN
  Goes("list again", [Next("list again", "seal") EXCEPT !.again[f] = dist[f]])
AnyCopy == TRUE
Unmoved == publication.before = publication.again /\ publication.before = candidate
Seal ==
  /\ Unmoved
  /\ Goes("seal", [At("policy") EXCEPT !.gate = 2, !.before = NoFiles, !.again = NoFiles])

\* The listing of the copy is compared once more, but nobody else writes it.
Upload == Goes("upload", At("uploaded"))

\* Any check refuses, or the process ends.
Refuse == /\ publication.stage \notin {"idle", "uploaded", "refused"}
          /\ Moves(publication.stage, [NewPublication EXCEPT !.stage = "refused"])
          /\ candidate' = NoFiles /\ whileLive' = NoFiles

PublicationStep ==
  \/ BeginPublication \/ LoadPolicy \/ LoadRegistry \/ ReadAuthorities \/ ReadReceipt
  \/ CheckSource \/ CheckDerived \/ VerifyFullBuilds
  \/ ListFile \/ CopyFile \/ ListAgain \/ Seal \/ Upload \/ Refuse

WebsiteNext ==
  \/ EditPolicy \/ EditAuthorities \/ BuildWebsite
  \/ \E f \in Artifacts : EditSource(f)
  \/ \E m \in Modules : \E f \in ArtifactsOf[m] : ActivateArtifact(m, f)
  \/ \E f \in Files : WriteOutput(f)
  \/ \E q \in Qualifications : RunNext(q)
  \/ PublicationStep

WebsiteSpec == WebsiteInit /\ [][WebsiteNext]_websiteVars

-----------------------------------------------------------------------------
Uploaded == publication.stage = "uploaded"

\* What is uploaded of the active modules has been validated, all modules together by one
\* run, under the policy that the last gate has read, and conforms to it.
UploadedIsQualified ==
  Uploaded =>
    LET texts == [m \in Modules |-> candidate[publication.active[m]]] IN
    /\ texts = publication.receipt.validated
    /\ Conforms(texts, publication.policy)

\* What is uploaded was, all of it, in dist at one time, though it is read file by file
\* while a build writes there.
UploadedWasLive == Uploaded => candidate = whileLive

PublicationHonest == UploadedIsQualified /\ UploadedWasLive
=============================================================================

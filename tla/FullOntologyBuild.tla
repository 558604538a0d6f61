------------------------- MODULE FullOntologyBuild -------------------------
(***************************************************************************)
(* The builds of the full ontologies and their receipt                     *)
(* (scripts/build/fullOntologyAssets.js), as createFullVersions.js and the *)
(* website build run them: several builds of one output directory, which   *)
(* fail or crash anywhere, while developers edit the sources, remove the   *)
(* files of a crashed build, and verify the outputs for publication.       *)
(*                                                                         *)
(* A source is the text of one release with the documents it imports; its  *)
(* full set (four files) is a function of that text, so a set of files is  *)
(* named by the text it was made from.                                     *)
(***************************************************************************)
EXTENDS Naturals

CONSTANTS
  Builds,      \* builds, each of which runs once
  Releases,    \* dated releases from the cutoff on
  Importing,   \* texts that declare imports
  ImportFree,  \* texts that do not
  FirstText,   \* the text every release starts with
  MaxTextEdits \* edits of the sources

NoText == 0     \* no such source, or no such file
Texts == Importing \union ImportFree \union {NoText}
NoReceipt == [inputs |-> <<>>, outputs |-> <<>>]
NoBuild == "none"

ASSUME FullBuildAssumption ==
  /\ Importing \union ImportFree \subseteq Nat \ {NoText}
  /\ FirstText \in Texts
  /\ NoBuild \notin Builds

VARIABLES
  source,        \* text of every release in the source tree
  textEdits,
  distFiles,     \* full set of every release in the output directory
  buildReceipt,  \* full-ontology-build.json
  pendingFile,   \* its .pending file exists
  fullLock,      \* the build whose lock file exists
  buildStage,    \* where every build is
  previous,      \* the receipt a build found
  inputs,        \* the texts a build discovered
  consumed,      \* the texts it rendered, or NoText
  assets,        \* the sets it will write
  verifying      \* the verification before a publication

fullVars == <<source, textEdits, distFiles, buildReceipt, pendingFile,
              fullLock, buildStage, previous, inputs, consumed, assets, verifying>>

FullInit ==
  /\ source = [r \in Releases |-> FirstText]
  /\ textEdits = 0
  /\ distFiles = [r \in Releases |-> NoText]
  /\ buildReceipt = NoReceipt /\ pendingFile = FALSE
  /\ fullLock = NoBuild
  /\ buildStage = [b \in Builds |-> "waiting"]
  /\ previous = [b \in Builds |-> NoReceipt]
  /\ inputs = [b \in Builds |-> [r \in Releases |-> NoText]]
  /\ consumed = [b \in Builds |-> [r \in Releases |-> NoText]]
  /\ assets = [b \in Builds |-> [r \in Releases |-> NoText]]
  /\ verifying = [at |-> "idle", receipt |-> NoReceipt]

Rendering(text) == IF text \in Importing THEN text ELSE NoText

MoveTo(b, s) == buildStage' = [buildStage EXCEPT ![b] = s]

(* The finally of the callers: the lock goes, whatever the result.         *)
EndFullOntologyBuild(b) == fullLock' = NoBuild /\ MoveTo(b, "ended")

Outside == UNCHANGED <<source, textEdits, verifying>>

---------------------------------------------------------------------------
(* beginFullOntologyBuild: the lock file is created exclusively, then the  *)
(* old receipt is read and removed.                                        *)
Begin(b) ==
  /\ buildStage[b] = "waiting"
  /\ IF fullLock # NoBuild
       THEN MoveTo(b, "ended") /\ UNCHANGED <<fullLock, previous, buildReceipt>>
       ELSE /\ fullLock' = b
            /\ previous' = [previous EXCEPT ![b] = buildReceipt]
            /\ buildReceipt' = NoReceipt
            /\ MoveTo(b, "begun")
  /\ UNCHANGED <<distFiles, pendingFile, inputs, consumed, assets>>
  /\ Outside

Discover(b) ==
  /\ buildStage[b] = "begun"
  /\ inputs' = [inputs EXCEPT ![b] = source]
  /\ MoveTo(b, "rendering")
  /\ UNCHANGED <<distFiles, buildReceipt, pendingFile, fullLock, previous,
                 consumed, assets>>
  /\ Outside

(* The loader reads the source again; what it consumed is observed.        *)
LoadCollapsed(b, r) ==
  /\ buildStage[b] = "rendering"
  /\ inputs[b][r] \in Importing /\ consumed[b][r] = NoText
  /\ source[r] # NoText
  /\ consumed' = [consumed EXCEPT ![b][r] = source[r]]
  /\ UNCHANGED <<distFiles, buildReceipt, pendingFile, fullLock, buildStage,
                 previous, inputs, assets>>
  /\ Outside

(* Mutant: the observed text is not compared with the captured one.        *)
CaptureUnobserved(b, r) ==
  /\ buildStage[b] = "rendering"
  /\ consumed[b][r] # NoText /\ assets[b][r] = NoText
  /\ IF source[r] = inputs[b][r]
       THEN /\ assets' = [assets EXCEPT ![b][r] = consumed[b][r]]
            /\ UNCHANGED <<buildStage, fullLock>>
       ELSE EndFullOntologyBuild(b) /\ UNCHANGED assets
  /\ UNCHANGED <<distFiles, buildReceipt, pendingFile, previous, inputs,
                 consumed>>
  /\ Outside

(* captureInput reads it once more: all three must agree. *)
CaptureInput(b, r) ==
  /\ buildStage[b] = "rendering"
  /\ consumed[b][r] # NoText /\ assets[b][r] = NoText
  /\ IF source[r] = inputs[b][r] /\ consumed[b][r] = inputs[b][r]
       THEN /\ assets' = [assets EXCEPT ![b][r] = consumed[b][r]]
            /\ UNCHANGED <<buildStage, fullLock>>
       ELSE EndFullOntologyBuild(b) /\ UNCHANGED assets
  /\ UNCHANGED <<distFiles, buildReceipt, pendingFile, previous, inputs,
                 consumed>>
  /\ Outside

Required(b) == {r \in Releases : inputs[b][r] \in Importing}

(* assertBuildInputs, before the files are written and again before they   *)
(* are sealed.                                                             *)
AssertBuildInputs(b) ==
  /\ \/ buildStage[b] = "rendering" /\ \A r \in Required(b) : assets[b][r] # NoText
     \/ buildStage[b] = "cleaned"
  /\ IF source = inputs[b]
       THEN /\ MoveTo(b, IF buildStage[b] = "rendering" THEN "writing" ELSE "checking")
            /\ UNCHANGED fullLock
       ELSE EndFullOntologyBuild(b)
  /\ UNCHANGED <<distFiles, buildReceipt, pendingFile, previous, inputs,
                 consumed, assets>>
  /\ Outside

(* The caller writes the files one by one. *)
WriteAsset(b, r) ==
  /\ buildStage[b] = "writing"
  /\ r \in Required(b) /\ distFiles[r] # assets[b][r]
  /\ distFiles' = [distFiles EXCEPT ![r] = assets[b][r]]
  /\ UNCHANGED <<buildReceipt, pendingFile, fullLock, buildStage, previous, inputs,
                 consumed, assets>>
  /\ Outside

WritesCompleted(b) ==
  /\ buildStage[b] = "writing"
  /\ \A r \in Required(b) : distFiles[r] = assets[b][r]
  /\ MoveTo(b, "cleaning")
  /\ UNCHANGED <<distFiles, buildReceipt, pendingFile, fullLock, previous,
                 inputs, consumed, assets>>
  /\ Outside

---------------------------------------------------------------------------
(* completeFullOntologyBuild. *)

(* Files of releases without imports, and the files the previous receipt   *)
(* lists that this build has not made.                                     *)
StalePaths(b) ==
  {r \in Releases : inputs[b][r] \in ImportFree}
    \union {r \in Releases \ Required(b) :
              /\ previous[b] # NoReceipt
              /\ previous[b].outputs[r] # NoText}

Owned(b, r) ==
  previous[b] # NoReceipt /\ previous[b].outputs[r] = distFiles[r]

RemoveStale(b, r) ==
  /\ buildStage[b] = "cleaning"
  /\ r \in StalePaths(b) /\ distFiles[r] # NoText
  /\ IF Owned(b, r)
       THEN /\ distFiles' = [distFiles EXCEPT ![r] = NoText]
            /\ UNCHANGED <<buildStage, fullLock>>
       ELSE EndFullOntologyBuild(b) /\ UNCHANGED distFiles
  /\ UNCHANGED <<buildReceipt, pendingFile, previous, inputs, consumed, assets>>
  /\ Outside

Cleaned(b) ==
  /\ buildStage[b] = "cleaning"
  /\ \A r \in StalePaths(b) : distFiles[r] = NoText
  /\ MoveTo(b, "cleaned")
  /\ UNCHANGED <<distFiles, buildReceipt, pendingFile, fullLock, previous,
                 inputs, consumed, assets>>
  /\ Outside

OutputsMatch(texts, outputs) ==
  \A r \in Releases : texts[r] # NoText => distFiles[r] = outputs[r]

AssertOutputs(b) ==
  /\ buildStage[b] = "checking"
  /\ IF OutputsMatch(inputs[b], assets[b])
       THEN MoveTo(b, "sealing") /\ UNCHANGED fullLock
       ELSE EndFullOntologyBuild(b)
  /\ UNCHANGED <<distFiles, buildReceipt, pendingFile, previous, inputs,
                 consumed, assets>>
  /\ Outside

(* The .pending file is created exclusively: one that a crash has left     *)
(* fails every later build.                                                *)
WritePending(b) ==
  /\ buildStage[b] = "sealing"
  /\ IF pendingFile
       THEN EndFullOntologyBuild(b) /\ UNCHANGED pendingFile
       ELSE pendingFile' = TRUE /\ MoveTo(b, "renaming") /\ UNCHANGED fullLock
  /\ UNCHANGED <<distFiles, buildReceipt, previous, inputs, consumed, assets>>
  /\ Outside

Seal(b) ==
  /\ buildStage[b] = "renaming"
  /\ pendingFile' = FALSE
  /\ buildReceipt' = [inputs |-> inputs[b], outputs |-> assets[b]]
  /\ EndFullOntologyBuild(b)
  /\ UNCHANGED <<distFiles, previous, inputs, consumed, assets>>
  /\ Outside

Running(b) == buildStage[b] \notin {"waiting", "ended", "crashed"}

(* A parser, a renderer or the file system throws; the pending file is     *)
(* removed by its owner.                                                   *)
BuildFails(b) ==
  /\ Running(b)
  /\ EndFullOntologyBuild(b)
  /\ pendingFile' = (pendingFile /\ buildStage[b] # "renaming")
  /\ UNCHANGED <<distFiles, buildReceipt, previous, inputs, consumed, assets>>
  /\ Outside

BuildCrashes(b) ==
  /\ Running(b)
  /\ MoveTo(b, "crashed")
  /\ UNCHANGED <<distFiles, buildReceipt, pendingFile, fullLock, previous,
                 inputs, consumed, assets>>
  /\ Outside

---------------------------------------------------------------------------
(* verifyFullOntologyBuild: the sources against the receipt it has read,   *)
(* then the files.                                                         *)
Verify ==
  /\ \/ /\ verifying.at = "idle"
        /\ verifying' = IF buildReceipt = NoReceipt
                          THEN [at |-> "refused", receipt |-> NoReceipt]
                          ELSE [at |-> "read", receipt |-> buildReceipt]
     \/ /\ verifying.at = "read"
        /\ verifying' = [verifying EXCEPT !.at =
             IF source = verifying.receipt.inputs THEN "current" ELSE "refused"]
     \/ /\ verifying.at = "current"
        /\ verifying' = [verifying EXCEPT !.at =
             IF OutputsMatch(verifying.receipt.inputs, verifying.receipt.outputs)
               THEN "admitted" ELSE "refused"]
     \/ /\ verifying.at \in {"admitted", "refused"}
        /\ verifying' = [at |-> "idle", receipt |-> NoReceipt]
  /\ UNCHANGED <<source, textEdits, distFiles, buildReceipt, pendingFile,
                 fullLock, buildStage, previous, inputs, consumed, assets>>

EditSource(r) ==
  /\ textEdits < MaxTextEdits
  /\ textEdits' = textEdits + 1
  /\ \E t \in Texts \ {source[r]} : source' = [source EXCEPT ![r] = t]
  /\ UNCHANGED <<distFiles, buildReceipt, pendingFile, fullLock, buildStage,
                 previous, inputs, consumed, assets, verifying>>

(* Nothing in the code removes what a crashed build has left: a developer  *)
(* does, by hand.                                                          *)
RemoveLeftovers ==
  /\ \E b \in Builds : buildStage[b] = "crashed" /\ fullLock = b
  /\ fullLock' = NoBuild
  /\ pendingFile' \in {FALSE, pendingFile}
  /\ UNCHANGED <<source, textEdits, distFiles, buildReceipt, buildStage, previous,
                 inputs, consumed, assets, verifying>>

FullNext ==
  \/ \E b \in Builds :
       \/ Begin(b) \/ Discover(b) \/ AssertBuildInputs(b)
       \/ WritesCompleted(b) \/ Cleaned(b) \/ AssertOutputs(b)
       \/ WritePending(b) \/ Seal(b) \/ BuildFails(b) \/ BuildCrashes(b)
       \/ \E r \in Releases : \/ LoadCollapsed(b, r) \/ CaptureInput(b, r)
                              \/ WriteAsset(b, r) \/ RemoveStale(b, r)
  \/ Verify
  \/ \E r \in Releases : EditSource(r)
  \/ RemoveLeftovers

---------------------------------------------------------------------------
(* Properties. *)

(* A receipt, the one on the disk or the one a verification has admitted,  *)
(* binds every full set to the text it was made from, even when the source *)
(* was edited and restored while it was rendered; and as long as a receipt *)
(* is on the disk the files it lists are there, and no file is there of a  *)
(* release it calls import-free, whatever failed or crashed before.        *)
ReceiptIsTrue ==
  LET Bound(receipt) ==
        \A r \in Releases : receipt.outputs[r] = Rendering(receipt.inputs[r])
  IN  /\ buildReceipt # NoReceipt =>
           /\ Bound(buildReceipt)
           /\ OutputsMatch(buildReceipt.inputs, buildReceipt.outputs)
      /\ verifying.at = "admitted" => Bound(verifying.receipt)

(* docs/plans/2026-10-25-full-ontologies-to-uml-xmi-implementation-plan.md *)
(* 325 promises of a publication failure "previous ownership evidence      *)
(* retained; retry rebuilds": when no build is under way, a set of files   *)
(* that was owned by the receipt an ended build had found is still listed  *)
(* by a receipt.                                                           *)
OwnershipRetained ==
  (\A b \in Builds : buildStage[b] \in {"waiting", "ended"}) =>
    \A b \in Builds, r \in Releases :
      Owned(b, r) /\ distFiles[r] # NoText =>
        buildReceipt # NoReceipt /\ buildReceipt.outputs[r] = distFiles[r]
===========================================================================

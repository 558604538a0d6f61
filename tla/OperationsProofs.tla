-------------------------- MODULE OperationsProofs --------------------------
(***************************************************************************)
(* Theorems about the parts that MCOperations composes: one artifact file, *)
(* for any number of calls; the outputs of a full build, the artifacts,    *)
(* catalogs and channels that are generated, staged and published, and the *)
(* development candidate of the server, for any builds, releases, channels *)
(* and targets; what the setup leaves on a host, for any destinations,     *)
(* setups and events; and what is configured, for any arguments, settings, *)
(* documents and names.  They share no variable.                           *)
(***************************************************************************)
EXTENDS ImmutableArtifact, Operations, CollectionTheorems

-----------------------------------------------------------------------------
(* One artifact file.                                                      *)

\* A call that has identified a file and not answered yet.
Identified == {"open", "read", "identify", "link", "compare", "unlink", "check", "evict"}

\* As long as the name still is the corrupt file's, nobody has seen another file there
\* and nobody has answered: each call that has seen the file is on its way to quarantine.
StillCorrupt ==
  name \in corrupt =>
    \A c \in Calls : /\ seen[c] \in {None, Old} /\ linked[c] \in {None, Old}
                     /\ pc[c] \notin {"hit", "miss", "installed"}
                     /\ pc[c] \in Identified => seen[c] = Old
                     /\ pc[c] = "compare" => linked[c] = Old

\* Without corruption and eviction every call that has lost a race, and every one that
\* has seen a file, still finds that file at the name.
WinnerStays ==
  corrupt = {} /\ NothingEvicted =>
    /\ \A c \in Readers \cup Installers :
         pc[c] \in {"install", "lstat", "open", "read", "hit", "miss", "installed"}
    /\ \A c \in Calls : pc[c] \in {"open", "read"} => seen[c] = name
    /\ \A c \in Calls : pc[c] \in {"open", "read", "hit", "installed"} => name # None
    /\ \A c \in Installers : pc[c] = "lstat" => name # None

\* An installation that is to link has an attempt left.
AttemptLeft == \A c \in Calls : pc[c] = "install" => attempt[c] < Attempts

Inv == TypeOK /\ AttemptLeft /\ StillCorrupt /\ WinnerStays

\* Whoever a step belongs to, it is one of these calls' steps.
Step(c) == \/ c \in Readers \cup Installers /\ (ReadStep(c) \/ QuarantineStep(c))
           \/ c \in Installers /\ Install(c)
           \/ c \in Evictors /\ (List(c) \/ Check(c) \/ Evict(c))

\* The initial states satisfy the invariant.
LEMMA InitInv == Init => Inv
<1> SUFFICES ASSUME Init PROVE Inv
  OBVIOUS
<1> USE ArtifactAssumption DEF Init, Calls
<1>1. TypeOK
  BY DEF TypeOK, Inodes, Ended
<1>2. AttemptLeft
  BY DEF AttemptLeft
<1>3. StillCorrupt
  BY DEF StillCorrupt, Identified
<1>4. WinnerStays
  BY DEF WinnerStays
<1> QED BY <1>1, <1>2, <1>3, <1>4 DEF Inv

\* Every step keeps the types, and the number of attempts below its limit.
LEMMA StepTypeOK ==
  ASSUME NEW c \in Calls, TypeOK, AttemptLeft, Step(c)
  PROVE  TypeOK' /\ AttemptLeft'
<1> USE ArtifactAssumption DEF TypeOK, AttemptLeft, Goto, Ended, Inodes, Calls
<1>1. CASE c \in Readers \cup Installers /\ ReadStep(c)
  BY <1>1 DEF ReadStep, Lstat, Open, Read, AfterMiss
<1>2. CASE c \in Readers \cup Installers /\ QuarantineStep(c)
  BY <1>2 DEF QuarantineStep, Identify, LinkQuarantine, Compare, Unlink, AfterMiss
<1>3. CASE c \in Installers /\ Install(c)
  <2>1. attempt[c] \in 0..Attempts /\ attempt[c] < Attempts
    BY <1>3 DEF Install
  <2>2. attempt[c] + 1 \in 0..Attempts
    BY <2>1
  <2> QED BY <1>3, <2>2 DEF Install
<1>4. CASE c \in Evictors /\ (List(c) \/ Check(c) \/ Evict(c))
  BY <1>4 DEF List, Check, Evict
<1> QED BY <1>1, <1>2, <1>3, <1>4 DEF Step

\* No step answers a call, or shows it another file, while the name is the corrupt file's.
LEMMA StepStillCorrupt ==
  ASSUME NEW c \in Calls, TypeOK, StillCorrupt, Step(c)
  PROVE  StillCorrupt'
<1> SUFFICES ASSUME name' \in corrupt' PROVE StillCorrupt'
  BY DEF StillCorrupt
<1> USE ArtifactAssumption DEF TypeOK, Goto, Ended, Inodes, Calls
<1>1. name = name' /\ corrupt' = corrupt /\ name = Old /\ corrupt = {Old}
  BY DEF Step, ReadStep, QuarantineStep, Lstat, Open, Read, Identify, LinkQuarantine,
         Compare, Unlink, Install, List, Check, Evict
<1>2. \A d \in Calls : /\ seen[d] \in {None, Old} /\ linked[d] \in {None, Old}
                       /\ pc[d] \notin {"hit", "miss", "installed"}
                       /\ pc[d] \in Identified => seen[d] = Old
                       /\ pc[d] = "compare" => linked[d] = Old
  BY <1>1 DEF StillCorrupt
<1> USE DEF Identified, StillCorrupt
<1>3. CASE c \in Readers \cup Installers /\ ReadStep(c)
  BY <1>1, <1>2, <1>3 DEF ReadStep, Lstat, Open, Read
<1>4. CASE c \in Readers \cup Installers /\ QuarantineStep(c)
  BY <1>1, <1>2, <1>4 DEF QuarantineStep, Identify, LinkQuarantine, Compare, Unlink
<1>5. CASE c \in Installers /\ Install(c)
  BY <1>1, <1>2, <1>5 DEF Install
<1>6. CASE c \in Evictors /\ (List(c) \/ Check(c) \/ Evict(c))
  BY <1>1, <1>2, <1>6 DEF List, Check, Evict
<1> QED BY <1>3, <1>4, <1>5, <1>6 DEF Step

\* Without corruption and eviction the name is only ever given, never taken away.
LEMMA StepWinnerStays ==
  ASSUME NEW c \in Calls, TypeOK, WinnerStays, Step(c)
  PROVE  WinnerStays'
<1> SUFFICES ASSUME corrupt' = {}, NothingEvicted' PROVE WinnerStays'
  BY DEF WinnerStays
<1> USE ArtifactAssumption DEF TypeOK, Goto, Ended, Inodes, Calls
<1>1. corrupt = {}
  BY DEF Step, ReadStep, QuarantineStep, Lstat, Open, Read, Identify, LinkQuarantine,
         Compare, Unlink, Install, List, Check, Evict
<1>e. NothingEvicted
  BY DEF NothingEvicted, Step, ReadStep, QuarantineStep, Lstat, Open, Read, Identify,
         LinkQuarantine, Compare, Unlink, Install, List, Check, Evict
<1>2. /\ \A d \in Readers \cup Installers :
           pc[d] \in {"install", "lstat", "open", "read", "hit", "miss", "installed"}
      /\ \A d \in Calls : pc[d] \in {"open", "read"} => seen[d] = name
      /\ \A d \in Calls : pc[d] \in {"open", "read", "hit", "installed"} => name # None
      /\ \A d \in Installers : pc[d] = "lstat" => name # None
  BY <1>1, <1>e DEF WinnerStays
<1> USE DEF WinnerStays
<1>3. CASE c \in Readers \cup Installers /\ ReadStep(c)
  <2>1. CASE Lstat(c)
    BY <1>1, <1>2, <1>3, <2>1 DEF Lstat, AfterMiss
  <2>2. CASE Open(c)
    BY <1>1, <1>2, <1>3, <2>2 DEF Open
  <2>3. CASE Read(c)
    BY <1>1, <1>2, <1>3, <2>3 DEF Read
  <2> QED BY <1>3, <2>1, <2>2, <2>3 DEF ReadStep
<1>4. CASE c \in Readers \cup Installers /\ QuarantineStep(c)
  BY <1>2, <1>4 DEF QuarantineStep, Identify, LinkQuarantine, Compare, Unlink
<1>5. CASE c \in Installers /\ Install(c)
  BY <1>1, <1>2, <1>5 DEF Install
<1>6. CASE c \in Evictors /\ (List(c) \/ Check(c) \/ Evict(c))
  BY <1>1, <1>2, <1>6 DEF NothingEvicted, List, Check, Evict
<1> QED BY <1>3, <1>4, <1>5, <1>6 DEF Step

\* The invariant holds throughout.
LEMMA ArtifactInvariance == Spec => []Inv
<1>1. Init => Inv
  BY InitInv
<1>2. Inv /\ [Next]_vars => Inv'
  <2> SUFFICES ASSUME Inv, [Next]_vars PROVE Inv'
    OBVIOUS
  <2>1. CASE UNCHANGED vars
    BY <2>1 DEF vars, Inv, TypeOK, AttemptLeft, StillCorrupt, WinnerStays,
              NothingEvicted
  <2>2. CASE Next
    <3>1. PICK c \in Calls : Step(c)
      BY <2>2 DEF Next, Step, Calls
    <3> QED BY <3>1, StepTypeOK, StepStillCorrupt, StepWinnerStays DEF Inv
  <2> QED BY <2>1, <2>2
<1> QED BY <1>1, <1>2, PTL DEF Spec

-----------------------------------------------------------------------------
\* The types, and the number of attempts of an installation, for any number of calls.
THEOREM ArtifactTypeCorrect == Spec => []TypeOK
<1>1. Inv => TypeOK
  BY DEF Inv
<1> QED BY ArtifactInvariance, <1>1, PTL

\* However many calls read, quarantine, install and evict one artifact, none of them
\* answers while a corrupt file keeps its name (readVerifiedArtifactFile,
\* installVerifiedArtifact).
THEOREM CorruptFilesLoseTheirName == Spec => []CorruptionIsRepaired
<1>1. Inv => CorruptionIsRepaired
  BY DEF Inv, StillCorrupt, CorruptionIsRepaired
<1> QED BY ArtifactInvariance, <1>1, PTL

\* However many calls race to install an intact artifact, until one is evicted none of
\* them fails and the first link stays (the loop of installVerifiedArtifact).
THEOREM InstallationRacesAreWon == Spec => []RacesAreWon
<1>1. Inv => RacesAreWon
  <2> SUFFICES ASSUME Inv, corrupt = {}, NothingEvicted
               PROVE  /\ \A c \in Calls : pc[c] \notin {"unsafe", "exhausted"}
                      /\ (\E c \in Calls : pc[c] \in {"hit", "installed"}) => name # None
    BY DEF RacesAreWon
  <2> QED BY DEF Inv, WinnerStays, NothingEvicted, Calls
<1> QED BY ArtifactInvariance, <1>1, PTL

-----------------------------------------------------------------------------
(* The full ontologies                                                     *)

Stages == {"waiting", "begun", "rendering", "writing", "cleaning", "cleaned", "checking",
           "sealing", "renaming", "ended", "crashed"}

FullTypes ==
  /\ source \in [Releases -> Texts] /\ distFiles \in [Releases -> Texts]
  /\ buildStage \in [Builds -> Stages]
  /\ inputs \in [Builds -> [Releases -> Texts]]
  /\ consumed \in [Builds -> [Releases -> Texts]]
  /\ assets \in [Builds -> [Releases -> Texts]]

\* A build that runs holds the lock, and while it does no receipt is there.
LockIsHeld ==
  \A b \in Builds : Running(b) => fullLock = b /\ buildReceipt = NoReceipt

\* A set is what a build has consumed of a text it discovered, if that declares imports.
RenderedIsBound ==
  \A b \in Builds, r \in Releases :
    /\ consumed[b][r] # NoText => inputs[b][r] \in Importing
    /\ assets[b][r] # NoText => assets[b][r] = inputs[b][r] /\ consumed[b][r] # NoText
    /\ buildStage[b] \in {"waiting", "begun"} => consumed[b][r] = NoText

\* From the writing on every required set is there.
RequiredIsRendered ==
  \A b \in Builds : buildStage[b] \notin {"waiting", "begun", "rendering", "ended", "crashed"}
    => \A r \in Required(b) : assets[b][r] # NoText

\* What is about to be sealed is on the disk.
SealedIsWritten ==
  \A b \in Builds : buildStage[b] \in {"sealing", "renaming"}
    => OutputsMatch(inputs[b], assets[b])

Bound(receipt) == \A r \in Releases : receipt.outputs[r] = Rendering(receipt.inputs[r])

ReceiptIsBound ==
  /\ buildReceipt # NoReceipt => /\ Bound(buildReceipt)
                                 /\ OutputsMatch(buildReceipt.inputs, buildReceipt.outputs)
  /\ verifying.at \in {"read", "current", "admitted"} => Bound(verifying.receipt)
  /\ verifying = [at |-> verifying.at, receipt |-> verifying.receipt]

FullInv == /\ FullTypes /\ LockIsHeld /\ RenderedIsBound /\ RequiredIsRendered
           /\ SealedIsWritten /\ ReceiptIsBound

\* What the steps of a build have in common: the sources, the sets of other builds and the
\* verification are left alone, and only the build with the lock moves.
LEMMA MovesOne ==
  ASSUME FullTypes, NEW b \in Builds, NEW s \in Stages, MoveTo(b, s)
  PROVE  /\ buildStage' \in [Builds -> Stages] /\ buildStage'[b] = s
         /\ \A d \in Builds \ {b} : buildStage'[d] = buildStage[d]
BY DEF FullTypes, MoveTo

\* A step of one build that writes no file and no receipt, and renders nothing, keeps the
\* invariant if the build may be where it goes.
LEMMA MovingKeeps ==
  ASSUME FullInv, NEW b \in Builds, NEW s \in Stages, MoveTo(b, s), Running(b),
         \/ fullLock' = fullLock
         \/ fullLock' = NoBuild /\ s = "ended",
         UNCHANGED <<source, distFiles, buildReceipt, inputs, consumed, assets, verifying>>,
         s \notin {"waiting", "begun"},
         s \notin {"rendering", "ended", "crashed"} =>
           \A r \in Required(b) : assets[b][r] # NoText,
         s \in {"sealing", "renaming"} => OutputsMatch(inputs[b], assets[b])
  PROVE  FullInv'
<1>1. /\ buildStage' \in [Builds -> Stages] /\ buildStage'[b] = s
      /\ \A d \in Builds \ {b} : buildStage'[d] = buildStage[d]
  BY MovesOne DEF FullInv
<1>2. fullLock = b /\ buildReceipt = NoReceipt
  BY DEF FullInv, LockIsHeld
<1>3. \A d \in Builds \ {b} : ~Running(d)
  BY <1>2 DEF FullInv, LockIsHeld
<1>4. FullTypes'
  BY <1>1 DEF FullInv, FullTypes
<1>5. LockIsHeld'
  BY <1>1, <1>2, <1>3 DEF LockIsHeld, Running
<1>6. RenderedIsBound'
  BY <1>1 DEF FullInv, RenderedIsBound
<1>7. RequiredIsRendered'
  BY <1>1 DEF FullInv, RequiredIsRendered, Required
<1>8. SealedIsWritten'
  BY <1>1 DEF FullInv, SealedIsWritten, OutputsMatch
<1>9. ReceiptIsBound'
  BY DEF FullInv, ReceiptIsBound, OutputsMatch
<1> QED BY <1>4, <1>5, <1>6, <1>7, <1>8, <1>9 DEF FullInv

\* Every step of a build preserves the invariant.
LEMMA BuildStepKeeps ==
  ASSUME FullInv, NEW b \in Builds
  PROVE  /\ Begin(b) \/ Discover(b) \/ AssertBuildInputs(b) => FullInv'
         /\ WritesCompleted(b) \/ Cleaned(b) \/ AssertOutputs(b) => FullInv'
         /\ WritePending(b) \/ Seal(b) \/ BuildFails(b) \/ BuildCrashes(b) => FullInv'
         /\ \A r \in Releases : \/ LoadCollapsed(b, r) \/ CaptureInput(b, r)
                                \/ WriteAsset(b, r) \/ RemoveStale(b, r)
              => FullInv'
<1>1. ASSUME Begin(b) PROVE FullInv'
  <2>1. /\ buildStage[b] = "waiting"
        /\ UNCHANGED <<source, distFiles, inputs, consumed, assets, verifying>>
    BY <1>1 DEF Begin, Outside
  <2>2. CASE fullLock # NoBuild
    <3>1. MoveTo(b, "ended") /\ fullLock' = fullLock /\ buildReceipt' = buildReceipt
      BY <1>1, <2>2 DEF Begin
    <3>2. /\ buildStage' \in [Builds -> Stages] /\ buildStage'[b] = "ended"
          /\ \A d \in Builds \ {b} : buildStage'[d] = buildStage[d]
      BY <3>1, MovesOne DEF FullInv, Stages
    <3>3. FullTypes'
      BY <2>1, <3>2 DEF FullInv, FullTypes
    <3>4. LockIsHeld'
      BY <3>1, <3>2 DEF FullInv, LockIsHeld, Running
    <3>5. RenderedIsBound'
      BY <2>1, <3>2 DEF FullInv, RenderedIsBound
    <3>6. RequiredIsRendered' /\ SealedIsWritten'
      BY <2>1, <3>2 DEF FullInv, RequiredIsRendered, SealedIsWritten, OutputsMatch, Required
    <3>7. ReceiptIsBound'
      BY <2>1, <3>1 DEF FullInv, ReceiptIsBound, OutputsMatch
    <3> QED BY <3>3, <3>4, <3>5, <3>6, <3>7 DEF FullInv
  <2>3. CASE fullLock = NoBuild
    <3>1. MoveTo(b, "begun") /\ fullLock' = b /\ buildReceipt' = NoReceipt
      BY <1>1, <2>3 DEF Begin
    <3>2. /\ buildStage' \in [Builds -> Stages] /\ buildStage'[b] = "begun"
          /\ \A d \in Builds \ {b} : buildStage'[d] = buildStage[d]
      BY <3>1, MovesOne DEF FullInv, Stages
    <3>3. FullTypes'
      BY <2>1, <3>2 DEF FullInv, FullTypes
    <3>4. \A d \in Builds : ~Running(d)
      BY <2>3, FullBuildAssumption DEF FullInv, LockIsHeld
    <3>5. LockIsHeld'
      BY <3>1, <3>2, <3>4 DEF LockIsHeld, Running
    <3>6. RenderedIsBound'
      BY <2>1, <3>2 DEF FullInv, RenderedIsBound
    <3>7. RequiredIsRendered' /\ SealedIsWritten'
      BY <2>1, <3>2 DEF FullInv, RequiredIsRendered, SealedIsWritten, OutputsMatch, Required
    <3>8. ReceiptIsBound'
      BY <2>1, <3>1 DEF FullInv, ReceiptIsBound, Bound
    <3> QED BY <3>3, <3>5, <3>6, <3>7, <3>8 DEF FullInv
  <2> QED BY <2>2, <2>3
<1>2. ASSUME Discover(b) PROVE FullInv'
  <2>1. /\ buildStage[b] = "begun" /\ inputs' = [inputs EXCEPT ![b] = source]
        /\ MoveTo(b, "rendering")
        /\ UNCHANGED <<source, distFiles, buildReceipt, fullLock, consumed, assets, verifying>>
    BY <1>2 DEF Discover, Outside
  <2>2. /\ buildStage' \in [Builds -> Stages] /\ buildStage'[b] = "rendering"
        /\ \A d \in Builds \ {b} : buildStage'[d] = buildStage[d]
    BY <2>1, MovesOne DEF FullInv, Stages
  <2>3. /\ inputs' \in [Builds -> [Releases -> Texts]]
        /\ \A d \in Builds \ {b} : inputs'[d] = inputs[d]
    BY <2>1 DEF FullInv, FullTypes
  <2>4. FullTypes'
    BY <2>1, <2>2, <2>3 DEF FullInv, FullTypes
  <2>5. LockIsHeld'
    BY <2>1, <2>2 DEF FullInv, LockIsHeld, Running
  <2>6. \A r \in Releases : consumed[b][r] = NoText /\ assets[b][r] = NoText
    BY <2>1 DEF FullInv, RenderedIsBound
  <2>7. RenderedIsBound'
    BY <2>1, <2>2, <2>3, <2>6 DEF FullInv, RenderedIsBound
  <2>8. RequiredIsRendered' /\ SealedIsWritten'
    BY <2>1, <2>2, <2>3
       DEF FullInv, RequiredIsRendered, SealedIsWritten, OutputsMatch, Required
  <2>9. ReceiptIsBound'
    BY <2>1 DEF FullInv, ReceiptIsBound, OutputsMatch
  <2> QED BY <2>4, <2>5, <2>7, <2>8, <2>9 DEF FullInv
<1>3. ASSUME AssertBuildInputs(b) PROVE FullInv'
  <2>1. /\ \/ buildStage[b] = "rendering" /\ \A r \in Required(b) : assets[b][r] # NoText
           \/ buildStage[b] = "cleaned"
        /\ \/ /\ \E s \in {"writing", "checking"} : MoveTo(b, s)
              /\ fullLock' = fullLock
           \/ MoveTo(b, "ended") /\ fullLock' = NoBuild
        /\ UNCHANGED <<source, distFiles, buildReceipt, inputs, consumed, assets, verifying>>
    BY <1>3 DEF AssertBuildInputs, Outside, EndFullOntologyBuild
  <2>2. Running(b) /\ \A r \in Required(b) : assets[b][r] # NoText
    BY <2>1 DEF Running, FullInv, RequiredIsRendered
  <2> QED BY <2>1, <2>2, MovingKeeps DEF Stages
<1>4. ASSUME WritesCompleted(b) PROVE FullInv'
  <2>1. /\ buildStage[b] = "writing" /\ MoveTo(b, "cleaning") /\ fullLock' = fullLock
        /\ UNCHANGED <<source, distFiles, buildReceipt, inputs, consumed, assets, verifying>>
    BY <1>4 DEF WritesCompleted, Outside
  <2>2. Running(b) /\ \A r \in Required(b) : assets[b][r] # NoText
    BY <2>1 DEF Running, FullInv, RequiredIsRendered
  <2> QED BY <2>1, <2>2, MovingKeeps DEF Stages
<1>5. ASSUME Cleaned(b) PROVE FullInv'
  <2>1. /\ buildStage[b] = "cleaning" /\ MoveTo(b, "cleaned") /\ fullLock' = fullLock
        /\ UNCHANGED <<source, distFiles, buildReceipt, inputs, consumed, assets, verifying>>
    BY <1>5 DEF Cleaned, Outside
  <2>2. Running(b) /\ \A r \in Required(b) : assets[b][r] # NoText
    BY <2>1 DEF Running, FullInv, RequiredIsRendered
  <2> QED BY <2>1, <2>2, MovingKeeps DEF Stages
<1>6. ASSUME AssertOutputs(b) PROVE FullInv'
  <2>1. /\ buildStage[b] = "checking"
        /\ \/ /\ OutputsMatch(inputs[b], assets[b]) /\ MoveTo(b, "sealing")
              /\ fullLock' = fullLock
           \/ MoveTo(b, "ended") /\ fullLock' = NoBuild
        /\ UNCHANGED <<source, distFiles, buildReceipt, inputs, consumed, assets, verifying>>
    BY <1>6 DEF AssertOutputs, Outside, EndFullOntologyBuild
  <2>2. Running(b) /\ \A r \in Required(b) : assets[b][r] # NoText
    BY <2>1 DEF Running, FullInv, RequiredIsRendered
  <2> QED BY <2>1, <2>2, MovingKeeps DEF Stages
<1>7. ASSUME WritePending(b) PROVE FullInv'
  <2>1. /\ buildStage[b] = "sealing"
        /\ \/ MoveTo(b, "renaming") /\ fullLock' = fullLock
           \/ MoveTo(b, "ended") /\ fullLock' = NoBuild
        /\ UNCHANGED <<source, distFiles, buildReceipt, inputs, consumed, assets, verifying>>
    BY <1>7 DEF WritePending, Outside, EndFullOntologyBuild
  <2>2. /\ Running(b) /\ \A r \in Required(b) : assets[b][r] # NoText
        /\ OutputsMatch(inputs[b], assets[b])
    BY <2>1 DEF Running, FullInv, RequiredIsRendered, SealedIsWritten
  <2> QED BY <2>1, <2>2, MovingKeeps DEF Stages
<1>8. ASSUME Seal(b) PROVE FullInv'
  <2>1. /\ buildStage[b] = "renaming" /\ fullLock' = NoBuild /\ MoveTo(b, "ended")
        /\ buildReceipt' = [inputs |-> inputs[b], outputs |-> assets[b]]
        /\ UNCHANGED <<source, distFiles, inputs, consumed, assets, verifying>>
    BY <1>8 DEF Seal, Outside, EndFullOntologyBuild
  <2>2. /\ buildStage' \in [Builds -> Stages] /\ buildStage'[b] = "ended"
        /\ \A d \in Builds \ {b} : buildStage'[d] = buildStage[d]
    BY <2>1, MovesOne DEF FullInv, Stages
  <2>3. FullTypes'
    BY <2>1, <2>2 DEF FullInv, FullTypes
  <2>4. fullLock = b
    BY <2>1 DEF FullInv, LockIsHeld, Running
  <2>5. LockIsHeld'
    BY <2>1, <2>2, <2>4 DEF FullInv, LockIsHeld, Running
  <2>6. RenderedIsBound'
    BY <2>1, <2>2 DEF FullInv, RenderedIsBound
  <2>7. RequiredIsRendered' /\ SealedIsWritten'
    BY <2>1, <2>2 DEF FullInv, RequiredIsRendered, SealedIsWritten, OutputsMatch, Required
  <2>8. \A r \in Required(b) : assets[b][r] # NoText
    BY <2>1 DEF FullInv, RequiredIsRendered
  <2>9. ASSUME NEW r \in Releases PROVE assets[b][r] = Rendering(inputs[b][r])
    <3>1. /\ consumed[b][r] # NoText => inputs[b][r] \in Importing
          /\ assets[b][r] # NoText => assets[b][r] = inputs[b][r] /\ consumed[b][r] # NoText
      BY DEF FullInv, RenderedIsBound
    <3> QED BY <2>8, <3>1 DEF Required, Rendering
  <2>10. Bound(buildReceipt)'
    BY <2>1, <2>9 DEF Bound, Rendering
  <2>11. OutputsMatch(inputs[b], assets[b])
    BY <2>1 DEF FullInv, SealedIsWritten
  <2>12. OutputsMatch(buildReceipt.inputs, buildReceipt.outputs)'
    BY <2>1, <2>11 DEF OutputsMatch
  <2>13. ReceiptIsBound'
    BY <2>1, <2>10, <2>12 DEF FullInv, ReceiptIsBound, Bound
  <2> QED BY <2>3, <2>5, <2>6, <2>7, <2>13 DEF FullInv
<1>9. ASSUME BuildFails(b) PROVE FullInv'
  <2>1. /\ Running(b) /\ MoveTo(b, "ended") /\ fullLock' = NoBuild
        /\ UNCHANGED <<source, distFiles, buildReceipt, inputs, consumed, assets, verifying>>
    BY <1>9 DEF BuildFails, Outside, EndFullOntologyBuild
  <2> QED BY <2>1, MovingKeeps DEF Stages
<1>10. ASSUME BuildCrashes(b) PROVE FullInv'
  <2>1. /\ Running(b) /\ MoveTo(b, "crashed") /\ fullLock' = fullLock
        /\ UNCHANGED <<source, distFiles, buildReceipt, inputs, consumed, assets, verifying>>
    BY <1>10 DEF BuildCrashes, Outside
  <2> QED BY <2>1, MovingKeeps DEF Stages
<1>11. ASSUME NEW r \in Releases, LoadCollapsed(b, r) PROVE FullInv'
  <2>1. /\ buildStage[b] = "rendering" /\ inputs[b][r] \in Importing /\ source[r] # NoText
        /\ consumed[b][r] = NoText
        /\ consumed' = [consumed EXCEPT ![b][r] = source[r]]
        /\ UNCHANGED <<source, distFiles, buildReceipt, fullLock, buildStage, inputs, assets,
                       verifying>>
    BY <1>11 DEF LoadCollapsed, Outside
  <2>2. /\ consumed \in [Builds -> [Releases -> Texts]] /\ source[r] \in Texts
    BY DEF FullInv, FullTypes
  <2>3. /\ consumed' \in [Builds -> [Releases -> Texts]]
        /\ \A d \in Builds, q \in Releases :
             consumed'[d][q] = IF d = b /\ q = r THEN source[r] ELSE consumed[d][q]
    BY <2>1, <2>2
  <2>4. FullTypes'
    BY <2>1, <2>3 DEF FullInv, FullTypes
  <2>5. LockIsHeld'
    BY <2>1 DEF FullInv, LockIsHeld, Running
  <2>6. RenderedIsBound'
    BY <2>1, <2>3 DEF FullInv, RenderedIsBound
  <2>7. RequiredIsRendered' /\ SealedIsWritten'
    BY <2>1 DEF FullInv, RequiredIsRendered, SealedIsWritten, OutputsMatch, Required
  <2>8. ReceiptIsBound'
    BY <2>1 DEF FullInv, ReceiptIsBound, OutputsMatch
  <2> QED BY <2>4, <2>5, <2>6, <2>7, <2>8 DEF FullInv
<1>12. ASSUME NEW r \in Releases, CaptureInput(b, r) PROVE FullInv'
  <2>1. /\ buildStage[b] = "rendering" /\ consumed[b][r] # NoText
        /\ UNCHANGED <<source, distFiles, buildReceipt, inputs, consumed, verifying>>
        /\ \/ /\ consumed[b][r] = inputs[b][r]
              /\ assets' = [assets EXCEPT ![b][r] = consumed[b][r]]
              /\ buildStage' = buildStage /\ fullLock' = fullLock
           \/ MoveTo(b, "ended") /\ fullLock' = NoBuild /\ assets' = assets
    BY <1>12 DEF CaptureInput, Outside, EndFullOntologyBuild
  <2>2. CASE MoveTo(b, "ended") /\ fullLock' = NoBuild /\ assets' = assets
    <3>1. Running(b)
      BY <2>1 DEF Running
    <3> QED BY <2>1, <2>2, <3>1, MovingKeeps DEF Stages
  <2>3. CASE /\ consumed[b][r] = inputs[b][r]
             /\ assets' = [assets EXCEPT ![b][r] = consumed[b][r]]
             /\ buildStage' = buildStage /\ fullLock' = fullLock
    <3>1. /\ assets \in [Builds -> [Releases -> Texts]] /\ consumed[b][r] \in Texts
      BY DEF FullInv, FullTypes
    <3>2. /\ assets' \in [Builds -> [Releases -> Texts]]
          /\ \A d \in Builds, q \in Releases :
               assets'[d][q] = IF d = b /\ q = r THEN consumed[b][r] ELSE assets[d][q]
          /\ \A d \in Builds : d # b => assets'[d] = assets[d]
      BY <2>3, <3>1
    <3>3. FullTypes'
      BY <2>1, <2>3, <3>2 DEF FullInv, FullTypes
    <3>4. LockIsHeld'
      BY <2>1, <2>3 DEF FullInv, LockIsHeld, Running
    <3>5. RenderedIsBound'
      BY <2>1, <2>3, <3>2 DEF FullInv, RenderedIsBound
    <3>6. RequiredIsRendered' /\ SealedIsWritten'
      BY <2>1, <2>3, <3>2
         DEF FullInv, RequiredIsRendered, SealedIsWritten, OutputsMatch, Required
    <3>7. ReceiptIsBound'
      BY <2>1 DEF FullInv, ReceiptIsBound, OutputsMatch
    <3> QED BY <3>3, <3>4, <3>5, <3>6, <3>7 DEF FullInv
  <2> QED BY <2>1, <2>2, <2>3
<1>13. ASSUME NEW r \in Releases, NEW t \in Texts, distFiles' = [distFiles EXCEPT ![r] = t],
              buildStage[b] \in {"writing", "cleaning"},
              UNCHANGED <<source, buildReceipt, fullLock, buildStage, inputs, consumed,
                          assets, verifying>>
       PROVE  FullInv'
  <2>1. fullLock = b /\ buildReceipt = NoReceipt
    BY <1>13 DEF FullInv, LockIsHeld, Running
  <2>2. FullTypes'
    BY <1>13 DEF FullInv, FullTypes
  <2>3. LockIsHeld' /\ RenderedIsBound' /\ RequiredIsRendered'
    BY <1>13 DEF FullInv, LockIsHeld, Running, RenderedIsBound, RequiredIsRendered, Required
  <2>4. \A d \in Builds : buildStage[d] \notin {"sealing", "renaming"}
    BY <1>13, <2>1 DEF FullInv, LockIsHeld, Running
  <2>5. SealedIsWritten'
    BY <1>13, <2>4 DEF SealedIsWritten
  <2>6. ReceiptIsBound'
    BY <1>13, <2>1 DEF FullInv, ReceiptIsBound
  <2> QED BY <2>2, <2>3, <2>5, <2>6 DEF FullInv
<1>14. ASSUME NEW r \in Releases, WriteAsset(b, r) PROVE FullInv'
  <2>1. assets[b][r] \in Texts
    BY DEF FullInv, FullTypes
  <2> QED BY <1>13, <1>14, <2>1 DEF WriteAsset, Outside
<1>15. ASSUME NEW r \in Releases, RemoveStale(b, r) PROVE FullInv'
  <2>1. /\ buildStage[b] = "cleaning"
        /\ UNCHANGED <<source, buildReceipt, inputs, consumed, assets, verifying>>
        /\ \/ /\ distFiles' = [distFiles EXCEPT ![r] = NoText]
              /\ buildStage' = buildStage /\ fullLock' = fullLock
           \/ MoveTo(b, "ended") /\ fullLock' = NoBuild /\ distFiles' = distFiles
    BY <1>15 DEF RemoveStale, Outside, EndFullOntologyBuild
  <2>2. Running(b) /\ NoText \in Texts
    BY <2>1 DEF Running, Texts
  <2>3. CASE MoveTo(b, "ended") /\ fullLock' = NoBuild /\ distFiles' = distFiles
    BY <2>1, <2>2, <2>3, MovingKeeps DEF Stages
  <2> QED BY <1>13, <2>1, <2>2, <2>3
<1> QED BY <1>1, <1>2, <1>3, <1>4, <1>5, <1>6, <1>7, <1>8, <1>9, <1>10, <1>11, <1>12,
           <1>14, <1>15

\* So does every other step.
LEMMA FullStepKeeps ==
  ASSUME FullInv, [FullNext]_fullVars PROVE FullInv'
<1> USE DEF FullInv
<1>1. CASE UNCHANGED fullVars
  BY <1>1 DEF fullVars, FullTypes, LockIsHeld, Running, RenderedIsBound, RequiredIsRendered,
              Required, SealedIsWritten, OutputsMatch, ReceiptIsBound
<1>2. ASSUME UNCHANGED <<distFiles, buildReceipt, buildStage, inputs, consumed, assets>>,
             FullTypes', LockIsHeld', ReceiptIsBound'
      PROVE  FullInv'
  BY <1>2 DEF RenderedIsBound, RequiredIsRendered, Required, SealedIsWritten, OutputsMatch
<1>3. CASE Verify
  <2>1. /\ UNCHANGED <<source, distFiles, buildReceipt, fullLock, buildStage, inputs,
                       consumed, assets>>
    BY <1>3 DEF Verify
  <2>2. FullTypes' /\ LockIsHeld'
    BY <2>1 DEF FullTypes, LockIsHeld, Running
  <2>3. \/ verifying' = [at |-> "refused", receipt |-> NoReceipt]
        \/ verifying' = [at |-> "read", receipt |-> buildReceipt] /\ buildReceipt # NoReceipt
        \/ /\ verifying.at \in {"read", "current"}
           /\ \E s \in {"current", "admitted", "refused"} :
                verifying' = [verifying EXCEPT !.at = s]
        \/ verifying' = [at |-> "idle", receipt |-> NoReceipt]
    BY <1>3 DEF Verify
  <2>4. ReceiptIsBound'
    BY <2>1, <2>3 DEF ReceiptIsBound, Bound, OutputsMatch
  <2> QED BY <1>2, <2>1, <2>2, <2>4
<1>4. ASSUME NEW r \in Releases, EditSource(r) PROVE FullInv'
  <2>1. /\ \E t \in Texts : source' = [source EXCEPT ![r] = t]
        /\ UNCHANGED <<distFiles, buildReceipt, fullLock, buildStage, inputs, consumed,
                       assets, verifying>>
    BY <1>4 DEF EditSource
  <2>2. FullTypes' /\ LockIsHeld' /\ ReceiptIsBound'
    BY <2>1 DEF FullTypes, LockIsHeld, Running, ReceiptIsBound, OutputsMatch
  <2> QED BY <1>2, <2>1, <2>2
<1>5. CASE RemoveLeftovers
  <2>1. /\ \E b \in Builds : buildStage[b] = "crashed" /\ fullLock = b
        /\ UNCHANGED <<source, distFiles, buildReceipt, buildStage, inputs, consumed, assets,
                       verifying>>
    BY <1>5 DEF RemoveLeftovers
  <2>2. \A b \in Builds : ~Running(b)
    BY <2>1 DEF LockIsHeld, Running
  <2>3. FullTypes' /\ LockIsHeld' /\ ReceiptIsBound'
    BY <2>1, <2>2 DEF FullTypes, LockIsHeld, Running, ReceiptIsBound, OutputsMatch
  <2> QED BY <1>2, <2>1, <2>3
<1> QED BY <1>1, <1>3, <1>4, <1>5, BuildStepKeeps DEF FullNext

-----------------------------------------------------------------------------
(* The query artifacts                                                     *)

PublicationTypes ==
  /\ releaseText \in Catalogs
  /\ objectFile \in [Objects -> {"absent", "partial", "whole"}]
  /\ catalogJson \in [state : {"absent", "partial", "whole"}, of : Catalogs]
  /\ channelFile \in [Channels -> SUBSET Catalogs]
  /\ captured \in [Writers -> Catalogs]
  /\ writer \in [Writers -> {"waiting", "writing", "rendered", "publishing", "emitted",
                             "bundled", "validating", "ended"}]
  /\ open \in [Writers -> SUBSET (Objects \cup {CatalogJson})]
  /\ done \in [Writers -> SUBSET (Objects \cup {CatalogJson})]

\* A run that has not begun has done nothing, one that has not emitted neither; a website
\* build has opened nothing where none has written.
NothingDone(w) ==
  /\ writer[w] \in {"waiting", "rendered", "emitted"} => done[w] = {} /\ open[w] = {}
  /\ writer[w] = "bundled" => open[w] = {}

\* What a generator has written is whole, and a staging validates a complete catalog.
DoneIsWhole(w) ==
  /\ writer[w] \in {"writing", "publishing"} =>
       \A o \in done[w] : o \in Objects /\ objectFile[o] = "whole"
  /\ writer[w] = "publishing" => Artifacts(captured[w]) \subseteq done[w]
  /\ writer[w] = "validating" => Complete(captured[w])

PublicationInv ==
  /\ PublicationTypes
  /\ ~websiteWrote => /\ \A w \in Writers : NothingDone(w) /\ DoneIsWhole(w)
                      /\ PublishedIsComplete

\* The artifacts of a catalog are objects.
LEMMA ArtifactsAreObjects == \A c \in Catalogs : Artifacts(c) \subseteq Objects
BY DEF Objects

\* A step of one run keeps the invariant if, where no website build has written, what is
\* whole stays whole, the run knows what it should, and what it publishes is complete.
LEMMA OneMoves ==
  ASSUME PublicationInv, PublicationTypes', NEW w \in Writers,
         \A v \in Writers \ {w} : /\ writer'[v] = writer[v] /\ captured'[v] = captured[v]
                                  /\ open'[v] = open[v] /\ done'[v] = done[v],
         websiteWrote => websiteWrote',
         ~websiteWrote' =>
           /\ \A o \in Objects : objectFile[o] = "whole" => objectFile'[o] = "whole"
           /\ NothingDone(w)' /\ DoneIsWhole(w)'
           /\ \/ catalogJson' = catalogJson
              \/ catalogJson'.state = "whole" => Complete(catalogJson.of)'
           /\ \A n \in Channels : \A c \in channelFile'[n] :
                c \in channelFile[n] \/ Complete(c)'
  PROVE  PublicationInv'
<1> SUFFICES ASSUME ~websiteWrote'
             PROVE  /\ \A v \in Writers : NothingDone(v)' /\ DoneIsWhole(v)'
                    /\ PublishedIsComplete'
  BY DEF PublicationInv
<1>1. /\ \A v \in Writers : NothingDone(v) /\ DoneIsWhole(v)
      /\ PublishedIsComplete /\ ~websiteWrote
  BY DEF PublicationInv
<1>2. \A c \in Catalogs : \A o \in Artifacts(c) : o \in Objects
  BY ArtifactsAreObjects
<1>3. ASSUME NEW c \in Catalogs, Complete(c) PROVE Complete(c)'
  <2>1. \A o \in Artifacts(c) : objectFile'[o] = "whole"
    BY <1>2, <1>3 DEF Complete
  <2> QED BY <2>1 DEF Complete, Artifacts, Indexes, Datasets, Catalog, Object
<1>4. ASSUME NEW v \in Writers \ {w} PROVE NothingDone(v)' /\ DoneIsWhole(v)'
  <2>1. NothingDone(v) /\ DoneIsWhole(v)
    BY <1>1
  <2>2. NothingDone(v)'
    BY <2>1 DEF NothingDone
  <2>3. captured[v] \in Catalogs
    BY DEF PublicationInv, PublicationTypes
  <2>4. writer[v] = "validating" => Complete(captured[v])'
    BY <1>3, <2>1, <2>3 DEF DoneIsWhole
  <2>5. DoneIsWhole(v)'
    BY <2>1, <2>4 DEF DoneIsWhole
  <2> QED BY <2>2, <2>5
<1>5. PublishedIsComplete'
  <2>1. catalogJson.of \in Catalogs /\ \A n \in Channels : channelFile[n] \in SUBSET Catalogs
    BY DEF PublicationInv, PublicationTypes
  <2>2. catalogJson.state = "whole" => Complete(catalogJson.of)
    BY <1>1 DEF PublishedIsComplete
  <2>3. catalogJson'.state = "whole" => Complete(catalogJson.of)'
    <3>1. CASE catalogJson' = catalogJson
      BY <1>3, <2>1, <2>2, <3>1
    <3> QED BY <3>1
  <2>4. ASSUME NEW n \in Channels, NEW c \in channelFile'[n] PROVE Complete(c)'
    BY <1>1, <1>3, <2>1 DEF PublishedIsComplete
  <2> QED BY <2>3, <2>4 DEF PublishedIsComplete
<1> QED BY <1>4, <1>5

\* A run that ends knows nothing any more.
LEMMA EndingKeeps ==
  ASSUME PublicationInv, NEW w \in Writers, Ends(w),
         UNCHANGED <<objectFile, channelFile, websiteWrote, releaseText>>,
         catalogJson' \in [state : {"absent", "partial", "whole"}, of : Catalogs],
         \/ catalogJson' = catalogJson
         \/ catalogJson'.state = "whole" /\ ~websiteWrote => Complete(catalogJson.of)'
  PROVE  PublicationInv'
<1>1. /\ writer' = [writer EXCEPT ![w] = "ended"]
      /\ captured' = [captured EXCEPT ![w] = FirstCatalog]
      /\ open' = [open EXCEPT ![w] = {}] /\ done' = [done EXCEPT ![w] = {}]
  BY DEF Ends, To
<1>2. FirstCatalog \in Catalogs
  BY PublicationAssumption DEF FirstCatalog, Catalogs
<1>3. PublicationTypes'
  BY <1>1, <1>2 DEF PublicationInv, PublicationTypes
<1>4. /\ writer'[w] = "ended"
      /\ \A v \in Writers \ {w} : /\ writer'[v] = writer[v] /\ captured'[v] = captured[v]
                                  /\ open'[v] = open[v] /\ done'[v] = done[v]
  BY <1>1 DEF PublicationInv, PublicationTypes
<1>5. NothingDone(w)' /\ DoneIsWhole(w)'
  BY <1>4 DEF NothingDone, DoneIsWhole
<1> QED BY <1>3, <1>4, <1>5, OneMoves

\* The steps of generators, and the two that generators and website builds have in common.
LEMMA GeneratorStepKeeps ==
  ASSUME PublicationInv, NEW w \in Writers
  PROVE  /\ CaptureSources(w) => PublicationInv'
         /\ AssertSourcesUnchanged(w) => PublicationInv'
         /\ RunStops(w) => PublicationInv'
         /\ PublishCatalogAtomically(w) => PublicationInv'
         /\ \A o \in Objects :
              WriteImmutableArtifact(w, o) \/ FillImmutableArtifact(w, o) => PublicationInv'
<1> USE DEF Sources
<1>0. /\ PublicationTypes
      /\ ~websiteWrote => NothingDone(w) /\ DoneIsWhole(w)
  BY DEF PublicationInv
<1>1. ASSUME CaptureSources(w) PROVE PublicationInv'
  <2>1. /\ writer[w] = "waiting" /\ captured' = [captured EXCEPT ![w] = releaseText]
        /\ \E s \in {"writing", "rendered"} : writer' = [writer EXCEPT ![w] = s]
        /\ UNCHANGED <<objectFile, catalogJson, channelFile, websiteWrote, open, done,
                       releaseText>>
    BY <1>1 DEF CaptureSources, To
  <2>2. PublicationTypes'
    BY <1>0, <2>1 DEF PublicationTypes
  <2>3. /\ writer'[w] \in {"writing", "rendered"}
        /\ \A v \in Writers \ {w} : writer'[v] = writer[v] /\ captured'[v] = captured[v]
    BY <1>0, <2>1 DEF PublicationTypes
  <2>4. ~websiteWrote => NothingDone(w)' /\ DoneIsWhole(w)'
    BY <1>0, <2>1, <2>3 DEF NothingDone, DoneIsWhole
  <2> QED BY <2>1, <2>2, <2>3, <2>4, OneMoves
<1>2. ASSUME AssertSourcesUnchanged(w) PROVE PublicationInv'
  <2>1. /\ UNCHANGED <<objectFile, catalogJson, channelFile, websiteWrote, releaseText>>
        /\ \/ Ends(w)
           \/ /\ \/ /\ writer[w] = "writing" /\ Artifacts(captured[w]) = done[w]
                    /\ writer' = [writer EXCEPT ![w] = "publishing"]
                 \/ /\ writer[w] = "rendered" /\ writer' = [writer EXCEPT ![w] = "emitted"]
              /\ UNCHANGED <<captured, open, done>>
    BY <1>2 DEF AssertSourcesUnchanged, To
  <2>2. CASE Ends(w)
    <3>1. catalogJson' = catalogJson
      BY <2>1
    <3> QED BY <1>0, <2>1, <2>2, <3>1, EndingKeeps DEF PublicationTypes
  <2>3. CASE ~Ends(w)
    <3>1. PublicationTypes'
      BY <1>0, <2>1, <2>3 DEF PublicationTypes
    <3>2. /\ \/ /\ writer'[w] = "publishing" /\ writer[w] = "writing"
                /\ Artifacts(captured[w]) = done[w]
             \/ writer'[w] = "emitted" /\ writer[w] = "rendered"
          /\ \A v \in Writers \ {w} : writer'[v] = writer[v]
      BY <1>0, <2>1, <2>3 DEF PublicationTypes
    <3>3. ~websiteWrote => NothingDone(w)' /\ DoneIsWhole(w)'
      BY <1>0, <2>1, <2>3, <3>2 DEF NothingDone, DoneIsWhole
    <3> QED BY <2>1, <2>3, <3>1, <3>2, <3>3, OneMoves
  <2> QED BY <2>2, <2>3
<1>3. ASSUME RunStops(w) PROVE PublicationInv'
  <2>1. /\ Ends(w)
        /\ UNCHANGED <<objectFile, catalogJson, channelFile, websiteWrote, releaseText>>
    BY <1>3 DEF RunStops
  <2>2. catalogJson' = catalogJson
    BY <2>1
  <2> QED BY <1>0, <2>1, <2>2, EndingKeeps DEF PublicationTypes
<1>4. ASSUME PublishCatalogAtomically(w) PROVE PublicationInv'
  <2>1. /\ writer[w] = "publishing" /\ Ends(w)
        /\ catalogJson' = [state |-> "whole", of |-> captured[w]]
        /\ UNCHANGED <<objectFile, channelFile, websiteWrote, releaseText>>
    BY <1>4 DEF PublishCatalogAtomically
  <2>2. captured[w] \in Catalogs
    BY <1>0 DEF PublicationTypes
  <2>3. catalogJson' \in [state : {"absent", "partial", "whole"}, of : Catalogs]
    BY <2>1, <2>2
  <2>4. ~websiteWrote => \A o \in Artifacts(captured[w]) : objectFile[o] = "whole"
    BY <1>0, <2>1 DEF DoneIsWhole
  <2>5. catalogJson'.of = captured[w] /\ objectFile' = objectFile
    BY <2>1
  <2>6. ~websiteWrote => Complete(catalogJson.of)'
    BY <2>4, <2>5 DEF Complete
  <2> QED BY <2>1, <2>3, <2>6, EndingKeeps
<1>5. ASSUME NEW o \in Objects, WriteImmutableArtifact(w, o) PROVE PublicationInv'
  <2>1. /\ writer[w] = "writing" /\ open[w] = {}
        /\ UNCHANGED <<catalogJson, channelFile, websiteWrote, releaseText>>
        /\ \/ /\ objectFile[o] = "absent"
              /\ objectFile' = [objectFile EXCEPT ![o] = "partial"]
              /\ open' = [open EXCEPT ![w] = {o}]
              /\ UNCHANGED <<writer, captured, done>>
           \/ Ends(w) /\ UNCHANGED objectFile
           \/ /\ objectFile[o] = "whole" /\ Done(w, o)
              /\ UNCHANGED <<objectFile, open, writer, captured>>
    <3>1. objectFile[o] \in {"absent", "partial", "whole"}
      BY <1>0 DEF PublicationTypes
    <3> QED BY <1>5, <3>1 DEF WriteImmutableArtifact
  <2>2. CASE Ends(w) /\ UNCHANGED objectFile
    <3>1. catalogJson' = catalogJson
      BY <2>1
    <3> QED BY <1>0, <2>1, <2>2, <3>1, EndingKeeps DEF PublicationTypes
  <2>3. CASE /\ objectFile[o] = "absent"
             /\ objectFile' = [objectFile EXCEPT ![o] = "partial"]
             /\ open' = [open EXCEPT ![w] = {o}]
             /\ UNCHANGED <<writer, captured, done>>
    <3>1. PublicationTypes'
      BY <1>0, <2>1, <2>3 DEF PublicationTypes
    <3>2. /\ \A p \in Objects : objectFile[p] = "whole" => objectFile'[p] = "whole"
          /\ \A v \in Writers \ {w} : open'[v] = open[v]
      BY <1>0, <2>3 DEF PublicationTypes
    <3>3. ~websiteWrote => NothingDone(w)' /\ DoneIsWhole(w)'
      BY <1>0, <2>1, <2>3, <3>2 DEF NothingDone, DoneIsWhole
    <3> QED BY <2>1, <2>3, <3>1, <3>2, <3>3, OneMoves
  <2>4. CASE /\ objectFile[o] = "whole" /\ Done(w, o)
             /\ UNCHANGED <<objectFile, open, writer, captured>>
    <3>1. done' = [done EXCEPT ![w] = done[w] \cup {o}]
      BY <2>4 DEF Done
    <3>2. PublicationTypes'
      BY <1>0, <2>1, <2>4, <3>1 DEF PublicationTypes
    <3>3. /\ done'[w] = done[w] \cup {o}
          /\ \A v \in Writers \ {w} : done'[v] = done[v]
      BY <1>0, <3>1 DEF PublicationTypes
    <3>4. ~websiteWrote => NothingDone(w)' /\ DoneIsWhole(w)'
      BY <1>0, <2>1, <2>4, <3>3 DEF NothingDone, DoneIsWhole
    <3> QED BY <2>1, <2>4, <3>2, <3>3, <3>4, OneMoves
  <2> QED BY <2>1, <2>2, <2>3, <2>4
<1>6. ASSUME NEW o \in Objects, FillImmutableArtifact(w, o) PROVE PublicationInv'
  <2>1. /\ writer[w] = "writing"
        /\ objectFile' = [objectFile EXCEPT ![o] = "whole"]
        /\ open' = [open EXCEPT ![w] = {}]
        /\ done' = [done EXCEPT ![w] = done[w] \cup {o}]
        /\ UNCHANGED <<catalogJson, channelFile, websiteWrote, writer, captured, releaseText>>
    BY <1>6 DEF FillImmutableArtifact, Done
  <2>2. PublicationTypes'
    BY <1>0, <2>1 DEF PublicationTypes
  <2>3. /\ \A p \in Objects : objectFile[p] = "whole" => objectFile'[p] = "whole"
        /\ objectFile'[o] = "whole" /\ done'[w] = done[w] \cup {o}
        /\ \A v \in Writers \ {w} : open'[v] = open[v] /\ done'[v] = done[v]
    BY <1>0, <2>1 DEF PublicationTypes
  <2>4. ~websiteWrote => NothingDone(w)' /\ DoneIsWhole(w)'
    BY <1>0, <2>1, <2>3 DEF NothingDone, DoneIsWhole
  <2> QED BY <2>1, <2>2, <2>3, <2>4, OneMoves
<1> QED BY <1>1, <1>2, <1>3, <1>4, <1>5, <1>6

\* The steps of website builds and of stagings.
LEMMA WebsiteStepKeeps ==
  ASSUME PublicationInv, NEW w \in Writers
  PROVE  /\ PruneUnchangedBundle(w) => PublicationInv'
         /\ \A o \in Objects \cup {CatalogJson} :
              OpenOutput(w, o) \/ FillOutput(w, o) => PublicationInv'
<1> USE DEF Sources
<1>0. /\ PublicationTypes
      /\ ~websiteWrote => NothingDone(w) /\ DoneIsWhole(w)
  BY DEF PublicationInv
<1>1. ASSUME PruneUnchangedBundle(w) PROVE PublicationInv'
  <2> DEFINE same == {o \in Artifacts(captured[w]) : objectFile[o] = "whole"}
                     \cup {CatalogJson : j \in {catalogJson}
                                  \intersect {[state |-> "whole", of |-> captured[w]]}}
  <2>1. /\ writer[w] = "emitted" /\ done' = [done EXCEPT ![w] = same]
        /\ writer' = [writer EXCEPT ![w] = "bundled"]
        /\ UNCHANGED <<objectFile, catalogJson, channelFile, websiteWrote, captured, open,
                       releaseText>>
    BY <1>1 DEF PruneUnchangedBundle, To
  <2>2. captured[w] \in Catalogs
    BY <1>0 DEF PublicationTypes
  <2>3. same \in SUBSET (Objects \cup {CatalogJson})
    BY <2>2, ArtifactsAreObjects
  <2> HIDE DEF same
  <2>4. PublicationTypes'
    BY <1>0, <2>1, <2>3 DEF PublicationTypes
  <2>5. /\ writer'[w] = "bundled"
        /\ \A v \in Writers \ {w} : writer'[v] = writer[v] /\ done'[v] = done[v]
    BY <1>0, <2>1 DEF PublicationTypes
  <2>6. ~websiteWrote => NothingDone(w)' /\ DoneIsWhole(w)'
    BY <1>0, <2>1, <2>5 DEF NothingDone, DoneIsWhole
  <2> QED BY <2>1, <2>4, <2>5, <2>6, OneMoves
<1>2. ASSUME NEW o \in Objects \cup {CatalogJson}, OpenOutput(w, o) PROVE PublicationInv'
  <2>1. /\ open' = [open EXCEPT ![w] = open[w] \cup {o}] /\ websiteWrote'
        /\ \/ /\ catalogJson' = [catalogJson EXCEPT !.state = "partial"]
              /\ UNCHANGED objectFile
           \/ /\ o # CatalogJson /\ objectFile' = [objectFile EXCEPT ![o] = "partial"]
              /\ UNCHANGED catalogJson
        /\ UNCHANGED <<channelFile, writer, captured, done, releaseText>>
    BY <1>2 DEF OpenOutput
  <2>2. /\ catalogJson' \in [state : {"absent", "partial", "whole"}, of : Catalogs]
        /\ objectFile' \in [Objects -> {"absent", "partial", "whole"}]
    BY <1>0, <2>1 DEF PublicationTypes
  <2>3. open' \in [Writers -> SUBSET (Objects \cup {CatalogJson})]
    BY <1>0, <2>1 DEF PublicationTypes
  <2> QED BY <1>0, <2>1, <2>2, <2>3 DEF PublicationInv, PublicationTypes
<1>3. ASSUME NEW o \in Objects \cup {CatalogJson}, FillOutput(w, o) PROVE PublicationInv'
  <2>1. /\ writer[w] = "bundled" /\ o \in open[w]
        /\ open' = [open EXCEPT ![w] = open[w] \ {o}]
        /\ done' = [done EXCEPT ![w] = done[w] \cup {o}]
        /\ \/ /\ catalogJson' = [state |-> "whole", of |-> captured[w]]
              /\ UNCHANGED objectFile
           \/ /\ o # CatalogJson /\ objectFile' = [objectFile EXCEPT ![o] = "whole"]
              /\ UNCHANGED catalogJson
        /\ UNCHANGED <<channelFile, websiteWrote, writer, captured, releaseText>>
    BY <1>3 DEF FillOutput, Done
  <2>2. websiteWrote
    BY <1>0, <2>1 DEF NothingDone
  <2>3. captured[w] \in Catalogs
    BY <1>0 DEF PublicationTypes
  <2>4. /\ catalogJson' \in [state : {"absent", "partial", "whole"}, of : Catalogs]
        /\ objectFile' \in [Objects -> {"absent", "partial", "whole"}]
    BY <1>0, <2>1, <2>3 DEF PublicationTypes
  <2>5. /\ open' \in [Writers -> SUBSET (Objects \cup {CatalogJson})]
        /\ done' \in [Writers -> SUBSET (Objects \cup {CatalogJson})]
    BY <1>0, <2>1 DEF PublicationTypes
  <2> QED BY <1>0, <2>1, <2>2, <2>4, <2>5 DEF PublicationInv, PublicationTypes
<1> QED BY <1>1, <1>2, <1>3

\* A staging preserves the invariant: a channel is linked to a complete catalog only.
LEMMA StagingStepKeeps ==
  ASSUME PublicationInv, NEW s \in Stagings
  PROVE  /\ ReadCatalogJson(s) => PublicationInv'
         /\ \A o \in Objects : RequireComplete(s, o) => PublicationInv'
         /\ \A n \in Channels : StageChannel(s, n) => PublicationInv'
<1> USE DEF Sources
<1>0. /\ PublicationTypes /\ s \in Writers
      /\ ~websiteWrote => NothingDone(s) /\ DoneIsWhole(s) /\ PublishedIsComplete
  BY DEF PublicationInv, Writers
<1>1. ASSUME ReadCatalogJson(s) PROVE PublicationInv'
  <2>1. /\ UNCHANGED <<objectFile, catalogJson, channelFile, websiteWrote, releaseText>>
        /\ \/ Ends(s)
           \/ /\ catalogJson.state = "whole"
              /\ captured' = [captured EXCEPT ![s] = catalogJson.of]
              /\ writer' = [writer EXCEPT ![s] = "validating"]
              /\ UNCHANGED <<open, done>>
    BY <1>1 DEF ReadCatalogJson, To
  <2>2. CASE Ends(s)
    <3>1. catalogJson' = catalogJson
      BY <2>1
    <3> QED BY <1>0, <2>1, <2>2, <3>1, EndingKeeps DEF PublicationTypes
  <2>3. CASE ~Ends(s)
    <3>1. PublicationTypes'
      BY <1>0, <2>1, <2>3 DEF PublicationTypes
    <3>2. /\ writer'[s] = "validating" /\ captured'[s] = catalogJson.of
          /\ \A v \in Writers \ {s} : writer'[v] = writer[v] /\ captured'[v] = captured[v]
      BY <1>0, <2>1, <2>3 DEF PublicationTypes
    <3>3. ~websiteWrote => Complete(catalogJson.of)
      BY <1>0, <2>1, <2>3 DEF PublishedIsComplete
    <3>4. ~websiteWrote => Complete(captured[s])'
      BY <2>1, <3>2, <3>3 DEF Complete
    <3>5. ~websiteWrote => NothingDone(s)' /\ DoneIsWhole(s)'
      BY <3>2, <3>4 DEF NothingDone, DoneIsWhole
    <3> QED BY <1>0, <2>1, <2>3, <3>1, <3>2, <3>5, OneMoves
  <2> QED BY <2>2, <2>3
<1>2. ASSUME NEW o \in Objects, RequireComplete(s, o) PROVE PublicationInv'
  <2>1. /\ UNCHANGED <<objectFile, catalogJson, channelFile, websiteWrote, releaseText>>
        /\ writer[s] = "validating"
        /\ \/ Ends(s)
           \/ /\ done' = [done EXCEPT ![s] = done[s] \cup {o}]
              /\ UNCHANGED <<writer, captured, open>>
    BY <1>2 DEF RequireComplete, Done
  <2>2. CASE Ends(s)
    <3>1. catalogJson' = catalogJson
      BY <2>1
    <3> QED BY <1>0, <2>1, <2>2, <3>1, EndingKeeps DEF PublicationTypes
  <2>3. CASE ~Ends(s)
    <3>1. PublicationTypes'
      BY <1>0, <2>1, <2>3 DEF PublicationTypes
    <3>2. \A v \in Writers \ {s} : done'[v] = done[v]
      BY <1>0, <2>1, <2>3 DEF PublicationTypes
    <3>3. Complete(captured[s]) => Complete(captured[s])'
      BY <2>1, <2>3 DEF Complete
    <3>4. ~websiteWrote => NothingDone(s)' /\ DoneIsWhole(s)'
      BY <1>0, <2>1, <2>3, <3>3 DEF NothingDone, DoneIsWhole
    <3> QED BY <1>0, <2>1, <2>3, <3>1, <3>2, <3>4, OneMoves
  <2> QED BY <2>2, <2>3
<1>3. ASSUME NEW n \in Channels, StageChannel(s, n) PROVE PublicationInv'
  <2>1. /\ writer[s] = "validating" /\ Ends(s)
        /\ channelFile' = [channelFile EXCEPT ![n] = {captured[s]}]
        /\ UNCHANGED <<objectFile, catalogJson, websiteWrote, releaseText>>
    BY <1>3 DEF StageChannel
  <2>2. /\ writer' = [writer EXCEPT ![s] = "ended"]
        /\ captured' = [captured EXCEPT ![s] = FirstCatalog]
        /\ open' = [open EXCEPT ![s] = {}] /\ done' = [done EXCEPT ![s] = {}]
    BY <2>1 DEF Ends, To
  <2>3. FirstCatalog \in Catalogs /\ captured[s] \in Catalogs
    BY <1>0, PublicationAssumption DEF FirstCatalog, Catalogs, PublicationTypes
  <2>4. PublicationTypes'
    BY <1>0, <2>1, <2>2, <2>3 DEF PublicationTypes
  <2>5. /\ writer'[s] = "ended"
        /\ \A v \in Writers \ {s} : /\ writer'[v] = writer[v] /\ captured'[v] = captured[v]
                                    /\ open'[v] = open[v] /\ done'[v] = done[v]
        /\ \A m \in Channels : \A c \in channelFile'[m] :
             c \in channelFile[m] \/ c = captured[s]
    BY <1>0, <2>1, <2>2 DEF PublicationTypes
  <2>6. \A c : Complete(c) => Complete(c)'
    BY <2>1 DEF Complete, Artifacts, Indexes, Datasets, Catalog, Object
  <2>7. ~websiteWrote => Complete(captured[s])
    BY <1>0, <2>1 DEF DoneIsWhole
  <2>8. ~websiteWrote => \A m \in Channels : \A c \in channelFile'[m] :
                           c \in channelFile[m] \/ Complete(c)'
    BY <2>5, <2>6, <2>7
  <2>9. NothingDone(s)' /\ DoneIsWhole(s)'
    BY <2>5 DEF NothingDone, DoneIsWhole
  <2> QED BY <1>0, <2>1, <2>4, <2>5, <2>8, <2>9, OneMoves
<1> QED BY <1>1, <1>2, <1>3

\* Every step of a generator, a staging or the website build preserves the invariant.
LEMMA PublicationStepKeeps ==
  ASSUME PublicationInv, [PublicationNext]_publicationVars PROVE PublicationInv'
<1>1. ASSUME UNCHANGED <<objectFile, catalogJson, channelFile, websiteWrote, writer, captured,
                         open, done>>,
             releaseText' \in Catalogs
      PROVE  PublicationInv'
  BY <1>1 DEF PublicationInv, PublicationTypes, NothingDone, DoneIsWhole,
              PublishedIsComplete, Complete
<1>2. CASE UNCHANGED publicationVars
  BY <1>1, <1>2 DEF publicationVars, PublicationInv, PublicationTypes
<1>3. ASSUME NEW r \in DatedReleases, EditRelease(r) PROVE PublicationInv'
  <2>1. releaseText' \in Catalogs
    BY <1>3 DEF EditRelease, PublicationInv, PublicationTypes, Catalogs
  <2> QED BY <1>1, <1>3, <2>1 DEF EditRelease
<1>4. Publishers \subseteq Writers /\ WebsiteBuilds \subseteq Writers
  BY DEF Writers
<1> QED BY <1>2, <1>3, <1>4, GeneratorStepKeeps, WebsiteStepKeeps, StagingStepKeeps
        DEF PublicationNext

-----------------------------------------------------------------------------
(* The development candidate of the server.  Every check that the          *)
(* verification makes is true of files that nothing changes while it runs: *)
(* an archive is published under a name that is free and removed only      *)
(* between two commands, and no other command runs.                        *)

\* The inductive invariant.  Fields are where the operators of the model look for them.
CandidateTypes ==
  /\ DOMAIN archiver = Archivers
  /\ \A a \in Archivers : /\ DOMAIN archiver[a] = {"stage", "content", "at"}
                          /\ archiver[a].at \in Nat /\ archiver[a].at <= removals
  /\ removals \in Nat
  /\ DOMAIN assembly = {"stage", "version", "metadata", "read", "packed", "hashed", "pending"}

\* The generation has no archive to write.
PendingIsOwn ==
  assembly.stage \in {"documents", "sboms"} =>
    \A n \in assembly.pending : n.kind \notin Targets

\* What the verification has found so far is still so.
ManifestFound ==
  assembly.stage \in {"registry", "parse", "checksums", "archives", "verified"} =>
    /\ assembly.metadata.bundle.version = assembly.version
    /\ Expected(assembly.version) \subseteq DOMAIN release
SumsFound ==
  assembly.stage \in {"checksums", "archives", "verified"} =>
    /\ assembly.hashed = release[Sums]
    /\ \A n \in Checksummed(assembly.version) :
         \/ n \in assembly.pending /\ assembly.stage = "checksums"
         \/ assembly.hashed[n] = release[n]
ProductFound ==
  assembly.stage \in {"archives", "verified"} =>
    /\ IsTheProduct(release[Tarball(assembly.version)])
    /\ \A n \in Archives(assembly.version) :
         n \in assembly.pending \/ IsTheProduct(release[n])
SbomsFound ==
  assembly.stage = "verified" =>
    /\ assembly.pending = {}
    /\ \A k \in Sboms : release[Named(k, assembly.version)] = ExpectedSbom(k)
Found == ManifestFound /\ SumsFound /\ ProductFound /\ SbomsFound

CandidateInv == CandidateTypes /\ PendingIsOwn /\ ReportedIsThere /\ Found

\* Files of a kind that are there stay as they are.
FilesKept(kinds) ==
  \A n \in DOMAIN release :
    n.kind \in kinds => n \in DOMAIN release' /\ release'[n] = release[n]
AllKept == \A n \in DOMAIN release : n \in DOMAIN release' /\ release'[n] = release[n]

\* Writing files leaves the others alone.
LEMMA WritingKeeps ==
  ASSUME NEW files, release' = Written(files)
  PROVE  /\ \A n \in DOMAIN release :
              n \notin DOMAIN files => n \in DOMAIN release' /\ release'[n] = release[n]
         /\ \A n \in DOMAIN files : n \in DOMAIN release' /\ release'[n] = files[n]
BY DEF Written

\* Names of different kinds are different names.
LEMMA NamesHaveKinds ==
  /\ \A kind, version : Named(kind, version).kind = kind
  /\ \A v : \A n \in Archives(v) : n.kind \in Targets
  /\ \A v : Archives(v) \cup {Tarball(v)} \subseteq Subjects(v)
  /\ \A v : Subjects(v) \subseteq Checksummed(v)
  /\ \A v : \A k \in Sboms : Named(k, v) \in Checksummed(v)
  /\ \A v : Checksummed(v) \subseteq Expected(v)
  /\ \A v : Sums \in Expected(v)
BY DEF Named, Archives, Tarball, Subjects, Checksummed, Expected, Sums

\* Reports stay true as long as no archive is removed or replaced.
LEMMA ReportsStay ==
  ASSUME ReportedIsThere, archiver' = archiver, removals' = removals, FilesKept(Targets)
  PROVE  ReportedIsThere'
<1>1. \A a \in Archivers : ArchiveName(a)' = ArchiveName(a) /\ ArchiveName(a).kind \in Targets
  BY NamesHaveKinds DEF ArchiveName, Targets, Named
<1> QED BY <1>1 DEF ReportedIsThere, FilesKept

\* So does what the verification has found, when the command does nothing meanwhile.
LEMMA FindingsStay ==
  ASSUME PendingIsOwn, Found, assembly' = assembly, AllKept
  PROVE  PendingIsOwn' /\ Found'
<1>0. PendingIsOwn'
  BY DEF PendingIsOwn
<1> DEFINE v == assembly.version
<1>1. ManifestFound'
  BY DEF Found, ManifestFound, AllKept
<1>2. \A n \in Expected(v) :
        assembly.stage \in {"registry", "parse", "checksums", "archives", "verified"}
          => n \in DOMAIN release /\ release'[n] = release[n]
  BY DEF Found, ManifestFound, AllKept
<1>3. SumsFound'
  BY <1>2, NamesHaveKinds DEF Found, SumsFound
<1>4. ProductFound'
  BY <1>2, NamesHaveKinds DEF Found, ProductFound, IsTheProduct
<1>5. SbomsFound'
  BY <1>2, NamesHaveKinds DEF Found, SbomsFound, ExpectedSbom, Described
<1> QED BY <1>0, <1>1, <1>3, <1>4, <1>5 DEF Found

\* A command that is not verifying has found nothing.
LEMMA NothingFound ==
  ASSUME assembly.stage \notin {"registry", "parse", "checksums", "archives", "verified"}
  PROVE  Found
BY DEF Found, ManifestFound, SumsFound, ProductFound, SbomsFound

-----------------------------------------------------------------------------
\* A run of the archive build that has not finished, or starts again, changes no report.
LEMMA UnfinishedRunKeeps ==
  ASSUME CandidateInv, NEW a \in Archivers, NEW next,
         archiver' = [archiver EXCEPT ![a] = next],
         DOMAIN next = {"stage", "content", "at"},
         next.at \in {0, archiver[a].at}, next.stage \notin {"report", "done"},
         UNCHANGED <<removals, release, assembly>>
  PROVE  CandidateInv'
<1>1. CandidateTypes'
  BY DEF CandidateInv, CandidateTypes
<1>2. \A b \in Archivers : archiver'[b] = IF b = a THEN next ELSE archiver[b]
  BY DEF CandidateInv, CandidateTypes
<1>3. ReportedIsThere'
  BY <1>2 DEF CandidateInv, ReportedIsThere, ArchiveName
<1>4. PendingIsOwn' /\ Found'
  BY FindingsStay DEF CandidateInv, AllKept
<1> QED BY <1>1, <1>3, <1>4 DEF CandidateInv

\* A run of the archive build.
LEMMA ArchiverStepKeeps ==
  ASSUME CandidateInv, NEW a \in Archivers, ArchiverNext(a)
  PROVE  CandidateInv'
<1> USE CandidateAssumption
<1>1. assembly' = assembly /\ removals' = removals
  BY DEF ArchiverNext, BeginArchive, DownloadRuntime, ReadBundle, CreateArchive,
         PublishArchive, NameIsTaken, AcceptExisting, Report, ArchiverFails, ArchiverReads,
         ArchiverGoes
<1>2. CASE \/ BeginArchive(a) \/ DownloadRuntime(a) \/ ReadBundle(a) \/ CreateArchive(a)
           \/ NameIsTaken(a) \/ ArchiverFails(a)
  <2>1. CASE BeginArchive(a)
    <3> DEFINE next == [NewArchiver EXCEPT !.stage = "download",
                                       !.content.version = VersionOf[tree]]
    <3>1. archiver' = [archiver EXCEPT ![a] = next] /\ release' = release
      BY <2>1 DEF BeginArchive, ArchiverReads, ArchiverGoes
    <3>2. /\ DOMAIN next = {"stage", "content", "at"}
          /\ next.at \in {0, archiver[a].at} /\ next.stage \notin {"report", "done"}
      BY DEF CandidateInv, CandidateTypes, NewArchiver
    <3> HIDE DEF next
    <3> QED BY <1>1, <3>1, <3>2, UnfinishedRunKeeps
  <2>2. CASE DownloadRuntime(a)
    <3> DEFINE next == [archiver[a] EXCEPT !.stage = "build"]
    <3>1. archiver' = [archiver EXCEPT ![a] = next] /\ release' = release
      BY <2>2 DEF DownloadRuntime, ArchiverGoes
    <3>2. /\ DOMAIN next = {"stage", "content", "at"}
          /\ next.at \in {0, archiver[a].at} /\ next.stage \notin {"report", "done"}
      BY DEF CandidateInv, CandidateTypes, NewArchiver
    <3> HIDE DEF next
    <3> QED BY <1>1, <3>1, <3>2, UnfinishedRunKeeps
  <2>3. CASE ReadBundle(a)
    <3> DEFINE next == [archiver[a] EXCEPT !.stage = "worker",
                                       !.content.bundle = outputs.bundle]
    <3>1. archiver' = [archiver EXCEPT ![a] = next] /\ release' = release
      BY <2>3 DEF ReadBundle, ArchiverGoes
    <3>2. /\ DOMAIN next = {"stage", "content", "at"}
          /\ next.at \in {0, archiver[a].at} /\ next.stage \notin {"report", "done"}
      BY DEF CandidateInv, CandidateTypes, NewArchiver
    <3> HIDE DEF next
    <3> QED BY <1>1, <3>1, <3>2, UnfinishedRunKeeps
  <2>4. CASE CreateArchive(a)
    <3> DEFINE next == [archiver[a] EXCEPT !.stage = "publish",
                                       !.content.worker = outputs.worker]
    <3>1. archiver' = [archiver EXCEPT ![a] = next] /\ release' = release
      BY <2>4 DEF CreateArchive, ArchiverReads, ArchiverGoes
    <3>2. /\ DOMAIN next = {"stage", "content", "at"}
          /\ next.at \in {0, archiver[a].at} /\ next.stage \notin {"report", "done"}
      BY DEF CandidateInv, CandidateTypes, NewArchiver
    <3> HIDE DEF next
    <3> QED BY <1>1, <3>1, <3>2, UnfinishedRunKeeps
  <2>5. CASE NameIsTaken(a)
    <3> DEFINE next == [archiver[a] EXCEPT !.stage = "compare"]
    <3>1. archiver' = [archiver EXCEPT ![a] = next] /\ release' = release
      BY <2>5 DEF NameIsTaken, ArchiverReads, ArchiverGoes
    <3>2. /\ DOMAIN next = {"stage", "content", "at"}
          /\ next.at \in {0, archiver[a].at} /\ next.stage \notin {"report", "done"}
      BY DEF CandidateInv, CandidateTypes, NewArchiver
    <3> HIDE DEF next
    <3> QED BY <1>1, <3>1, <3>2, UnfinishedRunKeeps
  <2>6. CASE ArchiverFails(a)
    <3> DEFINE next == NewArchiver
    <3>1. archiver' = [archiver EXCEPT ![a] = next] /\ release' = release
      BY <2>6 DEF ArchiverFails
    <3>2. /\ DOMAIN next = {"stage", "content", "at"}
          /\ next.at \in {0, archiver[a].at} /\ next.stage \notin {"report", "done"}
      BY DEF CandidateInv, CandidateTypes, NewArchiver
    <3> HIDE DEF next
    <3> QED BY <1>1, <3>1, <3>2, UnfinishedRunKeeps
  <2> QED BY <1>2, <2>1, <2>2, <2>3, <2>4, <2>5, <2>6
<1>3. CASE PublishArchive(a)
  <2> DEFINE own == ArchiveName(a)
  <2>1. /\ own \notin DOMAIN release
        /\ archiver' = [archiver EXCEPT ![a] = [archiver[a] EXCEPT !.stage = "report",
                                                                   !.at = removals]]
        /\ release' = Written([n \in {own} |-> archiver[a].content])
    BY <1>3 DEF PublishArchive, NameIsFree, ArchiverGoes
  <2>2. /\ \A n \in DOMAIN release : n \in DOMAIN release' /\ release'[n] = release[n]
        /\ own \in DOMAIN release' /\ release'[own] = archiver[a].content
    BY <2>1, WritingKeeps
  <2>3. /\ archiver'[a].content = archiver[a].content
        /\ \A b \in Archivers \ {a} : archiver'[b] = archiver[b]
    BY <2>1 DEF CandidateInv, CandidateTypes
  <2>4. CandidateTypes'
    BY <1>1, <2>1 DEF CandidateInv, CandidateTypes
  <2>5. ReportedIsThere'
    BY <1>1, <2>2, <2>3 DEF CandidateInv, ReportedIsThere, ArchiveName
  <2>6. PendingIsOwn' /\ Found'
    BY <1>1, <2>2, FindingsStay DEF CandidateInv, AllKept
  <2> QED BY <2>4, <2>5, <2>6 DEF CandidateInv
<1>4. CASE AcceptExisting(a)
  <2>1. /\ ArchiveName(a) \in DOMAIN release /\ release[ArchiveName(a)] = archiver[a].content
        /\ archiver' = [archiver EXCEPT ![a] = [archiver[a] EXCEPT !.stage = "report",
                                                                   !.at = removals]]
        /\ release' = release
    BY <1>4 DEF AcceptExisting, ArchiverReads, ArchiverGoes
  <2>2. /\ archiver'[a].content = archiver[a].content
        /\ \A b \in Archivers \ {a} : archiver'[b] = archiver[b]
    BY <2>1 DEF CandidateInv, CandidateTypes
  <2>3. CandidateTypes'
    BY <1>1, <2>1 DEF CandidateInv, CandidateTypes
  <2>4. ReportedIsThere'
    BY <1>1, <2>1, <2>2 DEF CandidateInv, ReportedIsThere, ArchiveName
  <2>5. PendingIsOwn' /\ Found'
    BY <1>1, <2>1, FindingsStay DEF CandidateInv, AllKept
  <2> QED BY <2>3, <2>4, <2>5 DEF CandidateInv
<1>5. CASE Report(a)
  <2>1. /\ archiver' = [archiver EXCEPT ![a] = [archiver[a] EXCEPT !.stage = "done"]]
        /\ archiver[a].stage = "report" /\ release' = release
    BY <1>5 DEF Report, ArchiverReads, ArchiverGoes
  <2>2. /\ archiver'[a].content = archiver[a].content /\ archiver'[a].at = archiver[a].at
        /\ \A b \in Archivers \ {a} : archiver'[b] = archiver[b]
    BY <2>1 DEF CandidateInv, CandidateTypes
  <2>3. CandidateTypes'
    BY <1>1, <2>1 DEF CandidateInv, CandidateTypes
  <2>4. ReportedIsThere'
    BY <1>1, <2>1, <2>2 DEF CandidateInv, ReportedIsThere, ArchiveName
  <2>5. PendingIsOwn' /\ Found'
    BY <1>1, <2>1, FindingsStay DEF CandidateInv, AllKept
  <2> QED BY <2>3, <2>4, <2>5 DEF CandidateInv
<1> QED BY <1>2, <1>3, <1>4, <1>5 DEF ArchiverNext

\* A command of the maintainer.
LEMMA AssemblyStepKeeps ==
  ASSUME CandidateInv, AssemblyNext
  PROVE  CandidateInv'
<1> USE CandidateAssumption
<1> DEFINE v == assembly.version
           Fields == {"stage", "version", "metadata", "read", "packed", "hashed", "pending"}
<1>0. \A s : DOMAIN Resting(s) = Fields /\ Resting(s).stage = s
  BY DEF Resting
<1>1. archiver' = archiver /\ removals' = removals
  BY DEF AssemblyNext, PackBegins, PackBundle, PackWorker, CommandBegins, ReadSources,
         ReadMetadata, InspectStaging, WriteDocument, HashSubjects, WriteSbom, Writes, HashAll,
         WriteSums, RequireManifest, RequireRegistry, ParseSums, CheckSum, CheckArchive,
         CheckTarball, CheckSboms, AssemblyFails, AssemblyReads, AssemblyGoes
<1>2. DOMAIN assembly' = Fields
  BY <1>0
     DEF CandidateInv, CandidateTypes, AssemblyNext, PackBegins, PackBundle, PackWorker,
         CommandBegins, ReadSources, ReadMetadata, InspectStaging, WriteDocument, HashSubjects,
         WriteSbom, Writes, HashAll, WriteSums, RequireManifest, RequireRegistry, ParseSums,
         CheckSum, CheckArchive, CheckTarball, CheckSboms, AssemblyFails, AssemblyReads,
         AssemblyGoes
<1>3. CandidateTypes'
  BY <1>1, <1>2 DEF CandidateInv, CandidateTypes
<1>4. \A kinds : kinds \cap Targets = {} => \A n \in NamesOf(kinds) : n.kind \notin Targets
  BY DEF NamesOf, Named
<1>5. Documents \cap Targets = {} /\ Sboms \cap Targets = {}
  BY DEF CandidateAssumption
<1>6. ASSUME NEW files, release' = Written(files),
             \A n \in DOMAIN files : n.kind \notin Targets
      PROVE  ReportedIsThere'
  <2>1. FilesKept(Targets)
    BY <1>6, WritingKeeps DEF FilesKept
  <2> QED BY <1>1, <2>1, ReportsStay DEF CandidateInv
<1>7. ASSUME assembly'.stage \notin {"registry", "parse", "checksums", "archives", "verified"}
      PROVE  Found'
  BY <1>7 DEF Found, ManifestFound, SumsFound, ProductFound, SbomsFound
<1>8. CASE PackWorker
  <2> DEFINE files == [n \in {Tarball(v)} |->
                         [assembly.packed EXCEPT !.worker = outputs.worker,
                                                 !.version = VersionOf[tree]]]
  <2>1. release' = Written(files) /\ assembly'.stage = "idle"
    BY <1>0, <1>8 DEF PackWorker, AssemblyGoes
  <2>2. \A n \in DOMAIN files : n.kind \notin Targets
    BY DEF Tarball, Named, CandidateAssumption
  <2> HIDE DEF files
  <2>3. PendingIsOwn'
    BY <2>1 DEF PendingIsOwn
  <2> QED BY <1>3, <1>6, <1>7, <2>1, <2>2, <2>3 DEF CandidateInv
<1>9. CASE WriteSums
  <2> DEFINE files == [n \in {Sums} |-> assembly.hashed]
  <2>1. release' = Written(files) /\ assembly'.stage = "idle"
    BY <1>0, <1>9 DEF WriteSums, AssemblyGoes
  <2>2. \A n \in DOMAIN files : n.kind \notin Targets
    BY DEF Sums, Named, CandidateAssumption
  <2> HIDE DEF files
  <2>3. PendingIsOwn'
    BY <2>1 DEF PendingIsOwn
  <2> QED BY <1>3, <1>6, <1>7, <2>1, <2>2, <2>3 DEF CandidateInv
<1>10. ASSUME NEW n \in assembly.pending, NEW sort \in {"documents", "sboms"}, NEW content,
             Writes(n, sort, content)
      PROVE  CandidateInv'
  <2> DEFINE files == [m \in {n} |-> content]
  <2>1. /\ release' = Written(files) /\ assembly.stage = sort
        /\ assembly'.stage = sort /\ assembly'.pending = assembly.pending \ {n}
    BY <1>10 DEF CandidateInv, CandidateTypes, Writes, AssemblyGoes
  <2>2. \A m \in DOMAIN files : m.kind \notin Targets
    BY <2>1 DEF CandidateInv, PendingIsOwn
  <2> HIDE DEF files
  <2>3. PendingIsOwn'
    BY <2>1 DEF CandidateInv, PendingIsOwn
  <2> QED BY <1>3, <1>6, <1>7, <2>1, <2>2, <2>3 DEF CandidateInv
<1>11. CASE \/ PackBegins \/ PackBundle \/ CommandBegins("generate") \/ CommandBegins("verify")
            \/ ReadSources \/ ReadMetadata \/ InspectStaging \/ HashSubjects \/ HashAll
  <2>1. /\ release' = release
        /\ assembly'.stage \in {"pack", "pack worker", "generate", "verify", "documents",
                                "sboms", "sums", "idle"}
    BY <1>0, <1>11
       DEF CandidateInv, CandidateTypes, PackBegins, PackBundle, CommandBegins, ReadSources,
           ReadMetadata, InspectStaging, HashSubjects, HashAll, AssemblyReads,
           AssemblyGoes
  <2>2. PendingIsOwn'
    <3>1. \/ assembly'.stage \notin {"documents", "sboms"}
          \/ assembly'.pending \in {NamesOf(Documents), NamesOf(Sboms)}
      BY ZenonT(40), <1>0, <1>11
         DEF CandidateInv, CandidateTypes, PackBegins, PackBundle, CommandBegins, ReadSources,
             ReadMetadata, InspectStaging, HashSubjects, HashAll, AssemblyReads,
             AssemblyGoes
    <3> QED BY <1>4, <1>5, <3>1 DEF PendingIsOwn
  <2> QED BY <1>1, <1>3, <1>7, <2>1, <2>2, ReportsStay DEF CandidateInv, FilesKept
<1>12. CASE \/ RequireManifest \/ RequireRegistry \/ ParseSums \/ CheckTarball \/ CheckSboms
            \/ \E n \in assembly.pending : CheckSum(n) \/ CheckArchive(n)
  <2>1. release' = release /\ assembly'.version = v /\ assembly'.metadata = assembly.metadata
    BY <1>12
       DEF CandidateInv, CandidateTypes, RequireManifest, RequireRegistry, ParseSums,
           CheckTarball, CheckSboms, CheckSum, CheckArchive, AssemblyReads, AssemblyGoes
  <2>2. ReportedIsThere'
    BY <1>1, <2>1, ReportsStay DEF CandidateInv, FilesKept
  <2>3. ASSUME RequireManifest PROVE Found'
    <3>1. /\ assembly'.stage = "registry" /\ assembly.metadata.bundle.version = v
          /\ DOMAIN release = Expected(v)
      BY <2>3 DEF CandidateInv, CandidateTypes, RequireManifest, OneVersion, AssemblyReads,
                  AssemblyGoes
    <3> QED BY <2>1, <3>1 DEF Found, ManifestFound, SumsFound, ProductFound, SbomsFound
  <2>4. ASSUME RequireRegistry PROVE Found'
    <3>1. assembly.stage = "registry" /\ assembly'.stage = "parse"
      BY <2>4 DEF CandidateInv, CandidateTypes, RequireRegistry, AssemblyReads, AssemblyGoes
    <3> QED BY <2>1, <3>1
            DEF CandidateInv, Found, ManifestFound, SumsFound, ProductFound, SbomsFound
  <2>5. ASSUME ParseSums PROVE Found'
    <3>1. /\ assembly.stage = "parse" /\ assembly'.stage = "checksums"
          /\ assembly'.hashed = release[Sums] /\ assembly'.pending = Checksummed(v)
      BY <2>5 DEF CandidateInv, CandidateTypes, ParseSums, AssemblyReads, AssemblyGoes
    <3> QED BY <2>1, <3>1
            DEF CandidateInv, Found, ManifestFound, SumsFound, ProductFound, SbomsFound
  <2>6. ASSUME NEW n \in assembly.pending, CheckSum(n)
        PROVE  Found'
    <3>1. /\ assembly.stage = "checksums" /\ assembly'.stage = "checksums"
          /\ assembly'.hashed = assembly.hashed /\ assembly'.pending = assembly.pending \ {n}
          /\ release[n] = assembly.hashed[n]
      BY <2>6 DEF CandidateInv, CandidateTypes, CheckSum, AssemblyReads, AssemblyGoes
    <3> QED BY <2>1, <3>1
            DEF CandidateInv, Found, ManifestFound, SumsFound, ProductFound, SbomsFound
  <2>7. ASSUME CheckTarball PROVE Found'
    <3>1. /\ assembly.stage = "checksums" /\ assembly'.stage = "archives"
          /\ assembly'.hashed = assembly.hashed /\ assembly'.pending = Archives(v)
          /\ assembly.pending = {} /\ IsTheProduct(release[Tarball(v)])
      BY <2>7 DEF CandidateInv, CandidateTypes, CheckTarball, AssemblyReads, AssemblyGoes
    <3> QED BY <2>1, <3>1
            DEF CandidateInv, Found, ManifestFound, SumsFound, ProductFound, SbomsFound,
                IsTheProduct
  <2>8. ASSUME NEW n \in assembly.pending, CheckArchive(n)
        PROVE  Found'
    <3>1. /\ assembly.stage = "archives" /\ assembly'.stage = "archives"
          /\ assembly'.hashed = assembly.hashed /\ assembly'.pending = assembly.pending \ {n}
          /\ IsTheProduct(release[n])
      BY <2>8 DEF CandidateInv, CandidateTypes, CheckArchive, AssemblyReads, AssemblyGoes
    <3> QED BY <2>1, <3>1
            DEF CandidateInv, Found, ManifestFound, SumsFound, ProductFound, SbomsFound,
                IsTheProduct
  <2>9. ASSUME CheckSboms PROVE Found'
    <3>1. /\ assembly.stage = "archives" /\ assembly'.stage = "verified"
          /\ assembly'.hashed = assembly.hashed /\ assembly'.pending = assembly.pending
          /\ assembly.pending = {}
          /\ \A k \in Sboms : release[Named(k, v)] = ExpectedSbom(k)
      BY <2>9 DEF CandidateInv, CandidateTypes, CheckSboms, AssemblyReads, AssemblyGoes
    <3> QED BY <2>1, <3>1
            DEF CandidateInv, Found, ManifestFound, SumsFound, ProductFound, SbomsFound,
                IsTheProduct, ExpectedSbom, Described
  <2>10. PendingIsOwn'
    <3>1. assembly'.stage \notin {"documents", "sboms"}
      BY <1>12
         DEF CandidateInv, CandidateTypes, RequireManifest, RequireRegistry, ParseSums,
             CheckTarball, CheckSboms, CheckSum, CheckArchive, AssemblyReads, AssemblyGoes
    <3> QED BY <3>1 DEF PendingIsOwn
  <2> QED BY <1>3, <1>12, <2>2, <2>3, <2>4, <2>5, <2>6, <2>7, <2>8, <2>9, <2>10
          DEF CandidateInv
<1>13. CASE AssemblyFails
  <2>1. PICK names \in SUBSET BeingWritten :
          release' = Written([n \in names |-> Partial(n.kind)])
    BY <1>13 DEF AssemblyFails
  <2> DEFINE files == [n \in names |-> Partial(n.kind)]
  <2>2. assembly'.stage = "idle"
    BY <1>0, <1>13 DEF AssemblyFails
  <2>3. Sums.kind \notin Targets /\ Tarball(v).kind \notin Targets
    BY DEF Sums, Tarball, Named, CandidateAssumption
  <2>4. \A n \in BeingWritten : n.kind \notin Targets
    BY <2>3 DEF BeingWritten, CandidateInv, PendingIsOwn
  <2>5. release' = Written(files) /\ DOMAIN files = names
    BY <2>1
  <2>6. \A n \in DOMAIN files : n.kind \notin Targets
    BY <2>4, <2>5
  <2> HIDE DEF files
  <2>7. PendingIsOwn'
    BY <2>2 DEF PendingIsOwn
  <2> QED BY <1>3, <1>6, <1>7, <2>2, <2>5, <2>6, <2>7 DEF CandidateInv
<1> QED BY <1>8, <1>9, <1>10, <1>11, <1>12, <1>13 DEF AssemblyNext, WriteDocument, WriteSbom

LEMMA CandidateStepKeeps == CandidateInv /\ [CandidateNext]_candidateVars => CandidateInv'
<1> SUFFICES ASSUME CandidateInv, [CandidateNext]_candidateVars
             PROVE  CandidateInv'
  OBVIOUS
<1>1. CASE EditTree \/ BundleStep \/ UNCHANGED candidateVars
  <2>1. UNCHANGED <<removals, release, archiver, assembly>>
    BY <1>1 DEF EditTree, BundleStep, candidateVars
  <2>2. CandidateTypes'
    BY <2>1 DEF CandidateInv, CandidateTypes
  <2>3. ReportedIsThere'
    BY <2>1, ReportsStay DEF CandidateInv, FilesKept
  <2>4. PendingIsOwn' /\ Found'
    BY <2>1, FindingsStay DEF CandidateInv, AllKept
  <2> QED BY <2>2, <2>3, <2>4 DEF CandidateInv
<1>2. CASE RemoveArchive
  <2>1. /\ removals' = removals + 1 /\ archiver' = archiver /\ assembly' = Resting("idle")
    BY <1>2 DEF RemoveArchive
  <2>2. CandidateTypes'
    BY <2>1 DEF CandidateInv, CandidateTypes, Resting
  <2>3. ReportedIsThere'
    BY <2>1 DEF CandidateInv, CandidateTypes, ReportedIsThere
  <2>4. PendingIsOwn' /\ Found'
    BY <2>1
       DEF PendingIsOwn, Found, ManifestFound, SumsFound, ProductFound, SbomsFound, Resting
  <2> QED BY <2>2, <2>3, <2>4 DEF CandidateInv
<1> QED BY <1>1, <1>2, ArchiverStepKeeps, AssemblyStepKeeps DEF CandidateNext

LEMMA CandidateStarts == CandidateInit => CandidateInv
<1> SUFFICES ASSUME CandidateInit PROVE CandidateInv
  OBVIOUS
<1>1. CandidateTypes
  BY DEF CandidateInit, CandidateTypes, NewArchiver, Resting
<1>2. ReportedIsThere
  BY DEF CandidateInit, ReportedIsThere, NewArchiver
<1>3. PendingIsOwn /\ Found
  BY DEF CandidateInit, PendingIsOwn, Found, ManifestFound, SumsFound, ProductFound,
         SbomsFound, Resting
<1> QED BY <1>1, <1>2, <1>3 DEF CandidateInv

\* The verification has found what it is for, once it has ended.
LEMMA CandidateInvIsTrue == CandidateInv => CandidateIsTrue
<1> SUFFICES ASSUME CandidateInv, assembly.stage = "verified"
             PROVE  VerifiedIsOneProduct
  BY DEF CandidateInv, CandidateIsTrue, VerifiedIsOneProduct
<1>1. \A n \in Subjects(assembly.version) :
        release[Named("release sbom", assembly.version)].files[n] = release[n]
  <2>1. release[Named("release sbom", assembly.version)]
          = Described(Subjects(assembly.version))
    BY DEF CandidateInv, Found, SbomsFound, ExpectedSbom, Sboms
  <2>2. \A n \in Subjects(assembly.version) : assembly.hashed[n] = release[n]
    BY NamesHaveKinds DEF CandidateInv, Found, SumsFound
  <2>3. Described(Subjects(assembly.version)).files
          = [n \in Subjects(assembly.version) |-> assembly.hashed[n]]
    BY DEF Described
  <2> QED BY <2>1, <2>2, <2>3
<1>2. \A n \in Archives(assembly.version) \cup {Tarball(assembly.version)} :
        IsTheProduct(release[n])
  BY DEF CandidateInv, Found, ProductFound, SbomsFound
<1> QED BY <1>1, <1>2
        DEF CandidateInv, Found, ManifestFound, SumsFound, VerifiedIsOneProduct, IsTheProduct

\* What a run of the archive build reports is in the release directory, and a candidate
\* that verifyUniversalOntologyMcpRelease.js accepts is one product, for every number of
\* runs and targets, whatever builds of the bundle go on.
THEOREM CandidatesAreTrue == CandidateSpec => []CandidateIsTrue
BY CandidateStarts, CandidateInvIsTrue, CandidateStepKeeps, PTL DEF CandidateSpec

-----------------------------------------------------------------------------
BuildsInv == FullInv /\ PublicationInv /\ CandidateInv

\* A receipt is true of the files it is there for, a catalog or a channel is complete until a
\* website build writes, and a verified candidate is one product: for every number of
\* builds, releases, texts and runs.
THEOREM OutputsAreTrue == BuildsSpec => []BuildsSafe
<1>1. BuildsInit => BuildsInv
  <2>1. FullInit => FullInv
    BY FullBuildAssumption
       DEF FullInit, FullInv, FullTypes, LockIsHeld, Running, RenderedIsBound, Texts, Stages,
           RequiredIsRendered, SealedIsWritten, ReceiptIsBound
  <2>2. PublicationInit => PublicationInv
    <3> SUFFICES ASSUME PublicationInit PROVE PublicationInv
      OBVIOUS
    <3>1. FirstCatalog \in Catalogs
      BY PublicationAssumption DEF FirstCatalog, Catalogs
    <3>2. PublicationTypes
      BY <3>1 DEF PublicationInit, PublicationTypes
    <3>3. \A w \in Writers : NothingDone(w) /\ DoneIsWhole(w)
      BY DEF PublicationInit, NothingDone, DoneIsWhole
    <3>4. PublishedIsComplete
      BY DEF PublicationInit, PublishedIsComplete
    <3> QED BY <3>2, <3>3, <3>4 DEF PublicationInv
  <2> QED BY <2>1, <2>2, CandidateStarts DEF BuildsInit, BuildsInv
<1>2. BuildsInv /\ [BuildsNext]_buildsVars => BuildsInv'
  BY FullStepKeeps, PublicationStepKeeps, CandidateStepKeeps
     DEF BuildsInv, BuildsNext, buildsVars
<1>3. BuildsInv => BuildsSafe
  <2>1. FullInv => ReceiptIsTrue
    BY DEF FullInv, ReceiptIsBound, ReceiptIsTrue, Bound
  <2>2. PublicationInv => PublishedIsComplete
    BY DEF PublicationInv, PublishedIsComplete
  <2> QED BY <2>1, <2>2, CandidateInvIsTrue DEF BuildsInv, BuildsSafe
<1> QED BY <1>1, <1>2, <1>3, PTL DEF BuildsSpec

-----------------------------------------------------------------------------
(* The transaction of a setup beside an editor: SetUpTransaction.          *)

ReplacementStages == {"start", "stage", "prepare", "check", "publish", "compare", "rollback",
           "restore", "activated", "failed", "killed"}
SetUpTypes ==
  /\ live \in [SetUp!File -> Int] /\ observed \in [SetUp!File -> Int]
  /\ aside \in [SetUp!File -> Int]
  /\ prepared \subseteq DOMAIN Destinations /\ activated \in Seq(DOMAIN Destinations)
  /\ position \in Nat \ {0} /\ stage \in ReplacementStages
  /\ edits \in 0..MaxEdits

\* What is not from an editor is a constant of the module.
Known ==
  \A f \in SetUp!File : /\ live[f] <= edits /\ observed[f] <= edits /\ aside[f] <= edits
                        /\ f \notin Guarded => live[f] <= 0 /\ aside[f] <= 0

\* Contents that edits have saved.
Saved == 1..edits
Replaced == {Destinations[activated[n]] : n \in DOMAIN activated}
\* What can be read at a destination that has been replaced or left to an editor, and what
\* at one that has not been.
ByEditor(f) == IF f \in Guarded /\ edits > 0 THEN Saved \cup {SetUp!Absent} ELSE {}
PublishedOrEdited(f) == {SetUp!New} \cup ByEditor(f)
Unpublished(f) == {Before[f]} \cup ByEditor(f)
Restorable(f) == (IF aside[f] = SetUp!NoFile THEN SetUp!Absent ELSE aside[f]) \in Unpublished(f)

EditsAreKept == \A e \in Saved \ unseen : SetUp!Survives(e)
AsideIsKept ==
  \A f \in SetUp!File : aside[f] \in Saved =>
     \/ aside[f] \in superseded \/ f \in kept \/ stage = "killed"
     \/ stage \in {"rollback", "restore"} /\ f \in Replaced
     \/ stage = "compare" /\ f = SetUp!Current
     \/ aside[f] \in unseen
ObservedIsMerged == \A f \in SetUp!File : observed[f] \in Saved =>
                      stage = "start" \/ observed[f] \in superseded
LastStage ==
  /\ stage = "restore" =>
       activated # <<>> /\ live[SetUp!Last] \in {SetUp!New, SetUp!Absent} \cup unseen
  /\ stage \in {"publish", "compare"} => position \in prepared
  /\ stage = "compare" => SetUp!Current \in Replaced
  /\ stage \in {"start", "stage", "prepare", "failed"} => activated = <<>>
  /\ stage \in {"start", "stage", "prepare", "check", "publish", "compare"} => kept = {}
  /\ stage \in {"start", "stage"} => position = 1 /\ prepared = {}

IsDone(n) ==
  \/ stage = "prepare" /\ n < position /\ n \notin prepared
  \/ stage \in {"check", "publish"} /\ (n < position \/ n \notin prepared)
  \/ stage = "compare" /\ (n < position \/ n \notin prepared \/ n = position)
  \/ stage = "activated"
Progressed ==
  \A n \in DOMAIN Destinations : IsDone(n) =>
    live[Destinations[n]] \in PublishedOrEdited(Destinations[n])

InOrder ==
  /\ \A m, n \in DOMAIN activated : m < n => activated[m] < activated[n]
  /\ stage \in {"check", "publish"} => \A n \in DOMAIN activated : activated[n] < position
  /\ stage = "compare" => \A n \in DOMAIN activated : activated[n] <= position

NothingElse == \A f \in SetUp!File : live[f] \in {SetUp!New} \cup Unpublished(f)
OthersUntouched ==
  \A f \in SetUp!File \ (Replaced \cup conflicts \cup abandoned) : live[f] \in Unpublished(f)
ReplacedRestorable ==
  stage \in {"check", "publish", "compare", "rollback", "restore"} =>
     \A f \in Replaced : Restorable(f)
PreparedFor(f) ==
  /\ f \notin Guarded => Restorable(f)
  /\ f \in Guarded => observed[f] # SetUp!New
  /\ f \in Guarded /\ observed[f] = SetUp!Absent => aside[f] = SetUp!NoFile
PreparedRestorable ==
  stage \in {"prepare", "check", "publish", "compare"} =>
     \A n \in prepared : PreparedFor(Destinations[n])
NotYetPublished ==
  stage = "publish" /\ SetUp!Current \in Guarded =>
    live[SetUp!Current] \in Unpublished(SetUp!Current)
Unchanged == /\ NothingElse /\ OthersUntouched /\ ReplacedRestorable /\ PreparedRestorable
             /\ NotYetPublished
SetUpInv == /\ SetUpTypes /\ Known /\ EditsAreKept /\ AsideIsKept /\ ObservedIsMerged
            /\ LastStage
            /\ Progressed /\ InOrder /\ Unchanged

\* What is assumed of the destinations.
LEMMA TargetFacts ==
  /\ Guarded \subseteq SetUp!File /\ Before \in [SetUp!File -> Int] /\ MaxEdits \in Nat
  /\ DOMAIN Destinations = 1..Len(Destinations) /\ Len(Destinations) \in Nat
  /\ \A n \in DOMAIN Destinations : Destinations[n] \in SetUp!File
  /\ \A f \in SetUp!File : \E n \in DOMAIN Destinations : f = Destinations[n]
  /\ \A m, n \in DOMAIN Destinations : Destinations[m] = Destinations[n] => m = n
  /\ \A f \in SetUp!File : Before[f] # SetUp!NoFile
BY HostSetUpAssumption
   DEF SetUp!TargetsAssumption, SetUp!File, SetUp!Absent, SetUp!Former, SetUp!New, SetUp!NoFile

\* What becomes of the list of replaced files.
LEMMA AfterPublication ==
  ASSUME SetUpTypes, position \in DOMAIN Destinations, SetUp!Activated
  PROVE  /\ Replaced' = Replaced \cup {SetUp!Current} /\ activated' # <<>>
         /\ activated' \in Seq(DOMAIN Destinations) /\ SetUp!Current \in Replaced'
<1>1. /\ activated' \in Seq(DOMAIN Destinations) /\ Len(activated') = Len(activated) + 1
      /\ DOMAIN activated = 1..Len(activated) /\ Len(activated) \in Nat
      /\ DOMAIN activated' = 1..(Len(activated) + 1)
      /\ \A n \in 1..Len(activated) : activated'[n] = activated[n]
      /\ activated'[Len(activated) + 1] = position
  BY DEF SetUpTypes, SetUp!Activated
<1> QED BY <1>1 DEF Replaced, SetUp!Current

\* What an undone replacement leaves of that list.
LEMMA AfterUndoing ==
  ASSUME SetUpTypes, activated # <<>>, SetUp!Undone
  PROVE  /\ Replaced' \subseteq Replaced /\ Replaced \subseteq Replaced' \cup {SetUp!Last}
         /\ activated' \in Seq(DOMAIN Destinations) /\ SetUp!Last \in Replaced
<1>1. /\ DOMAIN activated = 1..Len(activated) /\ Len(activated) \in Nat \ {0}
      /\ activated' \in Seq(DOMAIN Destinations) /\ DOMAIN activated' = 1..(Len(activated) - 1)
      /\ \A n \in 1..(Len(activated) - 1) : activated'[n] = activated[n]
  BY DEF SetUpTypes, SetUp!Undone
<1> QED BY <1>1 DEF Replaced, SetUp!Last

\* Only destinations are replaced.
LEMMA ReplacedAreFiles ==
  SetUpTypes =>
    Replaced \subseteq SetUp!File
      /\ (activated # <<>> => SetUp!Last \in Replaced /\ SetUp!Last \in SetUp!File)
BY TargetFacts DEF SetUpTypes, Replaced, SetUp!Last

\* A publication, case by case.
LEMMA PublishFacts ==
  ASSUME SetUpTypes, LastStage, SetUp!Publish
  PROVE  /\ position \in DOMAIN Destinations /\ SetUp!Current \in SetUp!File
         /\ position \in prepared
         /\ UNCHANGED <<observed, prepared, kept, conflicts, edits, superseded, unseen,
                        abandoned>>
         /\ stage = "publish"
         /\ \/ /\ SetUp!Current \in Guarded
               /\ UNCHANGED <<live, activated, position>> /\ stage' = "rollback"
               /\ aside' = aside \/ aside' = [aside EXCEPT ![SetUp!Current] = SetUp!New]
            \/ /\ live' = [live EXCEPT ![SetUp!Current] = SetUp!New] /\ SetUp!Activated
               /\ \/ /\ stage' = "check" /\ position' = position + 1 /\ aside' = aside
                     /\ \/ SetUp!Current \notin Guarded
                        \/ /\ SetUp!Current \in Guarded /\ observed[SetUp!Current] = SetUp!Absent
                           /\ live[SetUp!Current] = SetUp!Absent
                  \/ /\ stage' = "compare" /\ position' = position
                     /\ aside' = [aside EXCEPT ![SetUp!Current] = live[SetUp!Current]]
                     /\ observed[SetUp!Current] # SetUp!Absent /\ SetUp!Current \in Guarded
<1>1. position \in prepared /\ position \in DOMAIN Destinations /\ SetUp!Current \in SetUp!File
  BY TargetFacts DEF SetUpTypes, LastStage, SetUp!Publish, SetUp!Current
<1>2. CASE SetUp!Current \in Guarded /\ SetUp!LinkDocument(SetUp!Current)
  BY <1>1, <1>2
     DEF SetUp!Publish, SetUp!LinkDocument, SetUp!Abort, SetUp!Advance, SetUp!historyVars
<1>3. CASE SetUp!Current \in Guarded /\ SetUp!ExchangeDocument(SetUp!Current)
  BY <1>1, <1>3
     DEF SetUp!Publish, SetUp!ExchangeDocument, SetUp!Exchange, SetUp!Abort, SetUp!historyVars
<1>4. CASE SetUp!Current \notin Guarded /\ SetUp!ReplaceProgram(SetUp!Current)
  BY <1>1, <1>4
     DEF SetUp!Publish, SetUp!ReplaceProgram, SetUp!Abort, SetUp!Advance, SetUp!historyVars
<1> QED BY <1>2, <1>3, <1>4 DEF SetUp!Publish

\* A preparation, case by case.
LEMMA PrepareFacts ==
  ASSUME SetUpTypes, SetUp!Prepare
  PROVE  /\ position \in DOMAIN Destinations /\ SetUp!Current \in SetUp!File /\ stage = "prepare"
         /\ UNCHANGED <<live, observed, activated, kept, conflicts, edits, superseded, unseen,
                        abandoned>>
         /\ \/ stage' = "rollback" /\ UNCHANGED <<aside, prepared, position>>
            \/ /\ stage' = stage /\ position' = position + 1
               /\ SetUp!Current \in Guarded => live[SetUp!Current] = observed[SetUp!Current]
               /\ \/ live[SetUp!Current] = SetUp!New /\ UNCHANGED <<aside, prepared>>
                  \/ /\ live[SetUp!Current] # SetUp!New /\ prepared' = prepared \cup {position}
                     /\ \/ /\ live[SetUp!Current] = SetUp!Absent
                           /\ aside' = [aside EXCEPT ![SetUp!Current] = SetUp!NoFile]
                        \/ /\ live[SetUp!Current] # SetUp!Absent /\ SetUp!Current \in Guarded
                           /\ aside' = [aside EXCEPT ![SetUp!Current] = SetUp!Empty]
                        \/ /\ live[SetUp!Current] # SetUp!Absent /\ SetUp!Current \notin Guarded
                           /\ aside' = [aside EXCEPT ![SetUp!Current] = live[SetUp!Current]]
<1>1. position \in DOMAIN Destinations /\ SetUp!Current \in SetUp!File
  BY SMTT(30), TargetFacts DEF SetUpTypes, SetUp!Prepare, SetUp!AllDone, SetUp!Current
<1> QED BY <1>1
           DEF SetUp!Prepare, SetUp!Abort, SetUp!AlreadyPublished, SetUp!CopiedBackup,
               SetUp!ReservedBackup, SetUp!Observed, SetUp!historyVars

\* The steps that move no file and no edit.
Quiet == /\ UNCHANGED <<live, observed, aside, activated, kept, conflicts, edits, superseded,
                        unseen, abandoned, prepared>>
         /\ \/ stage = "stage" /\ stage' \in {"prepare", "failed"} /\ position' = position
            \/ /\ stage = "prepare" /\ position > Len(Destinations) /\ position' = 1
               /\ stage' \in {"check", "rollback"}
            \/ /\ stage = "check" /\ position > Len(Destinations) /\ stage' = "activated"
               /\ position' = position
            \/ /\ stage = "check" /\ position \notin prepared
               /\ position' = position + 1 /\ stage' = "check"
            \/ /\ stage = "check" /\ position' = position /\ position \in prepared
               /\ stage' = "publish"
               /\ (SetUp!Current \in Guarded =>
                     live[SetUp!Current] = observed[SetUp!Current])
            \/ /\ stage = "compare" /\ aside[SetUp!Current] = observed[SetUp!Current]
               /\ position' = position + 1 /\ stage' = "check"
            \/ stage \in {"prepare", "check", "publish", "compare"} /\ stage' = "rollback"
                 /\ position' = position
            \/ stage = "rollback" /\ activated = <<>> /\ stage' = "failed"
                 /\ position' = position
            \/ stage # "start" /\ stage' = "killed" /\ position' = position

\* The steps that change neither the files nor the record of the replacements.
LEMMA QuietSteps ==
  ASSUME \/ SetUp!StageFiles \/ SetUp!Recheck \/ SetUp!Check \/ SetUp!Compare
         \/ SetUp!RolledBack \/ SetUp!Fails \/ SetUp!Killed
  PROVE  Quiet
<1> USE DEF SetUp!historyVars, SetUp!Abort, SetUp!Advance, Quiet
<1>1. CASE SetUp!StageFiles BY <1>1 DEF SetUp!StageFiles
<1>2. CASE SetUp!Recheck BY <1>2 DEF SetUp!Recheck, SetUp!AllDone
<1>3. CASE SetUp!Check BY <1>3 DEF SetUp!Check, SetUp!AllDone, SetUp!Observed
<1>4. CASE SetUp!Compare BY <1>4 DEF SetUp!Compare
<1>5. CASE SetUp!RolledBack BY <1>5 DEF SetUp!RolledBack
<1>6. CASE SetUp!Fails BY <1>6 DEF SetUp!Fails
<1>7. CASE SetUp!Killed BY <1>7 DEF SetUp!Killed, SetUp!Ended
<1> QED BY <1>1, <1>2, <1>3, <1>4, <1>5, <1>6, <1>7

\* What an editor does.
Editing(f) ==
  /\ f \in Guarded /\ edits < MaxEdits /\ edits' = edits + 1
  /\ UNCHANGED <<observed, aside, prepared, activated, position, stage, kept, conflicts,
                 abandoned>>
  /\ \/ /\ live' = [live EXCEPT ![f] = edits + 1]
        /\ superseded' = superseded \cup ({live[f]} \cap (1..MaxEdits))
        /\ unseen' = IF stage = "restore" /\ f = SetUp!Last
                     THEN unseen \cup {edits + 1} ELSE unseen
     \/ /\ live' = [live EXCEPT ![f] = SetUp!Absent]
        /\ superseded' = superseded \cup ({live[f], edits + 1} \cap (1..MaxEdits))
        /\ unseen' = unseen

\* It saves a document, or removes it.
LEMMA EditSteps ==
  ASSUME NEW f \in Guarded, SetUp!Save(f) \/ SetUp!Remove(f) PROVE Editing(f)
BY DEF SetUp!Save, SetUp!Remove, SetUp!Edited, Editing

\* An interrupt of a publication or of a rollback.
LEMMA InterruptFacts ==
  ASSUME SetUpTypes, LastStage, Known, SetUp!Interrupted
  PROVE  /\ UNCHANGED <<observed, prepared, position, kept, edits, superseded>>
         /\ unseen \subseteq unseen' /\ conflicts \subseteq conflicts'
         /\ abandoned \subseteq abandoned' /\ Replaced' \subseteq Replaced
         /\ \/ /\ stage = "publish" /\ stage' = "rollback" /\ activated' = activated
               /\ position \in DOMAIN Destinations /\ position \in prepared
               /\ SetUp!Current \in SetUp!File /\ SetUp!Current \in abandoned'
               /\ live' = [live EXCEPT ![SetUp!Current] = SetUp!New]
               /\ live[SetUp!Current] \in Saved =>
                    /\ live[SetUp!Current] \in unseen'
                    /\ aside' = [aside EXCEPT ![SetUp!Current] = live[SetUp!Current]]
               /\ \/ aside' = aside
                  \/ aside' = [aside EXCEPT ![SetUp!Current] = live[SetUp!Current]]
                       /\ SetUp!Current \in Guarded
            \/ /\ stage \in {"rollback", "restore"} /\ stage' = "failed"
               /\ activated' = <<>> /\ UNCHANGED <<live, aside>>
               /\ Replaced \subseteq abandoned'
               /\ \A f \in Replaced : aside[f] \in Saved => aside[f] \in unseen'
<1>1. CASE SetUp!PublishInterrupted
  <2>1. /\ stage = "publish" /\ stage' = "rollback"
        /\ UNCHANGED <<observed, prepared, activated, position, kept, conflicts, edits,
                       superseded>>
        /\ abandoned' = abandoned \cup {SetUp!Current}
        /\ unseen' = unseen \cup ({live[SetUp!Current]} \cap (1..edits))
        /\ live' = [live EXCEPT ![SetUp!Current] = SetUp!New]
        /\ \/ /\ aside' = [aside EXCEPT ![SetUp!Current] = live[SetUp!Current]]
              /\ SetUp!Current \in Guarded
           \/ /\ aside' = aside
              /\ SetUp!Current \notin Guarded \/ observed[SetUp!Current] = SetUp!Absent
        /\ (live[SetUp!Current] = SetUp!Absent) <=> (observed[SetUp!Current] = SetUp!Absent)
    BY <1>1 DEF SetUp!PublishInterrupted, SetUp!Exchange, SetUp!Abort
  <2>2. position \in prepared /\ position \in DOMAIN Destinations /\ SetUp!Current \in SetUp!File
    BY <2>1, TargetFacts DEF SetUpTypes, LastStage, SetUp!Current
  <2>3. Replaced' = Replaced
    BY <2>1 DEF Replaced
  <2>4. live[SetUp!Current] \in Saved =>
          SetUp!Current \in Guarded /\ live[SetUp!Current] # SetUp!Absent
    BY <2>2, TargetFacts DEF Known, Saved, SetUp!Absent, SetUpTypes
  <2>5. live[SetUp!Current] \in Saved => live[SetUp!Current] \in unseen'
    BY <2>1 DEF Saved
  <2> QED BY <2>1, <2>2, <2>3, <2>4, <2>5
<1>2. CASE SetUp!RollbackInterrupted
  <2>1. /\ stage \in {"rollback", "restore"} /\ stage' = "failed" /\ activated' = <<>>
        /\ UNCHANGED <<live, observed, aside, prepared, position, kept, edits, superseded>>
        /\ conflicts \subseteq conflicts'
        /\ abandoned' = abandoned \cup Replaced
        /\ unseen' = unseen \cup ({aside[f] : f \in Replaced} \cap (1..edits))
    BY <1>2 DEF SetUp!RollbackInterrupted, Replaced
  <2>2. Replaced' = {}
    BY <2>1 DEF Replaced
  <2>3. \A f \in Replaced : aside[f] \in Saved => aside[f] \in unseen'
    BY <2>1 DEF Saved
  <2> QED BY <2>1, <2>2, <2>3
<1> QED BY <1>1, <1>2 DEF SetUp!Interrupted

\* Whatever happens, it is one of these.
LEMMA SetUpSteps ==
  ASSUME [SetUp!SetUpNext]_setUpVars
  PROVE  \/ Quiet \/ SetUp!Render \/ SetUp!Prepare \/ SetUp!Publish \/ SetUp!RollbackCheck
         \/ SetUp!Restore \/ SetUp!RemoveBackups \/ SetUp!Interrupted
         \/ (\E f \in Guarded : Editing(f)) \/ UNCHANGED setUpVars
BY QuietSteps, EditSteps DEF SetUp!SetUpNext, SetUp!SetUpProgress

\* The types.
LEMMA SetUpTypesKept ==
  SetUpTypes /\ LastStage /\ Known /\ [SetUp!SetUpNext]_setUpVars => SetUpTypes'
<1> SUFFICES ASSUME SetUpTypes, LastStage, Known, [SetUp!SetUpNext]_setUpVars PROVE SetUpTypes'
  OBVIOUS
<1> USE TargetFacts
<1>1. CASE Quiet BY <1>1 DEF Quiet, SetUpTypes, ReplacementStages
<1>2. CASE SetUp!Render BY <1>2 DEF SetUp!Render, SetUpTypes, ReplacementStages
<1>3. CASE SetUp!Prepare
  <2>1. aside' \in [SetUp!File -> Int]
    BY SMTT(30), <1>3, PrepareFacts DEF SetUpTypes, SetUp!NoFile, SetUp!Empty
  <2>2. /\ position \in DOMAIN Destinations
        /\ (prepared' = prepared \/ prepared' = prepared \cup {position})
        /\ position' = position \/ position' = position + 1
    BY <1>3, PrepareFacts
  <2>3. prepared' \subseteq DOMAIN Destinations BY <2>2 DEF SetUpTypes
  <2>4. position' \in Nat \ {0} BY <2>2 DEF SetUpTypes
  <2> QED BY <1>3, <2>1, <2>3, <2>4, PrepareFacts DEF SetUpTypes, ReplacementStages
<1>4. CASE SetUp!Publish
  <2>1. SetUp!Activated => activated' \in Seq(DOMAIN Destinations)
    BY <1>4, PublishFacts, AfterPublication
  <2>2. live' \in [SetUp!File -> Int] BY SMTT(30), <1>4, PublishFacts DEF SetUpTypes, SetUp!New
  <2>3. aside' \in [SetUp!File -> Int] BY SMTT(30), <1>4, PublishFacts DEF SetUpTypes, SetUp!New
  <2>4. position' \in Nat \ {0} /\ stage' \in ReplacementStages
    BY <1>4, PublishFacts DEF SetUpTypes, ReplacementStages
  <2>5. activated' \in Seq(DOMAIN Destinations) BY <1>4, <2>1, PublishFacts DEF SetUpTypes
  <2> QED BY <1>4, <2>2, <2>3, <2>4, <2>5, PublishFacts DEF SetUpTypes
<1>5. CASE SetUp!RollbackCheck
  BY <1>5, AfterUndoing DEF SetUp!RollbackCheck, SetUpTypes, ReplacementStages, SetUp!historyVars
<1>6. CASE SetUp!Restore
  <2>1. activated # <<>> /\ SetUp!Last \in SetUp!File
    BY <1>6, ReplacedAreFiles DEF SetUp!Restore, LastStage
  <2> QED BY <1>6, <2>1, AfterUndoing
             DEF SetUp!Restore, SetUpTypes, ReplacementStages, SetUp!Absent, SetUp!NoFile,
                 SetUp!historyVars
<1>7. CASE SetUp!RemoveBackups
  BY <1>7 DEF SetUp!RemoveBackups, SetUpTypes, ReplacementStages, SetUp!NoFile, SetUp!historyVars
<1>8. CASE \E f \in Guarded : Editing(f)
  <2>1. live' \in [SetUp!File -> Int] /\ edits' \in 0..MaxEdits
    BY <1>8 DEF Editing, SetUpTypes, SetUp!Absent
  <2> QED BY <1>8, <2>1 DEF Editing, SetUpTypes
<1>9. CASE UNCHANGED setUpVars BY <1>9 DEF setUpVars, SetUpTypes
<1>10. CASE SetUp!Interrupted
  <2>0. activated' = activated \/ activated' = <<>>
    BY <1>10, InterruptFacts
  <2>1. activated' \in Seq(DOMAIN Destinations)
    <3>1. <<>> \in Seq(DOMAIN Destinations) OBVIOUS
    <3>2. activated \in Seq(DOMAIN Destinations) BY DEF SetUpTypes
    <3> QED BY Zenon, <2>0, <3>1, <3>2
  <2>2. live' \in [SetUp!File -> Int]
    BY <1>10, InterruptFacts DEF SetUpTypes, SetUp!New
  <2>3. aside' \in [SetUp!File -> Int]
    BY <1>10, InterruptFacts DEF SetUpTypes
  <2> QED BY <1>10, <2>1, <2>2, <2>3, InterruptFacts DEF SetUpTypes, ReplacementStages
<1> QED BY <1>10, <1>1, <1>2, <1>3, <1>4, <1>5, <1>6, <1>7, <1>8, <1>9, SetUpSteps

\* What each stage says of the replacements.
LEMMA LastStageKept ==
  SetUpTypes /\ LastStage /\ Known /\ [SetUp!SetUpNext]_setUpVars => LastStage'
<1> SUFFICES ASSUME SetUpTypes, LastStage, Known, [SetUp!SetUpNext]_setUpVars PROVE LastStage'
  OBVIOUS
<1>1. CASE Quiet
  <2>1. UNCHANGED <<live, unseen, activated, prepared>> /\ (stage' # "restore")
          /\ (stage' # "compare")
    BY <1>1 DEF Quiet
  <2>2. stage' \in {"start", "stage", "prepare", "failed"} => activated = <<>>
    BY <1>1 DEF Quiet, LastStage
  <2> QED BY <1>1, <2>1, <2>2 DEF Quiet, LastStage
<1>2. CASE SetUp!Render BY <1>2 DEF SetUp!Render, LastStage
<1>3. CASE SetUp!Prepare
  BY <1>3, PrepareFacts DEF LastStage
<1>4. CASE SetUp!Publish
  <2>1. SetUp!Activated => Replaced' = Replaced \cup {SetUp!Current}
    BY <1>4, PublishFacts, AfterPublication
  <2> QED BY <1>4, <2>1, PublishFacts DEF LastStage, SetUp!Current
<1>5. CASE SetUp!RollbackCheck
  BY <1>5 DEF SetUp!RollbackCheck, SetUp!StillPublished, LastStage, SetUp!Last, SetUp!historyVars
<1>6. CASE SetUp!Restore BY <1>6 DEF SetUp!Restore, LastStage
<1>7. CASE SetUp!RemoveBackups BY <1>7 DEF SetUp!RemoveBackups, LastStage, SetUp!historyVars
<1>8. CASE \E f \in Guarded : Editing(f)
  <2>1. PICK f \in Guarded : Editing(f) BY <1>8
  <2>2. UNCHANGED <<activated, stage, position, prepared, kept, SetUp!Last, Replaced,
                    SetUp!Current>>
    BY <2>1 DEF Editing, SetUp!Last, Replaced, SetUp!Current
  <2>3. ASSUME stage = "restore"
        PROVE live'[SetUp!Last] \in {SetUp!New, SetUp!Absent} \cup unseen'
    <3>1. live[SetUp!Last] \in {SetUp!New, SetUp!Absent} \cup unseen
            /\ SetUp!Last \in SetUp!File /\ DOMAIN live = SetUp!File
      BY <2>3, ReplacedAreFiles DEF LastStage, SetUpTypes
    <3> QED BY <2>1, <2>3, <3>1 DEF Editing
  <2> QED BY <2>2, <2>3 DEF LastStage
<1>9. CASE UNCHANGED setUpVars
  BY <1>9 DEF setUpVars, LastStage, SetUp!Last, Replaced, SetUp!Current
<1>10. CASE SetUp!Interrupted BY <1>10, InterruptFacts DEF LastStage
<1> QED BY <1>10, <1>1, <1>2, <1>3, <1>4, <1>5, <1>6, <1>7, <1>8, <1>9, SetUpSteps


\* No text is newer than the last edit.
LEMMA KnownKept == SetUpTypes /\ LastStage /\ Known /\ [SetUp!SetUpNext]_setUpVars => Known'
<1> SUFFICES ASSUME SetUpTypes, LastStage, Known, [SetUp!SetUpNext]_setUpVars PROVE Known'
  OBVIOUS
<1>0. /\ live \in [SetUp!File -> Int] /\ observed \in [SetUp!File -> Int]
      /\ aside \in [SetUp!File -> Int]
      /\ edits \in Nat
  BY TargetFacts DEF SetUpTypes
<1> USE <1>0 DEF Known
<1>1. CASE Quiet BY <1>1 DEF Quiet
<1>2. CASE SetUp!Render BY <1>2 DEF SetUp!Render
<1>3. CASE SetUp!Prepare BY <1>3, PrepareFacts DEF SetUp!NoFile, SetUp!Empty
<1>4. CASE SetUp!Publish BY <1>4, PublishFacts DEF SetUp!New
<1>5. CASE SetUp!RollbackCheck BY <1>5 DEF SetUp!RollbackCheck, SetUp!historyVars
<1>6. CASE SetUp!Restore BY <1>6 DEF SetUp!Restore, SetUp!Absent, SetUp!NoFile, SetUp!historyVars
<1>7. CASE SetUp!RemoveBackups BY <1>7 DEF SetUp!RemoveBackups, SetUp!NoFile, SetUp!historyVars
<1>8. CASE \E f \in Guarded : Editing(f) BY <1>8 DEF Editing, SetUp!Absent
<1>9. CASE UNCHANGED setUpVars BY <1>9 DEF setUpVars
<1>10. CASE SetUp!Interrupted
  <2>1. \A f \in SetUp!File :
          live'[f] \in {live[f], SetUp!New} /\ aside'[f] \in {aside[f], live[f]}
    BY <1>10, InterruptFacts
  <2>2. \A f \in SetUp!File \ Guarded : aside'[f] = aside[f]
    BY <1>10, InterruptFacts
  <2> QED BY <1>10, <2>1, <2>2, InterruptFacts DEF SetUp!New
<1> QED BY <1>10, <1>1, <1>2, <1>3, <1>4, <1>5, <1>6, <1>7, <1>8, <1>9, SetUpSteps

\* What was read at the start and has been edited has been merged.
LEMMA MergedKept ==
  SetUpTypes /\ LastStage /\ Known /\ ObservedIsMerged /\ [SetUp!SetUpNext]_setUpVars =>
    ObservedIsMerged'
<1> SUFFICES ASSUME SetUpTypes, LastStage, Known, ObservedIsMerged,
                    [SetUp!SetUpNext]_setUpVars
             PROVE  ObservedIsMerged'
               OBVIOUS
<1>0. observed \in [SetUp!File -> Int] /\ edits \in Nat BY TargetFacts DEF SetUpTypes
<1>1. CASE SetUp!Render BY <1>1 DEF SetUp!Render, ObservedIsMerged, Saved
<1>2. CASE \E f \in Guarded : Editing(f)
  <2>1. /\ observed' = observed /\ stage' = stage /\ superseded \subseteq superseded'
        /\ edits' = edits + 1
    BY <1>2 DEF Editing
  <2> QED BY <1>0, <2>1 DEF ObservedIsMerged, Known, Saved
<1>3. ASSUME UNCHANGED <<observed, superseded, edits>>, stage' = "start" \/ stage # "start"
      PROVE  ObservedIsMerged'
  BY <1>3 DEF ObservedIsMerged, Saved
<1>4. CASE Quiet BY <1>3, <1>4 DEF Quiet
<1>5. CASE SetUp!Prepare BY <1>3, <1>5, PrepareFacts
<1>6. CASE SetUp!Publish BY <1>3, <1>6 DEF SetUp!Publish, SetUp!historyVars
<1>7. CASE SetUp!RollbackCheck \/ SetUp!Restore \/ SetUp!RemoveBackups
  BY <1>3, <1>7 DEF SetUp!RollbackCheck, SetUp!Restore, SetUp!RemoveBackups, SetUp!historyVars
<1>8. CASE UNCHANGED setUpVars BY <1>8 DEF setUpVars, ObservedIsMerged, Saved
<1>9. CASE SetUp!Interrupted BY <1>3, <1>9, InterruptFacts
<1> QED BY <1>9, <1>1, <1>2, <1>4, <1>5, <1>6, <1>7, <1>8, SetUpSteps

\* An edit that was set aside is not lost.
LEMMA AsideKept ==
  SetUpTypes /\ Known /\ LastStage /\ ObservedIsMerged /\ AsideIsKept
    /\ [SetUp!SetUpNext]_setUpVars => AsideIsKept'
<1> SUFFICES ASSUME SetUpTypes, Known, LastStage, ObservedIsMerged, AsideIsKept,
                    [SetUp!SetUpNext]_setUpVars
             PROVE  AsideIsKept'
               OBVIOUS
<1>0. aside \in [SetUp!File -> Int] /\ edits \in Nat BY TargetFacts DEF SetUpTypes
<1>1. CASE Quiet
  <2>1. SUFFICES ASSUME NEW f \in SetUp!File, aside[f] \in Saved, aside[f] \notin superseded,
                        f \notin kept, aside[f] \notin unseen, stage' # "killed"
                 PROVE  stage' \in {"rollback", "restore"} /\ f \in Replaced
    BY <1>1 DEF Quiet, AsideIsKept, Saved, Replaced, SetUp!Current
  <2>2. \/ stage \in {"rollback", "restore"} /\ f \in Replaced
        \/ stage = "compare" /\ f = SetUp!Current
        \/ stage = "killed"
    BY <2>1 DEF AsideIsKept
  <2>3. stage = "compare" => aside[SetUp!Current] # observed[SetUp!Current] /\ f \in Replaced
    BY <2>1, <2>2 DEF ObservedIsMerged, LastStage
  <2>4. stage = "killed" => FALSE BY <1>1, <2>1 DEF Quiet
  <2>5. stage = "rollback" => activated # <<>>
    BY <2>1, <2>2, <2>3, <2>4 DEF Replaced, SetUpTypes
  <2> QED BY <1>1, <2>1, <2>2, <2>3, <2>4, <2>5 DEF Quiet
<1>2. CASE SetUp!Render BY <1>2 DEF SetUp!Render, AsideIsKept, Saved, LastStage
<1>3. CASE SetUp!Prepare
  <2>1. \A f \in SetUp!File : aside[f] \in Saved =>
          aside[f] \in superseded \cup unseen \/ f \in kept
    BY <1>3, PrepareFacts DEF AsideIsKept
  <2>2. live[SetUp!Current] \in Saved => SetUp!Current \in Guarded
    BY <1>0, <1>3, PrepareFacts DEF Known, Saved
  <2> QED BY <1>0, <1>3, <2>1, <2>2, PrepareFacts
             DEF AsideIsKept, Saved, SetUp!NoFile, SetUp!Empty
<1>4. CASE SetUp!Publish
  <2>1. \A f \in SetUp!File : aside[f] \in Saved =>
          aside[f] \in superseded \cup unseen \/ f \in kept
    BY <1>4, PublishFacts DEF AsideIsKept
  <2>2. SetUp!Current' = SetUp!Current \/ stage' # "compare"
    BY <1>4, PublishFacts DEF SetUp!Current
  <2> QED BY <1>0, <1>4, <2>1, <2>2, PublishFacts DEF AsideIsKept, Saved, SetUp!New
<1>5. CASE SetUp!RollbackCheck
  <2>1. CASE SetUp!StillPublished(SetUp!Last)
    <3>1. UNCHANGED <<aside, kept, Replaced, superseded, unseen, edits>> /\ stage' = "restore"
      BY <1>5, <2>1 DEF SetUp!RollbackCheck, Replaced, SetUp!historyVars
    <3> QED BY <1>5, <3>1 DEF SetUp!RollbackCheck, AsideIsKept, Saved
  <2>2. CASE ~SetUp!StillPublished(SetUp!Last)
    <3>1. /\ UNCHANGED <<aside, superseded, unseen, edits>> /\ stage' = "rollback"
          /\ activated # <<>> /\ SetUp!Undone /\ stage = "rollback"
          /\ kept' = IF aside[SetUp!Last] # SetUp!NoFile THEN kept \cup {SetUp!Last} ELSE kept
      BY <1>5, <2>2 DEF SetUp!RollbackCheck, SetUp!PreserveBackup, SetUp!historyVars
    <3>2. Replaced \subseteq Replaced' \cup {SetUp!Last} BY <3>1, AfterUndoing
    <3> QED BY <1>0, <3>1, <3>2 DEF AsideIsKept, Saved, SetUp!NoFile
  <2> QED BY <2>1, <2>2
<1>6. CASE SetUp!Restore
  <2>1. activated # <<>> /\ SetUp!Last \in SetUp!File
    BY <1>6, ReplacedAreFiles DEF SetUp!Restore, LastStage
  <2>2. Replaced \subseteq Replaced' \cup {SetUp!Last}
    BY <1>6, <2>1, AfterUndoing DEF SetUp!Restore
  <2> QED BY <1>0, <1>6, <2>1, <2>2
             DEF SetUp!Restore, SetUp!PreserveBackup, AsideIsKept, Saved, SetUp!NoFile,
                 SetUp!historyVars
<1>7. CASE SetUp!RemoveBackups
  BY <1>0, <1>7 DEF SetUp!RemoveBackups, AsideIsKept, Saved, SetUp!NoFile, SetUp!historyVars
<1>8. CASE \E f \in Guarded : Editing(f)
  <2>1. /\ UNCHANGED <<aside, kept, stage, Replaced, SetUp!Current>>
        /\ superseded \subseteq superseded' /\ unseen \subseteq unseen'
        /\ edits' = edits + 1
    BY <1>8 DEF Editing, Replaced, SetUp!Current
  <2> QED BY <1>0, <2>1 DEF AsideIsKept, Known, Saved
<1>9. CASE UNCHANGED setUpVars
  BY <1>9 DEF setUpVars, AsideIsKept, Saved, Replaced, SetUp!Current
<1>10. CASE SetUp!Interrupted
  <2>1. CASE stage = "publish" /\ stage' = "rollback"
    <3>1. \A f \in SetUp!File : aside[f] \in Saved => aside[f] \in superseded \cup unseen
      BY <2>1 DEF AsideIsKept, LastStage
    <3> QED BY <1>0, <1>10, <2>1, <3>1, InterruptFacts DEF AsideIsKept, Saved
  <2>2. CASE stage \in {"rollback", "restore"} /\ stage' = "failed"
    <3>1. \A f \in SetUp!File : aside[f] \in Saved =>
            aside[f] \in superseded \cup unseen' \/ f \in kept
      BY <1>10, <2>2, InterruptFacts DEF AsideIsKept
    <3> QED BY <1>10, <2>2, <3>1, InterruptFacts DEF AsideIsKept, Saved
  <2> QED BY <1>10, <2>1, <2>2, InterruptFacts
<1> QED BY <1>10, <1>1, <1>2, <1>3, <1>4, <1>5, <1>6, <1>7, <1>8, <1>9, SetUpSteps

\* No edit is lost.
LEMMA EditsKept ==
  /\ SetUpTypes /\ Known /\ LastStage /\ ObservedIsMerged /\ AsideIsKept /\ EditsAreKept
  /\ [SetUp!SetUpNext]_setUpVars
  => EditsAreKept'
<1> SUFFICES ASSUME SetUpTypes, Known, LastStage, ObservedIsMerged, AsideIsKept, EditsAreKept,
                    [SetUp!SetUpNext]_setUpVars
             PROVE  EditsAreKept'
               OBVIOUS
<1>0. /\ live \in [SetUp!File -> Int] /\ aside \in [SetUp!File -> Int] /\ edits \in Nat
      /\ edits <= MaxEdits
      /\ MaxEdits \in Nat
  BY TargetFacts DEF SetUpTypes
\* What a step overwrites need not be kept.
<1>1. ASSUME UNCHANGED <<edits, superseded>>, unseen \subseteq unseen',
             \A f \in SetUp!File : \A e \in {live[f], aside[f]} : e \in Saved =>
                \/ e \in superseded \/ e \in unseen'
                \/ \E g \in SetUp!File : e \in {live'[g], aside'[g]}
      PROVE  EditsAreKept'
  BY <1>1 DEF EditsAreKept, SetUp!Survives, Saved
<1>2. CASE Quiet BY <1>2 DEF Quiet, EditsAreKept, SetUp!Survives, Saved
<1>3. CASE SetUp!Render BY <1>3 DEF SetUp!Render, EditsAreKept, SetUp!Survives, Saved
<1>4. CASE SetUp!Prepare
  <2>1. \A f \in SetUp!File : aside[f] \in Saved =>
          aside[f] \in superseded \cup unseen \/ aside'[f] = aside[f]
    <3>1. \A f \in SetUp!File : f # SetUp!Current => aside'[f] = aside[f]
      BY <1>0, <1>4, PrepareFacts
    <3>2. aside[SetUp!Current] \in Saved =>
            aside[SetUp!Current] \in superseded \cup unseen \/ SetUp!Current \in kept
      BY <1>4, PrepareFacts DEF AsideIsKept
    <3>3. kept = {} BY <1>4, PrepareFacts DEF LastStage
    <3> QED BY <3>1, <3>2, <3>3
  <2> QED BY <1>0, <1>1, <1>4, <2>1, PrepareFacts
<1>5. CASE SetUp!Publish
  <2>1. /\ SetUp!Current \in SetUp!File /\ UNCHANGED <<edits, superseded, unseen>>
        /\ stage = "publish"
        /\ \A f \in SetUp!File : f # SetUp!Current => live'[f] = live[f] /\ aside'[f] = aside[f]
    BY <1>0, <1>5, PublishFacts
  <2>2. aside[SetUp!Current] \in Saved => aside[SetUp!Current] \in superseded \cup unseen
    BY <1>5, <2>1 DEF AsideIsKept, LastStage
  <2>3. live[SetUp!Current] \in Saved =>
          live[SetUp!Current] \in {live'[SetUp!Current], aside'[SetUp!Current]}
    <3>1. SetUp!Current \notin Guarded => live[SetUp!Current] \notin Saved
      BY <1>0, <2>1 DEF Known, Saved
    <3> QED BY <1>0, <1>5, <2>1, <3>1, PublishFacts DEF Saved, SetUp!Absent
  <2> QED BY <1>1, <2>1, <2>2, <2>3
<1>6. CASE SetUp!RollbackCheck
  BY <1>6 DEF SetUp!RollbackCheck, EditsAreKept, SetUp!Survives, Saved, SetUp!historyVars
<1>7. CASE SetUp!Restore
  <2>1. SetUp!Last \in SetUp!File /\ live[SetUp!Last] \in {SetUp!New, SetUp!Absent} \cup unseen
    BY <1>7, ReplacedAreFiles DEF SetUp!Restore, LastStage
  <2>2. live[SetUp!Last] \in Saved => live[SetUp!Last] \in unseen
    BY <2>1 DEF Saved, SetUp!New, SetUp!Absent
  <2>3. UNCHANGED <<edits, superseded, unseen>>
        /\ \/ UNCHANGED <<live, aside>>
           \/ /\ aside[SetUp!Last] \in Saved =>
                   live' = [live EXCEPT ![SetUp!Last] = aside[SetUp!Last]]
              /\ \A f \in SetUp!File : f # SetUp!Last =>
                   live'[f] = live[f] /\ aside'[f] = aside[f]
    BY <1>0, <1>7 DEF SetUp!Restore, Saved, SetUp!NoFile, SetUp!historyVars
  <2> QED BY <1>0, <1>1, <2>1, <2>2, <2>3
<1>8. CASE SetUp!RemoveBackups
  <2>1. \A f \in SetUp!File : aside[f] \in Saved =>
          aside[f] \in superseded \cup unseen \/ aside'[f] = aside[f]
    BY <1>0, <1>8 DEF SetUp!RemoveBackups, AsideIsKept
  <2> QED BY <1>0, <1>1, <1>8, <2>1 DEF SetUp!RemoveBackups, SetUp!historyVars
<1>9. CASE \E f \in Guarded : Editing(f)
  <2>1. PICK f \in Guarded : Editing(f) BY <1>9
  <2>2. f \in SetUp!File /\ aside' = aside /\ edits' = edits + 1 /\ unseen \subseteq unseen'
    BY <2>1, TargetFacts DEF Editing
  <2>3. \A g \in SetUp!File : g # f => live'[g] = live[g] BY <1>0, <2>1, <2>2 DEF Editing
  <2>4. superseded \subseteq superseded' /\ (live[f] \in Saved => live[f] \in superseded')
    BY <1>0, <2>1 DEF Editing, Saved
  <2>5. edits + 1 \in superseded' \/ live'[f] = edits + 1 BY <1>0, <2>1, <2>2 DEF Editing
  <2>6. SUFFICES ASSUME NEW e \in Saved', e \notin unseen' PROVE SetUp!Survives(e)'
    BY DEF EditsAreKept
  <2>7. CASE e = edits + 1 BY <2>2, <2>5, <2>7 DEF SetUp!Survives
  <2>8. CASE e \in Saved
    <3>1. SetUp!Survives(e) BY <2>2, <2>6, <2>8 DEF EditsAreKept
    <3> QED BY <2>2, <2>3, <2>4, <2>8, <3>1 DEF SetUp!Survives
  <2> QED BY <1>0, <2>2, <2>6, <2>7, <2>8 DEF Saved
<1>10. CASE UNCHANGED setUpVars
  BY <1>10 DEF setUpVars, EditsAreKept, SetUp!Survives, Saved
<1>11. CASE SetUp!Interrupted
  <2>1. CASE stage = "publish"
    <3>1. \A f \in SetUp!File : aside[f] \in Saved => aside[f] \in superseded \cup unseen
      BY <2>1 DEF AsideIsKept, LastStage
    <3>2. \A f \in SetUp!File : live[f] \in Saved => live[f] \in unseen' \/ live'[f] = live[f]
      BY <1>0, <1>11, <2>1, InterruptFacts
    <3>3. UNCHANGED <<edits, superseded>> /\ unseen \subseteq unseen'
      BY <1>11, InterruptFacts
    <3> QED BY <1>1, <3>1, <3>2, <3>3
  <2>2. CASE UNCHANGED <<live, aside>>
    BY <1>1, <1>11, <2>2, InterruptFacts
  <2> QED BY <1>11, <2>1, <2>2, InterruptFacts
<1> QED BY <1>11, <1>2, <1>3, <1>4, <1>5, <1>6, <1>7, <1>8, <1>9, <1>10, SetUpSteps

\* What has been replaced stays replaced or is the editor's.
LEMMA ProgressKept ==
  SetUpTypes /\ LastStage /\ Known /\ Progressed /\ [SetUp!SetUpNext]_setUpVars => Progressed'
<1> SUFFICES ASSUME SetUpTypes, LastStage, Known, Progressed, [SetUp!SetUpNext]_setUpVars
             PROVE  Progressed'
               OBVIOUS
<1>0. live \in [SetUp!File -> Int] /\ edits \in Nat /\ position \in Nat \ {0}
  BY TargetFacts DEF SetUpTypes
\* What is published or edited stays so, and what is done then was done before or is now.
<1>1. ASSUME UNCHANGED edits,
             \A f \in SetUp!File : live'[f] = live[f] \/ live'[f] = SetUp!New,
             \A n \in DOMAIN Destinations : IsDone(n)' =>
               IsDone(n) \/ live'[Destinations[n]] = SetUp!New
      PROVE  Progressed'
  <2> SUFFICES ASSUME NEW n \in DOMAIN Destinations, IsDone(n)'
               PROVE  live'[Destinations[n]] \in PublishedOrEdited(Destinations[n])'
    BY DEF Progressed
  <2>1. CASE live'[Destinations[n]] = SetUp!New BY <2>1 DEF PublishedOrEdited
  <2>2. CASE live'[Destinations[n]] # SetUp!New
    <3>1. live'[Destinations[n]] = live[Destinations[n]] /\ IsDone(n) BY <1>1, <2>2, TargetFacts
    <3>2. live[Destinations[n]] \in PublishedOrEdited(Destinations[n]) BY <3>1 DEF Progressed
    <3> QED BY <1>1, <3>1, <3>2 DEF PublishedOrEdited, ByEditor, Saved
  <2> QED BY <2>1, <2>2
<1>2. CASE Quiet
  <2>1. ASSUME NEW n \in DOMAIN Destinations, IsDone(n)' PROVE IsDone(n)
    <3>0. n \in Nat /\ n <= Len(Destinations) /\ n >= 1 BY TargetFacts
    <3>1. CASE stage' = stage BY <1>0, <1>2, <2>1, <3>0, <3>1 DEF Quiet, IsDone
    <3>2. CASE stage = "prepare" /\ stage' = "check"
      BY <1>0, <1>2, <2>1, <3>0, <3>2, TargetFacts DEF Quiet, IsDone
    <3>3. CASE stage = "check" /\ stage' = "activated"
      BY <1>0, <1>2, <2>1, <3>0, <3>3, TargetFacts DEF Quiet, IsDone
    <3>4. CASE stage = "compare" /\ stage' = "check"
      BY <1>0, <1>2, <2>1, <3>0, <3>4 DEF Quiet, IsDone
    <3>5. CASE stage = "check" /\ stage' = "publish"
      BY <1>0, <1>2, <2>1, <3>0, <3>5 DEF Quiet, IsDone
    <3>6. CASE stage = "stage" /\ stage' = "prepare"
      BY <1>0, <1>2, <2>1, <3>0, <3>6 DEF Quiet, IsDone, LastStage
    <3>7. stage' \notin {"failed", "killed", "rollback"} BY <2>1 DEF IsDone
    <3> QED BY <1>2, <3>1, <3>2, <3>3, <3>4, <3>5, <3>6, <3>7 DEF Quiet
  <2> QED BY <1>1, <1>2, <2>1 DEF Quiet
<1>3. CASE SetUp!Render BY <1>3 DEF SetUp!Render, Progressed, IsDone
<1>4. CASE SetUp!Prepare
  <2>1. UNCHANGED <<live, edits>> /\ stage = "prepare" BY <1>4, PrepareFacts
  <2>2. ASSUME NEW n \in DOMAIN Destinations, IsDone(n)'
        PROVE IsDone(n) \/ live'[Destinations[n]] = SetUp!New
    <3>1. /\ stage' = stage /\ position' = position + 1
          /\ \/ live[SetUp!Current] = SetUp!New /\ prepared' = prepared
             \/ prepared' = prepared \cup {position}
      BY <1>4, <2>1, <2>2, PrepareFacts DEF IsDone
    <3>2. n < position + 1 /\ n \notin prepared' BY <2>1, <2>2, <3>1 DEF IsDone
    <3>3. n < position \/ n = position BY <1>0, <3>2, TargetFacts
    <3> QED BY <2>1, <3>1, <3>2, <3>3 DEF IsDone, SetUp!Current
  <2> QED BY <1>1, <2>1, <2>2
<1>5. CASE SetUp!Publish
  <2>1. stage = "publish" /\ UNCHANGED <<edits, prepared>> /\ SetUp!Current \in SetUp!File
    BY <1>5, PublishFacts
  <2>2. \A f \in SetUp!File : live'[f] = live[f] \/ live'[f] = SetUp!New
    BY <1>0, <1>5, <2>1, PublishFacts
  <2>3. \/ stage' = "rollback"
        \/ /\ live'[SetUp!Current] = SetUp!New
           /\ \/ stage' = "check" /\ position' = position + 1
              \/ stage' = "compare" /\ position' = position
    BY <1>0, <1>5, <2>1, PublishFacts
  <2>4. ASSUME NEW n \in DOMAIN Destinations, IsDone(n)'
        PROVE IsDone(n) \/ live'[Destinations[n]] = SetUp!New
    <3>1. n < position \/ n = position \/ n \notin prepared
      BY <1>0, <2>1, <2>3, <2>4, TargetFacts DEF IsDone
    <3> QED BY <2>1, <2>3, <2>4, <3>1 DEF IsDone, SetUp!Current
  <2> QED BY <1>1, <2>1, <2>2, <2>4
<1>6. CASE SetUp!RollbackCheck \/ SetUp!Restore
  BY <1>6 DEF SetUp!RollbackCheck, SetUp!Restore, Progressed, IsDone
<1>7. CASE SetUp!RemoveBackups
  BY <1>1, <1>7 DEF SetUp!RemoveBackups, SetUp!historyVars, IsDone
<1>8. CASE \E f \in Guarded : Editing(f)
  <2>1. \A f \in SetUp!File : live[f] \in PublishedOrEdited(f) =>
          live'[f] \in PublishedOrEdited(f)'
    BY <1>0, <1>8, TargetFacts DEF Editing, PublishedOrEdited, ByEditor, Saved
  <2>2. UNCHANGED <<stage, position, prepared>> BY <1>8 DEF Editing
  <2> QED BY <2>1, <2>2, TargetFacts DEF Progressed, IsDone
<1>9. CASE UNCHANGED setUpVars
  BY <1>9 DEF setUpVars, Progressed, PublishedOrEdited, ByEditor, Saved, IsDone
<1>10. CASE SetUp!Interrupted BY <1>10, InterruptFacts DEF Progressed, IsDone
<1> QED BY <1>10, <1>2, <1>3, <1>4, <1>5, <1>6, <1>7, <1>8, <1>9, SetUpSteps

\* The files are replaced in order.
LEMMA OrderKept ==
  SetUpTypes /\ LastStage /\ Known /\ InOrder /\ [SetUp!SetUpNext]_setUpVars => InOrder'
<1> SUFFICES ASSUME SetUpTypes, LastStage, Known, InOrder, [SetUp!SetUpNext]_setUpVars
             PROVE  InOrder'
               OBVIOUS
<1>0. /\ position \in Nat \ {0} /\ DOMAIN activated = 1..Len(activated) /\ Len(activated) \in Nat
      /\ \A n \in DOMAIN activated : activated[n] \in Nat
  BY TargetFacts DEF SetUpTypes
<1>1. CASE Quiet
  <2>1. activated' = activated BY <1>1 DEF Quiet
  <2>2. stage = "prepare" => DOMAIN activated = {} BY <1>0 DEF LastStage
  <2>3. ASSUME NEW n \in DOMAIN activated, stage' \in {"check", "publish"}
        PROVE  activated[n] < position'
    BY <1>0, <1>1, <2>2, <2>3 DEF Quiet, InOrder
  <2>4. stage' = "compare" => FALSE BY <1>1 DEF Quiet
  <2> QED BY <2>1, <2>3, <2>4 DEF InOrder
<1>2. CASE SetUp!Prepare BY <1>2, PrepareFacts DEF InOrder
<1>3. CASE SetUp!Publish
  <2>1. \A n \in DOMAIN activated : activated[n] < position BY <1>3, PublishFacts DEF InOrder
  <2>2. CASE activated' = activated /\ stage' = "rollback" BY <2>2 DEF InOrder
  <2>3. CASE /\ SetUp!Activated
             /\ \/ stage' = "check" /\ position' = position + 1
                \/ stage' = "compare" /\ position' = position
    <3>1. /\ DOMAIN activated' = 1..(Len(activated) + 1)
          /\ \A n \in 1..Len(activated) : activated'[n] = activated[n]
          /\ activated'[Len(activated) + 1] = position
      BY <1>3, <2>3, PublishFacts DEF SetUpTypes, SetUp!Activated
    <3>2. \A n \in DOMAIN activated' : activated'[n] <= position /\ activated'[n] \in Nat
      BY <1>0, <2>1, <3>1
    <3>3. \A m, n \in DOMAIN activated' : m < n => activated'[m] < activated'[n]
      BY <1>0, <2>1, <3>1 DEF InOrder
    <3>4. \/ stage' = "check" /\ \A n \in DOMAIN activated' : activated'[n] < position'
          \/ stage' = "compare" /\ \A n \in DOMAIN activated' : activated'[n] <= position'
      BY <1>0, <2>3, <3>2
    <3> QED BY <3>3, <3>4 DEF InOrder
  <2> QED BY <1>3, <2>2, <2>3, PublishFacts
<1>4. CASE SetUp!RollbackCheck \/ SetUp!Restore
  <2>1. /\ activated # <<>> /\ stage' \in {"restore", "rollback"}
        /\ activated' = activated \/ SetUp!Undone
    BY <1>4 DEF SetUp!RollbackCheck, SetUp!Restore, LastStage
  <2>2. ASSUME SetUp!Undone
        PROVE  /\ DOMAIN activated' = 1..(Len(activated) - 1)
               /\ \A n \in 1..(Len(activated) - 1) : activated'[n] = activated[n]
    BY <1>0, <2>1, <2>2 DEF SetUpTypes, SetUp!Undone
  <2> QED BY <1>0, <2>1, <2>2 DEF InOrder
<1>5. ASSUME UNCHANGED <<activated, position, stage>> PROVE InOrder' BY <1>5 DEF InOrder
<1>6. CASE SetUp!Render BY <1>6 DEF SetUp!Render, InOrder
<1>7. CASE SetUp!RemoveBackups BY <1>5, <1>7 DEF SetUp!RemoveBackups
<1>8. CASE \E f \in Guarded : Editing(f) BY <1>5, <1>8 DEF Editing
<1>9. CASE UNCHANGED setUpVars BY <1>5, <1>9 DEF setUpVars
<1>10. CASE SetUp!Interrupted BY <1>10, InterruptFacts DEF InOrder
<1> QED BY <1>10, <1>1, <1>2, <1>3, <1>4, <1>6, <1>7, <1>8, <1>9, SetUpSteps

\* The file at hand has not been replaced before, and the one that is undone is not
\* replaced twice.
LEMMA CurrentIsNew ==
  ASSUME SetUpTypes, InOrder, stage = "publish", position \in DOMAIN Destinations
  PROVE  SetUp!Current \notin Replaced
<1>1. \A n \in DOMAIN activated : activated[n] \in DOMAIN Destinations /\ activated[n] < position
  BY DEF SetUpTypes, InOrder
<1> QED BY <1>1, TargetFacts DEF Replaced, SetUp!Current

\* A file that is undone is not among the replaced files any more.
LEMMA UndoneIsGone ==
  ASSUME SetUpTypes, InOrder, activated # <<>>, SetUp!Undone
  PROVE  SetUp!Last \notin Replaced'
<1>1. /\ DOMAIN activated = 1..Len(activated) /\ Len(activated) \in Nat \ {0}
      /\ DOMAIN activated' = 1..(Len(activated) - 1)
      /\ \A n \in 1..(Len(activated) - 1) : activated'[n] = activated[n]
  BY DEF SetUpTypes, SetUp!Undone
<1>2. \A n \in DOMAIN activated : activated[n] \in DOMAIN Destinations BY DEF SetUpTypes
<1>3. ASSUME NEW n \in 1..(Len(activated) - 1)
      PROVE  activated[n] # activated[Len(activated)]
  <2>1. /\ n \in DOMAIN activated /\ Len(activated) \in DOMAIN activated /\ n < Len(activated)
    BY <1>1
  <2>2. activated[n] < activated[Len(activated)] BY <2>1 DEF InOrder
  <2>3. activated[n] \in Nat /\ activated[Len(activated)] \in Nat BY <1>2, <2>1, TargetFacts
  <2> QED BY <2>2, <2>3
<1>4. ASSUME NEW n \in 1..(Len(activated) - 1)
      PROVE  Destinations[activated'[n]] # SetUp!Last
  <2>1. /\ activated[n] \in DOMAIN Destinations
        /\ activated[Len(activated)] \in DOMAIN Destinations
        /\ activated'[n] = activated[n]
    BY <1>1, <1>2
  <2> QED BY <1>3, <2>1, TargetFacts DEF SetUp!Last
<1> QED BY <1>1, <1>4 DEF Replaced

\* Edits only add to what can be read at a destination.
LEMMA EditsAdd ==
  ASSUME edits' = edits \/ edits' = edits + 1, edits \in Nat
  PROVE  /\ \A f \in SetUp!File : Unpublished(f) \subseteq Unpublished(f)'
         /\ \A f \in SetUp!File : Restorable(f) /\ aside'[f] = aside[f] => Restorable(f)'
<1>1. Saved \subseteq Saved' /\ (edits > 0 => edits' > 0) BY DEF Saved
<1> QED BY <1>1 DEF Unpublished, Restorable, ByEditor

\* The count of the edits only grows, one by one.
LEMMA EditsCounted ==
  SetUpTypes /\ LastStage /\ Known /\ [SetUp!SetUpNext]_setUpVars =>
    edits \in Nat /\ (edits' = edits \/ edits' = edits + 1)
<1> SUFFICES ASSUME SetUpTypes, LastStage, Known, [SetUp!SetUpNext]_setUpVars
             PROVE  edits \in Nat /\ (edits' = edits \/ edits' = edits + 1)
               OBVIOUS
<1>1. edits \in Nat BY TargetFacts DEF SetUpTypes
<1>2. CASE SetUp!Prepare BY <1>1, <1>2, PrepareFacts
<1>3. CASE SetUp!Publish BY <1>1, <1>3 DEF SetUp!Publish, SetUp!historyVars
<1>4. CASE \E f \in Guarded : Editing(f) BY <1>1, <1>4 DEF Editing
<1>5. CASE SetUp!Interrupted BY <1>1, <1>5, InterruptFacts
<1> QED BY <1>5, <1>1, <1>2, <1>3, <1>4, SetUpSteps
           DEF Quiet, SetUp!Render, SetUp!RollbackCheck, SetUp!Restore, SetUp!RemoveBackups,
               SetUp!historyVars, setUpVars

\* What an edit leaves at its document.
LEMMA EditLeaves ==
  ASSUME SetUpTypes, NEW f \in Guarded, Editing(f)
  PROVE  /\ live'[f] \in Unpublished(f)' /\ f \in SetUp!File
         /\ \A g \in SetUp!File : g # f => live'[g] = live[g]
         /\ edits' > 0
<1>1. f \in SetUp!File /\ live \in [SetUp!File -> Int] /\ edits \in Nat
  BY TargetFacts DEF SetUpTypes
<1>2. edits' = edits + 1 /\ live'[f] \in {edits + 1, SetUp!Absent} /\ edits' > 0
  BY <1>1 DEF Editing
<1>3. edits + 1 \in Saved' BY <1>1, <1>2 DEF Saved
<1> QED BY <1>1, <1>2, <1>3 DEF Editing, Unpublished, ByEditor

\* What a successful restoration puts back.
LEMMA RestoreFacts ==
  ASSUME SetUpTypes, LastStage, InOrder, ReplacedRestorable, SetUp!Restore
  PROVE  /\ stage = "restore" /\ stage' = "rollback" /\ edits' = edits
         /\ SetUp!Last \in SetUp!File
         /\ observed' = observed /\ prepared' = prepared
         /\ Replaced' \subseteq Replaced /\ Replaced \subseteq Replaced' \cup {SetUp!Last}
         /\ SetUp!Last \notin Replaced'
         /\ \A f \in SetUp!File : f # SetUp!Last => live'[f] = live[f] /\ aside'[f] = aside[f]
         /\ \/ live'[SetUp!Last] \in Unpublished(SetUp!Last) /\ conflicts' = conflicts
            \/ live' = live /\ SetUp!Last \in conflicts'
<1>1. stage = "restore" /\ activated # <<>> /\ SetUp!Undone BY DEF SetUp!Restore, LastStage
<1>2. SetUp!Last \in SetUp!File /\ SetUp!Last \in Replaced BY <1>1, ReplacedAreFiles
<1>3. /\ Replaced' \subseteq Replaced /\ Replaced \subseteq Replaced' \cup {SetUp!Last}
      /\ SetUp!Last \notin Replaced'
  BY <1>1, AfterUndoing, UndoneIsGone
<1>4. Restorable(SetUp!Last) BY <1>1, <1>2 DEF ReplacedRestorable
<1>5. live \in [SetUp!File -> Int] /\ aside \in [SetUp!File -> Int] BY DEF SetUpTypes
<1>6. /\ \A f \in SetUp!File : f # SetUp!Last => live'[f] = live[f] /\ aside'[f] = aside[f]
      /\ \/ /\ live'[SetUp!Last] = (IF aside[SetUp!Last] = SetUp!NoFile
                                    THEN SetUp!Absent ELSE aside[SetUp!Last])
            /\ conflicts' = conflicts
         \/ live' = live /\ SetUp!Last \in conflicts'
  BY <1>2, <1>5 DEF SetUp!Restore
<1>7. stage' = "rollback" /\ edits' = edits /\ observed' = observed /\ prepared' = prepared
  BY DEF SetUp!Restore, SetUp!historyVars
<1> QED BY <1>1, <1>2, <1>3, <1>4, <1>6, <1>7 DEF Restorable

\* A check of a rollback.
LEMMA RollbackFacts ==
  ASSUME SetUpTypes, SetUp!RollbackCheck
  PROVE  /\ UNCHANGED <<live, observed, aside, prepared, edits>> /\ stage = "rollback"
         /\ stage' \in {"rollback", "restore"}
         /\ Replaced' \subseteq Replaced
         /\ \/ Replaced' = Replaced /\ conflicts' = conflicts
            \/ SetUp!Last \in conflicts' /\ Replaced \subseteq Replaced' \cup {SetUp!Last}
<1>1. CASE SetUp!StillPublished(SetUp!Last)
  BY <1>1 DEF SetUp!RollbackCheck, Replaced, SetUp!historyVars
<1>2. CASE ~SetUp!StillPublished(SetUp!Last)
  BY <1>2, AfterUndoing DEF SetUp!RollbackCheck, SetUp!historyVars
<1> QED BY <1>1, <1>2

\* A file has its new text, its former one, or an edit.
LEMMA NothingElseKept ==
  /\ SetUpTypes /\ LastStage /\ Known /\ InOrder /\ NothingElse /\ ReplacedRestorable
  /\ [SetUp!SetUpNext]_setUpVars
  => NothingElse'
<1> SUFFICES ASSUME SetUpTypes, LastStage, Known, InOrder, NothingElse, ReplacedRestorable,
                    [SetUp!SetUpNext]_setUpVars
             PROVE  NothingElse'
               OBVIOUS
<1>0. \A f \in SetUp!File : Unpublished(f) \subseteq Unpublished(f)' BY EditsCounted, EditsAdd
<1>1. ASSUME \A f \in SetUp!File : 
        live'[f] \in {live[f], SetUp!New} \cup Unpublished(f) \cup Unpublished(f)'
      PROVE  NothingElse'
  BY <1>0, <1>1 DEF NothingElse
<1>2. CASE SetUp!Publish
  BY <1>1, <1>2, PublishFacts DEF SetUpTypes
<1>3. CASE SetUp!Restore BY <1>1, <1>3, RestoreFacts
<1>4. CASE \E f \in Guarded : Editing(f) BY <1>1, <1>4, EditLeaves
<1>5. CASE live' = live BY <1>1, <1>5
<1>6. CASE SetUp!Prepare BY <1>5, <1>6, PrepareFacts
<1>7. CASE SetUp!Interrupted BY <1>1, <1>7, InterruptFacts DEF SetUpTypes
<1> QED BY <1>7, <1>2, <1>3, <1>4, <1>5, <1>6, SetUpSteps
           DEF Quiet, SetUp!Render, SetUp!RollbackCheck, SetUp!RemoveBackups, setUpVars

\* What is not replaced has not been touched.
LEMMA OthersKept ==
  /\ SetUpTypes /\ LastStage /\ Known /\ InOrder /\ OthersUntouched /\ ReplacedRestorable
  /\ [SetUp!SetUpNext]_setUpVars
  => OthersUntouched'
<1> SUFFICES ASSUME SetUpTypes, LastStage, Known, InOrder, OthersUntouched, ReplacedRestorable,
                    [SetUp!SetUpNext]_setUpVars
             PROVE  OthersUntouched'
               OBVIOUS
<1>0. \A f \in SetUp!File : Unpublished(f) \subseteq Unpublished(f)' BY EditsCounted, EditsAdd
<1>1. ASSUME conflicts \subseteq conflicts', abandoned \subseteq abandoned',
             \A f \in SetUp!File \ (Replaced' \cup conflicts' \cup abandoned') :
               \/ f \notin Replaced /\ live'[f] = live[f]
               \/ live'[f] \in Unpublished(f) \cup Unpublished(f)'
      PROVE  OthersUntouched'
  BY <1>0, <1>1 DEF OthersUntouched
<1>2. CASE UNCHANGED <<live, Replaced, conflicts, abandoned>> BY <1>1, <1>2
<1>3. CASE SetUp!Publish
  <2>1. CASE UNCHANGED <<live, activated>>
    BY <1>2, <1>3, <2>1, PublishFacts DEF Replaced
  <2>2. CASE live' = [live EXCEPT ![SetUp!Current] = SetUp!New] /\ SetUp!Activated
    BY <1>1, <1>3, <2>2, PublishFacts, AfterPublication DEF SetUpTypes
  <2> QED BY <1>3, <2>1, <2>2, PublishFacts
<1>4. CASE SetUp!Restore
  <2>1. \/ live'[SetUp!Last] \in Unpublished(SetUp!Last)
        \/ SetUp!Last \in conflicts'
    BY <1>4, RestoreFacts
  <2>2. conflicts \subseteq conflicts' /\ abandoned' = abandoned
    BY <1>4 DEF SetUp!Restore, SetUp!historyVars
  <2>3. ASSUME NEW f \in SetUp!File \ (Replaced' \cup conflicts' \cup abandoned')
        PROVE  \/ f \notin Replaced /\ live'[f] = live[f]
               \/ live'[f] \in Unpublished(f)
    <3>1. CASE f = SetUp!Last BY <2>1, <2>3, <3>1
    <3>2. CASE f # SetUp!Last BY <1>4, <2>3, <3>2, RestoreFacts
    <3> QED BY <3>1, <3>2
  <2> QED BY <1>1, <2>2, <2>3
<1>5. CASE SetUp!RollbackCheck
  <2>1. conflicts \subseteq conflicts' /\ abandoned' = abandoned
    BY <1>5 DEF SetUp!RollbackCheck, SetUp!historyVars
  <2> QED BY <1>1, <1>2, <1>5, <2>1, RollbackFacts
<1>6. CASE \E f \in Guarded : Editing(f)
  <2>1. PICK f \in Guarded : Editing(f) BY <1>6
  <2>2. UNCHANGED <<conflicts, abandoned, Replaced>> BY <2>1 DEF Editing, Replaced
  <2> QED BY <1>1, <2>1, <2>2, EditLeaves
<1>7. CASE SetUp!Prepare BY <1>2, <1>7, PrepareFacts DEF Replaced
<1>8. CASE SetUp!Interrupted
  <2>1. /\ conflicts \subseteq conflicts' /\ abandoned \subseteq abandoned'
        /\ Replaced \subseteq Replaced' \cup abandoned'
    BY <1>8, InterruptFacts DEF Replaced
  <2>2. \A f \in SetUp!File \ abandoned' : live'[f] = live[f]
    BY <1>8, InterruptFacts DEF SetUpTypes
  <2> QED BY <1>1, <2>1, <2>2
<1> QED BY <1>2, <1>3, <1>4, <1>5, <1>6, <1>7, <1>8, SetUpSteps
           DEF Quiet, SetUp!Render, SetUp!RemoveBackups, SetUp!historyVars, setUpVars, Replaced

\* What is replaced can be restored.
LEMMA RestorableKept ==
  /\ SetUpTypes /\ LastStage /\ Known /\ InOrder /\ Unchanged /\ [SetUp!SetUpNext]_setUpVars
  => ReplacedRestorable'
<1> SUFFICES ASSUME SetUpTypes, LastStage, Known, InOrder, Unchanged, [SetUp!SetUpNext]_setUpVars
             PROVE  ReplacedRestorable'
               OBVIOUS
<1>0. \A f \in SetUp!File : Restorable(f) /\ aside'[f] = aside[f] => Restorable(f)'
  BY EditsCounted, EditsAdd
<1>a. Replaced \subseteq SetUp!File BY ReplacedAreFiles
<1>b. stage \in {"start", "stage", "prepare"} => Replaced = {} BY DEF LastStage, Replaced
<1>1. ASSUME stage' \in {"check", "publish", "compare", "rollback", "restore"} =>
               /\ Replaced' \subseteq Replaced
               /\ stage \in {"check", "publish", "compare", "rollback", "restore"}
                    \/ Replaced = {}
               /\ \A f \in Replaced' : aside'[f] = aside[f]
      PROVE  ReplacedRestorable'
  <2>1. SUFFICES ASSUME stage' \in {"check", "publish", "compare", "rollback", "restore"},
                        NEW f \in Replaced'
                 PROVE  Restorable(f)'
    BY DEF ReplacedRestorable
  <2>2. f \in Replaced /\ f \in SetUp!File /\ aside'[f] = aside[f] BY <1>1, <1>a, <2>1
  <2>3. Restorable(f) BY <1>1, <2>1, <2>2 DEF Unchanged, ReplacedRestorable
  <2> QED BY <1>0, <2>2, <2>3
<1>2. CASE Quiet BY <1>1, <1>2, <1>b DEF Quiet, Replaced
<1>3. CASE SetUp!Prepare
  <2>1. UNCHANGED Replaced /\ Replaced = {} BY <1>3, <1>b, PrepareFacts DEF Replaced
  <2> QED BY <1>1, <2>1
<1>4. CASE SetUp!Publish
  <2>1. /\ stage = "publish" /\ position \in DOMAIN Destinations /\ SetUp!Current \in SetUp!File
        /\ position \in prepared /\ edits' = edits
    BY <1>4, PublishFacts
  <2>2. SetUp!Current \notin Replaced BY <2>1, CurrentIsNew
  <2>3. \A f \in Replaced : aside'[f] = aside[f]
    BY <1>4, <1>a, <2>2, PublishFacts DEF SetUpTypes
  <2>4. CASE activated' = activated BY <1>1, <2>1, <2>3, <2>4 DEF Replaced
  <2>5. CASE SetUp!Activated
    <3>0. PICK c \in SetUp!File : c = SetUp!Current BY <2>1
    <3>1. Replaced' = Replaced \cup {c} BY <2>1, <2>5, <3>0, AfterPublication
    <3>2. Restorable(c)'
      <4>1. PreparedFor(c) BY <2>1, <3>0 DEF Unchanged, PreparedRestorable, SetUp!Current
      <4>2. CASE c \notin Guarded
        BY <3>0, <1>0, <1>4, <2>1, <4>1, <4>2, PublishFacts DEF PreparedFor
      <4>3. CASE c \in Guarded /\ aside' = aside /\ observed[c] = SetUp!Absent
                 /\ live[c] = SetUp!Absent
        <5>1. aside[c] = SetUp!NoFile /\ SetUp!Absent \in Unpublished(c)
          BY <2>1, <3>0, <4>1, <4>3 DEF PreparedFor, Unchanged, NotYetPublished
        <5>2. Restorable(c) BY <5>1 DEF Restorable
        <5> QED BY <3>0, <1>0, <2>1, <4>3, <5>2
      <4>4. CASE c \in Guarded /\ aside' = [aside EXCEPT ![c] = live[c]]
        <5>1. live[c] \in Unpublished(c)
          BY <2>1, <3>0, <4>4 DEF Unchanged, NotYetPublished
        <5>2. aside'[c] = live[c] BY <2>1, <3>0, <4>4 DEF SetUpTypes
        <5>3. live[c] # SetUp!NoFile
          BY <2>1, <5>1, TargetFacts
             DEF Unpublished, ByEditor, Saved, SetUp!Absent, SetUp!NoFile
        <5>4. Unpublished(c)' = Unpublished(c)
          BY <2>1, <3>0 DEF Unpublished, ByEditor, Saved
        <5> QED BY <2>1, <5>1, <5>2, <5>3, <5>4 DEF Restorable, SetUp!Current
      <4>5. \/ c \notin Guarded
            \/ c \in Guarded /\ aside' = aside /\ observed[c] = SetUp!Absent
                 /\ live[c] = SetUp!Absent
            \/ c \in Guarded /\ aside' = [aside EXCEPT ![c] = live[c]]
        BY <3>0, <1>4, <2>1, <2>5, PublishFacts DEF SetUpTypes, SetUp!Activated
      <4> QED BY <4>2, <4>3, <4>4, <4>5
    <3>3. \A f \in Replaced : Restorable(f)'
      BY <3>0, <1>0, <1>a, <2>1, <2>3 DEF Unchanged, ReplacedRestorable
    <3> QED BY <3>1, <3>2, <3>3 DEF ReplacedRestorable
  <2> QED BY <1>4, <2>4, <2>5, PublishFacts
<1>5. CASE SetUp!RollbackCheck BY <1>1, <1>5, RollbackFacts
<1>6. CASE SetUp!Restore BY <1>1, <1>6, <1>a, RestoreFacts DEF Unchanged
<1>7. CASE \E f \in Guarded : Editing(f) BY <1>1, <1>7, <1>b DEF Editing, Replaced
<1>8. CASE SetUp!Render \/ SetUp!RemoveBackups
  BY <1>8 DEF SetUp!Render, SetUp!RemoveBackups, ReplacedRestorable
<1>9. CASE UNCHANGED setUpVars
  BY <1>9
     DEF setUpVars, Unchanged, ReplacedRestorable, Replaced, Restorable, Unpublished,
         ByEditor, Saved
<1>10. CASE SetUp!Interrupted
  <2>1. Replaced' \subseteq Replaced BY <1>10, InterruptFacts
  <2>2. stage = "publish" => \A f \in Replaced : aside'[f] = aside[f]
    BY <1>10, <1>a, InterruptFacts, CurrentIsNew DEF SetUpTypes
  <2> QED BY <1>1, <1>10, <2>1, <2>2, InterruptFacts
<1> QED BY <1>10, <1>2, <1>3, <1>4, <1>5, <1>6, <1>7, <1>8, <1>9, SetUpSteps

\* What holds of a prepared file, as long as its backup and what it was rendered from stay.
LEMMA PreparedStays ==
  ASSUME SetUpTypes, LastStage, Known, [SetUp!SetUpNext]_setUpVars, NEW f \in SetUp!File,
         PreparedFor(f),
         aside'[f] = aside[f], observed'[f] = observed[f]
  PROVE  PreparedFor(f)'
<1>1. Restorable(f) => Restorable(f)' BY EditsCounted, EditsAdd
<1> QED BY <1>1 DEF PreparedFor

\* What is prepared can be restored, once it is replaced.
LEMMA PreparedKept ==
  SetUpTypes /\ LastStage /\ Known /\ Unchanged /\ [SetUp!SetUpNext]_setUpVars =>
    PreparedRestorable'
<1> SUFFICES ASSUME SetUpTypes, LastStage, Known, Unchanged, [SetUp!SetUpNext]_setUpVars
             PROVE  PreparedRestorable'
               OBVIOUS
<1>0. /\ live \in [SetUp!File -> Int] /\ aside \in [SetUp!File -> Int]
      /\ prepared \subseteq DOMAIN Destinations
      /\ \A n \in DOMAIN Destinations : Destinations[n] \in SetUp!File
      /\ \A m, n \in DOMAIN Destinations : Destinations[m] = Destinations[n] => m = n
  BY TargetFacts DEF SetUpTypes
<1>1. ASSUME stage' \in {"prepare", "check", "publish", "compare"} =>
               \/ prepared' = {}
               \/ /\ stage \in {"prepare", "check", "publish", "compare"}
                  /\ \A n \in prepared' :
                       \/ PreparedFor(Destinations[n])'
                       \/ /\ n \in prepared /\ aside'[Destinations[n]] = aside[Destinations[n]]
                          /\ observed'[Destinations[n]] = observed[Destinations[n]]
      PROVE  PreparedRestorable'
  <2>1. SUFFICES ASSUME stage' \in {"prepare", "check", "publish", "compare"},
                          NEW n \in prepared'
                 PROVE  PreparedFor(Destinations[n])'
    BY DEF PreparedRestorable
  <2>2. CASE PreparedFor(Destinations[n])' BY <2>2
  <2>3. CASE /\ n \in prepared /\ aside'[Destinations[n]] = aside[Destinations[n]]
             /\ observed'[Destinations[n]] = observed[Destinations[n]]
    <3>1. PreparedFor(Destinations[n]) /\ Destinations[n] \in SetUp!File
      BY <1>0, <1>1, <2>1, <2>3 DEF Unchanged, PreparedRestorable
    <3> QED BY <2>3, <3>1, PreparedStays
  <2> QED BY <1>1, <2>1, <2>2, <2>3
<1>2. CASE Quiet BY <1>1, <1>2 DEF Quiet, LastStage
<1>3. CASE SetUp!Prepare
  <2>1. /\ stage = "prepare" /\ position \in DOMAIN Destinations
        /\ UNCHANGED <<live, observed, edits>>
        /\ SetUp!Current \in SetUp!File
    BY <1>3, PrepareFacts
  <2>2. CASE UNCHANGED <<aside, prepared>> BY <1>1, <2>1, <2>2
  <2>3. CASE ~ UNCHANGED <<aside, prepared>>
    <3>0. PICK c \in SetUp!File : c = SetUp!Current BY <2>1
    <3>1. /\ live[c] # SetUp!New /\ prepared' = prepared \cup {position}
          /\ c \in Guarded => live[c] = observed[c]
          /\ \A f \in SetUp!File : f # c => aside'[f] = aside[f]
          /\ \/ live[c] = SetUp!Absent /\ aside'[c] = SetUp!NoFile
             \/ live[c] # SetUp!Absent /\ c \in Guarded
             \/ live[c] # SetUp!Absent /\ c \notin Guarded /\ aside'[c] = live[c]
      BY <1>0, <1>3, <2>1, <2>3, <3>0, PrepareFacts
    <3>2. live[c] \in Unpublished(c) /\ Unpublished(c) = Unpublished(c)'
      BY <2>1, <3>0, <3>1 DEF Unchanged, NothingElse, Unpublished, ByEditor, Saved
    <3>3. live[c] # SetUp!NoFile
      BY <3>2, TargetFacts DEF Unpublished, ByEditor, Saved, SetUp!Absent, SetUp!NoFile
    <3>4. PreparedFor(c)'
      BY <2>1, <2>3, <3>0, <3>1, <3>2, <3>3 DEF PreparedFor, Restorable
    <3>5. \A n \in prepared' : Destinations[n] = c \/ (n \in prepared /\ Destinations[n] # c)
      BY <3>0, <3>1 DEF SetUp!Current
    <3> QED BY <1>0, <1>1, <2>1, <3>1, <3>4, <3>5
  <2> QED BY <1>3, <2>2, <2>3, PrepareFacts
<1>4. CASE SetUp!Publish
  <2>1. /\ stage = "publish" /\ position \in DOMAIN Destinations /\ SetUp!Current \in SetUp!File
        /\ UNCHANGED <<observed, prepared, edits>>
    BY <1>4, PublishFacts
  <2>0. PICK c \in SetUp!File : c = SetUp!Current BY <2>1
  <2>2. CASE aside' = aside BY <1>1, <2>1, <2>2
  <2>3. CASE /\ c \in Guarded /\ observed[c] # SetUp!Absent /\ observed[c] # SetUp!New
             /\ \A f \in SetUp!File : f # c => aside'[f] = aside[f]
    <3>1. PreparedFor(c)' BY <2>1, <2>3 DEF PreparedFor
    <3>2. \A n \in prepared' : Destinations[n] = c \/ (n \in prepared /\ Destinations[n] # c)
      BY <2>1
    <3> QED BY <1>0, <1>1, <2>1, <2>3, <3>1, <3>2
  <2>4. CASE stage' = "rollback" BY <2>4 DEF PreparedRestorable
  <2>5. \/ aside' = aside \/ stage' = "rollback"
        \/ /\ c \in Guarded /\ observed[c] # SetUp!Absent
           /\ \A f \in SetUp!File : f # c => aside'[f] = aside[f]
    BY <1>0, <1>4, <2>0, <2>1, PublishFacts
  <2>6. c \in Guarded => observed[c] # SetUp!New
    BY <1>4, <2>0, <2>1, PublishFacts
       DEF Unchanged, PreparedRestorable, PreparedFor, SetUp!Current
  <2> QED BY <2>2, <2>3, <2>4, <2>5, <2>6
<1>5. CASE SetUp!RollbackCheck \/ SetUp!Restore \/ SetUp!RemoveBackups
  BY <1>5 DEF SetUp!RollbackCheck, SetUp!Restore, SetUp!RemoveBackups, PreparedRestorable
<1>6. CASE SetUp!Render BY <1>6 DEF SetUp!Render, PreparedRestorable
<1>7. CASE \E f \in Guarded : Editing(f)
  <2>1. UNCHANGED <<stage, prepared, aside, observed>> BY <1>7 DEF Editing
  <2> QED BY <1>1, <2>1
<1>8. CASE UNCHANGED setUpVars BY <1>1, <1>8 DEF setUpVars
<1>9. CASE SetUp!Interrupted BY <1>9, InterruptFacts DEF PreparedRestorable
<1> QED BY <1>9, <1>2, <1>3, <1>4, <1>5, <1>6, <1>7, <1>8, SetUpSteps

\* What is about to be replaced has not been.
LEMMA NotYetPublishedKept ==
  SetUpTypes /\ LastStage /\ Known /\ Unchanged /\ [SetUp!SetUpNext]_setUpVars => NotYetPublished'
<1> SUFFICES ASSUME SetUpTypes, LastStage, Known, Unchanged, [SetUp!SetUpNext]_setUpVars,
                      NotYetPublished,
                    NEW c \in Guarded, stage' = "publish", c = SetUp!Current'
             PROVE  live'[c] \in Unpublished(c)'
  BY DEF NotYetPublished, SetUp!Current, Unchanged
<1>0. (\A f \in SetUp!File : Unpublished(f) \subseteq Unpublished(f)') /\ c \in SetUp!File
  BY EditsCounted, EditsAdd, TargetFacts
<1>1. CASE Quiet
  <2>1. /\ stage = "check" /\ position \in prepared /\ live[c] = observed[c]
        /\ c = SetUp!Current /\ live' = live
    BY <1>1 DEF Quiet, SetUp!Current
  <2>2. observed[c] # SetUp!New
    BY <2>1, TargetFacts
       DEF Unchanged, PreparedRestorable, PreparedFor, SetUp!Current, SetUpTypes
  <2>3. live[c] \in Unpublished(c)
    BY <1>0, <2>1, <2>2 DEF Unchanged, NothingElse
  <2> QED BY <1>0, <2>1, <2>3
<1>2. CASE SetUp!Prepare BY <1>2, PrepareFacts
<1>3. CASE SetUp!Publish BY <1>3, PublishFacts
<1>4. CASE SetUp!Render \/ SetUp!RollbackCheck \/ SetUp!Restore \/ SetUp!RemoveBackups
  BY <1>4 DEF SetUp!Render, SetUp!RollbackCheck, SetUp!Restore, SetUp!RemoveBackups
<1>5. CASE \E f \in Guarded : Editing(f)
  <2>1. PICK f \in Guarded : Editing(f) BY <1>5
  <2>2. stage = "publish" /\ c = SetUp!Current BY <2>1 DEF Editing, SetUp!Current
  <2>3. live[c] \in Unpublished(c) BY <2>2 DEF NotYetPublished
  <2> QED BY <1>0, <2>1, <2>3, EditLeaves
<1>6. CASE UNCHANGED setUpVars
  <2>1. stage = "publish" /\ c = SetUp!Current /\ live' = live
    BY <1>6 DEF setUpVars, SetUp!Current
  <2>2. live[c] \in Unpublished(c) BY <2>1 DEF NotYetPublished
  <2> QED BY <1>0, <2>1, <2>2
<1>7. CASE SetUp!Interrupted BY <1>7, InterruptFacts
<1> QED BY <1>7, <1>1, <1>2, <1>3, <1>4, <1>5, <1>6, SetUpSteps

\* The invariant holds at first, every step keeps it, and it implies what is promised.
LEMMA SetUpInitInv == SetUp!SetUpInit => SetUpInv
<1> SUFFICES ASSUME SetUp!SetUpInit PROVE SetUpInv
  OBVIOUS
<1>0. /\ \A f \in SetUp!File : Before[f] <= 0 /\ Before[f] \in Int
      /\ live = Before /\ observed = Before /\ aside = [f \in SetUp!File |-> SetUp!NoFile]
      /\ edits = 0 /\ activated = <<>> /\ stage = "start" /\ MaxEdits \in Nat
  <2>1. \A f \in SetUp!File : Before[f] \in {SetUp!Absent, SetUp!Former, SetUp!New}
    BY HostSetUpAssumption DEF SetUp!TargetsAssumption
  <2> QED BY <2>1, TargetFacts DEF SetUp!SetUpInit, SetUp!Absent, SetUp!Former, SetUp!New
<1>1. SetUpTypes
  BY <1>0, TargetFacts DEF SetUp!SetUpInit, SetUpTypes, ReplacementStages, SetUp!NoFile
<1>2. Known BY <1>0 DEF Known, SetUp!NoFile
<1>3. EditsAreKept BY <1>0 DEF EditsAreKept, Saved
<1>4. AsideIsKept /\ ObservedIsMerged BY <1>0 DEF AsideIsKept, ObservedIsMerged, Saved
<1>5. LastStage BY DEF SetUp!SetUpInit, LastStage
<1>6. Progressed BY <1>0 DEF Progressed, IsDone
<1>7. InOrder BY <1>0 DEF InOrder
<1>8. Unchanged
  BY <1>0
     DEF Unchanged, NothingElse, OthersUntouched, ReplacedRestorable, PreparedRestorable,
         NotYetPublished, Unpublished
<1> QED BY <1>1, <1>2, <1>3, <1>4, <1>5, <1>6, <1>7, <1>8 DEF SetUpInv

\* Every step keeps the invariant.
LEMMA SetUpInvKept == SetUpInv /\ [SetUp!SetUpNext]_setUpVars => SetUpInv'
BY SetUpTypesKept, KnownKept, EditsKept, AsideKept, MergedKept, LastStageKept, ProgressKept,
   OrderKept, NothingElseKept, OthersKept, RestorableKept, PreparedKept, NotYetPublishedKept
   DEF SetUpInv, Unchanged

\* And it implies what is promised.
LEMMA SetUpInvSuffices == SetUpInv => SetUp!SetUpTransactional
<1> SUFFICES ASSUME SetUpInv PROVE SetUp!SetUpTransactional
  OBVIOUS
<1>1. SetUp!SeenEditsSurvive
  BY DEF SetUpInv, SetUp!SeenEditsSurvive, EditsAreKept, Saved
<1>2. ASSUME NEW f \in SetUp!File, stage = "activated" PROVE live[f] \in PublishedOrEdited(f)
  BY <1>2, TargetFacts DEF SetUpInv, Progressed, IsDone
<1>3. ASSUME NEW f \in SetUp!File, stage = "failed", f \notin conflicts \cup abandoned
      PROVE live[f] \in Unpublished(f)
  BY <1>3 DEF SetUpInv, Unchanged, OthersUntouched, LastStage, Replaced
<1>4. SetUp!AllOrNothing
  BY <1>2, <1>3
     DEF SetUpInv, Unchanged, NothingElse, SetUp!AllOrNothing, PublishedOrEdited, Unpublished,
         ByEditor, Saved
<1> QED BY <1>1, <1>4 DEF SetUp!SetUpTransactional

-----------------------------------------------------------------------------
(* The installation of the servers beside other setups: ServerInstallation. *)

SomeBundle == [code : Nat, version : Nat]
Product == [bundle : SomeBundle, worker : Nat]
Installed == [github : Int, githubRecord : [tag : Nat, sha : Nat], worker : Nat,
              bundle : SomeBundle, record : Product]
SetupStages == {"idle", "resolve", "download", "identity", "build", "bundle", "worker",
                "copy bundle", "copy worker", "verify", "activate", "complete", "ended"}
BuildStages == {"idle", "begun", "bundling", "worker", "publish worker", "publish bundle",
                "publish metadata", "built"}
SetupRecord == [stage : SetupStages, declared : Nat, metadata : Product, staged : Installed,
                position : 1..Len(Installation!Files), before : Installed, wasTorn : BOOLEAN]

WorldTypes ==
  /\ sources \in 1..Len(PackageVersions) /\ latest \in Nat \ {0} /\ promised \in 0..latest
  /\ torn \in BOOLEAN /\ damaged \in BOOLEAN
  /\ canonical \in [worker : Nat, bundle : SomeBundle, metadata : Product]
  /\ build \in [Setups \cup BundleBuilds -> [stage : BuildStages, made : Product]]
InstallationTypes ==
  /\ WorldTypes /\ installed \in Installed /\ setup \in [Setups -> SetupRecord]

Works(s) == setup[s].stage \notin {"idle", "ended"}
LockIsHeldByOne == \A s \in Setups : Works(s) => lock = s

OneProduct(files) == files.record = [bundle |-> files.bundle, worker |-> files.worker]
OwnRecord(files) == files.githubRecord.sha = files.githubRecord.tag
KeepsPromise(files) ==
  /\ files.github >= promised
  /\ promised # Installation!Missing =>
       files.githubRecord = [tag |-> files.github, sha |-> files.github]

\* What a setup has staged: r is its record.
Staged(r) ==
  /\ r.stage \notin {"idle", "ended", "resolve"} =>
       r.staged.githubRecord.tag \in promised..latest
  /\ r.stage \notin {"idle", "ended", "resolve", "download"} =>
       OwnRecord(r.staged) /\ r.staged.github = r.staged.githubRecord.tag
  /\ r.stage \in {"verify", "activate", "complete"} => OneProduct(r.staged)
FormerIsSound(r) ==
  /\ OwnRecord(r.before)
  /\ ~r.wasTorn => OneProduct(r.before)
  /\ ~r.wasTorn /\ ~damaged => KeepsPromise(r.before)
Replacing(r) ==
  /\ r.stage \notin {"activate", "complete"} => r.position = 1
  /\ r.stage = "activate" =>
       /\ \A n \in 1..(r.position - 1) : installed[Installation!Files[n]] =
            r.staged[Installation!Files[n]]
       /\ FormerIsSound(r)
  /\ r.stage = "complete" => installed = r.staged /\ ~torn
SetupsAreSound == \A s \in Setups : Staged(setup[s]) /\ Replacing(setup[s])
InstalledIsSound ==
  /\ OwnRecord(installed)
  /\ ~torn => OneProduct(installed)
  /\ ~torn /\ ~damaged => KeepsPromise(installed)
InstallationInv ==
  InstallationTypes /\ LockIsHeldByOne /\ SetupsAreSound /\ InstalledIsSound

\* What is assumed of the setups and the versions.
LEMMA InstallationConstants ==
  /\ Installation!Nobody \notin Setups /\ Len(PackageVersions) \in Nat \ {0}
  /\ PackageVersions \in Seq(Nat)
  /\ \A n \in 1..Len(PackageVersions) : PackageVersions[n] \in Nat
  /\ Len(Installation!Files) = 5
BY HostSetUpAssumption
   DEF Installation!InstallationAssumption, Installation!BundleAssumption, Installation!Files

\* The types of what is empty.
LEMMA EmptyTypes ==
  /\ Installation!NewSetup \in SetupRecord /\ Installation!EndedSetup \in SetupRecord
  /\ Installation!NewSetup.stage = "idle" /\ Installation!EndedSetup.stage = "ended"
  /\ Installation!NewSetup.position = 1 /\ Installation!EndedSetup.position = 1
  /\ Installation!Nothing \in Installed /\ Installation!NoBundle \in SomeBundle
  /\ Installation!NoProduct \in Product
  /\ Installation!NewBuild \in [stage : BuildStages, made : Product]
<1>1. Installation!NoBundle \in SomeBundle
  BY DEF Installation!NoBundle, SomeBundle, Installation!Missing
<1>2. Installation!NoProduct \in Product
  BY <1>1 DEF Installation!NoProduct, Product, Installation!Missing
<1>3. Installation!Nothing \in Installed
  BY <1>1, <1>2 DEF Installation!Nothing, Installed, Installation!NoRecord, Installation!Missing
<1>4. Installation!NewSetup \in SetupRecord /\ Installation!NewSetup.stage = "idle"
        /\ Installation!NewSetup.position = 1
  BY <1>2, <1>3, InstallationConstants
     DEF Installation!NewSetup, SetupRecord, SetupStages, Installation!Missing
<1>5. Installation!EndedSetup \in SetupRecord /\ Installation!EndedSetup.stage = "ended"
        /\ Installation!EndedSetup.position = 1
  BY <1>4 DEF Installation!EndedSetup, SetupRecord, SetupStages
<1>6. Installation!NewBuild \in [stage : BuildStages, made : Product]
  BY <1>2 DEF Installation!NewBuild, BuildStages
<1> QED BY <1>1, <1>2, <1>3, <1>4, <1>5, <1>6

\* A setup that has not begun, or is over, has nothing to show.
LEMMA RestingSetup ==
  ASSUME NEW r, r.stage \in {"idle", "ended"}, r.position = 1
  PROVE  Staged(r) /\ Replacing(r) /\ Staged(r)' /\ Replacing(r)'
BY DEF Staged, Replacing

\* The installation begins in the invariant.
LEMMA InstallationInitInv == Installation!InstallationInit => InstallationInv
<1> SUFFICES ASSUME Installation!InstallationInit PROVE InstallationInv
  OBVIOUS
<1>1. WorldTypes
  <2>1. canonical \in [worker : Nat, bundle : SomeBundle, metadata : Product]
    BY EmptyTypes
       DEF Installation!InstallationInit, Installation!BundleInit, Installation!Missing
  <2>2. build \in [Setups \cup BundleBuilds -> [stage : BuildStages, made : Product]]
    BY EmptyTypes DEF Installation!InstallationInit, Installation!BundleInit
  <2>3. sources \in 1..Len(PackageVersions)
    BY InstallationConstants DEF Installation!InstallationInit, Installation!BundleInit
  <2>4. latest \in Nat \ {0} /\ promised \in 0..latest
    BY DEF Installation!InstallationInit, Installation!Missing
  <2>5. torn \in BOOLEAN /\ damaged \in BOOLEAN
    BY DEF Installation!InstallationInit
  <2> QED BY <2>1, <2>2, <2>3, <2>4, <2>5 DEF WorldTypes
<1>2. InstallationTypes BY <1>1, EmptyTypes DEF Installation!InstallationInit, InstallationTypes
<1>3. \A s \in Setups : setup[s] = Installation!NewSetup BY DEF Installation!InstallationInit
<1>4. LockIsHeldByOne BY <1>3, EmptyTypes DEF LockIsHeldByOne, Works
<1>5. SetupsAreSound BY <1>3, EmptyTypes, RestingSetup DEF SetupsAreSound
<1>6. InstalledIsSound
  BY DEF Installation!InstallationInit, InstalledIsSound, OwnRecord, OneProduct, KeepsPromise,
         Installation!Nothing, Installation!NoRecord, Installation!NoProduct,
         Installation!Missing, Installation!NoBundle
<1> QED BY <1>2, <1>4, <1>5, <1>6 DEF InstallationInv

\* While a setup works it holds the lock, and no other works.
LEMMA OthersRest ==
  ASSUME InstallationInv, NEW s \in Setups, Works(s) \/ lock = Installation!Nobody
  PROVE  \A r \in Setups : r # s => ~Works(r)
BY InstallationConstants DEF InstallationInv, LockIsHeldByOne

\* What a step of one setup has to show: its new record is sound, and so are the files.
LEMMA OwnStep ==
  ASSUME InstallationInv, NEW s \in Setups, Works(s) \/ lock = Installation!Nobody,
         NEW to \in SetupRecord, setup' = [setup EXCEPT ![s] = to],
         to.stage \notin {"idle", "ended"} => lock' = s,
         WorldTypes', installed' \in Installed,
         Staged(to)' /\ Replacing(to)', InstalledIsSound'
  PROVE  InstallationInv'
<1>1. /\ setup \in [Setups -> SetupRecord] /\ setup'[s] = to
      /\ \A r \in Setups : r # s => setup'[r] = setup[r] /\ ~Works(r)
      /\ setup' \in [Setups -> SetupRecord]
  BY OthersRest DEF InstallationInv, InstallationTypes
<1>2. InstallationTypes' BY <1>1 DEF InstallationTypes
<1>3. LockIsHeldByOne' BY <1>1 DEF LockIsHeldByOne, Works
<1>4. ASSUME NEW r \in Setups PROVE Staged(setup[r])' /\ Replacing(setup[r])'
  <2>1. CASE r = s BY <1>1, <2>1
  <2>2. CASE r # s
    <3>1. setup[r].stage \in {"idle", "ended"} /\ setup[r].position = 1 /\ setup'[r] = setup[r]
      BY <1>1, <2>2 DEF Works, InstallationInv, SetupsAreSound, Replacing
    <3> QED BY <3>1 DEF Staged, Replacing
  <2> QED BY <2>1, <2>2
<1> QED BY <1>2, <1>3, <1>4 DEF InstallationInv, SetupsAreSound

\* A step that reads, and what it has to show.
LEMMA ReadingStep ==
  ASSUME InstallationInv, NEW s \in Setups, NEW to \in SetupRecord, NEW from,
         from \notin {"idle", "ended"}, setup[s].stage = from,
         setup' = [setup EXCEPT ![s] = to], to.stage \notin {"idle", "ended"},
         UNCHANGED <<Installation!worldVars, canonical, damaged, lock, installed, torn,
                     promised>>,
         build' \in [Setups \cup BundleBuilds -> [stage : BuildStages, made : Product]],
         Staged(to), Replacing(to)
  PROVE  InstallationInv'
<1>1. Works(s) /\ lock' = s BY DEF Works, InstallationInv, LockIsHeldByOne
<1>2. WorldTypes' BY DEF InstallationInv, InstallationTypes, WorldTypes, Installation!worldVars
<1>3. installed' \in Installed BY DEF InstallationInv, InstallationTypes
<1>4. Staged(to)' /\ Replacing(to)'
  BY DEF Installation!worldVars, Staged, Replacing, FormerIsSound, KeepsPromise
<1>5. InstalledIsSound'
  BY DEF InstallationInv, InstalledIsSound, KeepsPromise
<1> QED BY <1>1, <1>2, <1>3, <1>4, <1>5, OwnStep

\* The world moves on beside the setups.
LEMMA WorldStep ==
  ASSUME InstallationInv, WorldTypes', latest' >= latest,
         UNCHANGED <<lock, setup, torn, promised>>,
         \/ UNCHANGED <<installed, damaged>>
         \/ /\ lock = Installation!Nobody /\ damaged' /\ installed' \in Installed
            /\ OwnRecord(installed)'
            /\ installed'.record = installed.record /\ installed'.bundle = installed.bundle
            /\ installed'.worker = installed.worker
  PROVE  InstallationInv'
<1>1. InstallationTypes' /\ LockIsHeldByOne'
  BY DEF InstallationInv, InstallationTypes, LockIsHeldByOne, Works
<1>2. InstalledIsSound'
  BY DEF InstallationInv, InstalledIsSound, KeepsPromise, OwnRecord, OneProduct
<1>3. ASSUME NEW s \in Setups PROVE Staged(setup[s])' /\ Replacing(setup[s])'
  <2>0. setup[s] \in SetupRecord /\ Staged(setup[s]) /\ Replacing(setup[s])
    BY DEF InstallationInv, InstallationTypes, SetupsAreSound
  <2>1. CASE setup[s].stage \in {"idle", "ended"} BY <2>0, <2>1 DEF Replacing, Staged
  <2>2. CASE Works(s)
    <3>1. UNCHANGED <<installed, damaged>>
      BY <2>2, InstallationConstants DEF InstallationInv, LockIsHeldByOne
    <3>2. Staged(setup[s])'
      BY SMTT(30), <2>0 DEF Staged, InstallationInv, InstallationTypes, WorldTypes, SetupRecord, Installed
    <3>3. Replacing(setup[s])' BY <2>0, <3>1 DEF Replacing, FormerIsSound, KeepsPromise
    <3> QED BY <3>2, <3>3
  <2> QED BY <2>1, <2>2 DEF Works
<1> QED BY <1>1, <1>2, <1>3 DEF InstallationInv, SetupsAreSound

\* Builds of the bundle leave the installation alone.
LEMMA BuildKept ==
  ASSUME InstallationInv, Installation!BundleIsBuilt PROVE InstallationInv'
<1>1. PICK r \in Setups \cup BundleBuilds :
        Installation!BuildBegins(r) \/ Installation!BuildNext(r)
  BY DEF Installation!BundleIsBuilt
<1>2. /\ sources \in 1..Len(PackageVersions) /\ sources \in Nat
      /\ PackageVersions[sources] \in Nat
      /\ canonical \in [worker : Nat, bundle : SomeBundle, metadata : Product]
      /\ build \in [Setups \cup BundleBuilds -> [stage : BuildStages, made : Product]]
      /\ build[r] \in [stage : BuildStages, made : Product]
  BY InstallationConstants DEF InstallationInv, InstallationTypes, WorldTypes
<1>3. /\ build' \in [Setups \cup BundleBuilds -> [stage : BuildStages, made : Product]]
      /\ sources' = sources
  <2>1. CASE Installation!BuildBegins(r)
    BY <1>2, <2>1, EmptyTypes DEF Installation!BuildBegins, Installation!BuildStep, BuildStages
  <2>2. CASE Installation!ReadPackage(r)
    BY <1>2, <2>2
       DEF Installation!ReadPackage, Installation!BuildStep, BuildStages, Product, SomeBundle
  <2>3. CASE Installation!BundleApplication(r)
    BY <1>2, <2>3
       DEF Installation!BundleApplication, Installation!BuildStep, BuildStages, Product,
           SomeBundle
  <2>4. CASE Installation!BundleWorker(r)
    BY <1>2, <2>4 DEF Installation!BundleWorker, Installation!BuildStep, BuildStages, Product
  <2>5. CASE Installation!PublishWorker(r)
    BY <1>2, <2>5 DEF Installation!PublishWorker, Installation!BuildStep, BuildStages
  <2>7. CASE Installation!PublishBundle(r)
    BY <1>2, <2>7 DEF Installation!PublishBundle, Installation!BuildStep, BuildStages
  <2>6. CASE Installation!PublishMetadata(r)
    BY <1>2, <2>6, EmptyTypes
       DEF Installation!PublishMetadata, Installation!BuildStep, BuildStages
  <2> QED BY <1>1, <2>1, <2>2, <2>3, <2>4, <2>5, <2>6, <2>7 DEF Installation!BuildNext
<1>4. canonical' \in [worker : Nat, bundle : SomeBundle, metadata : Product]
  BY <1>1, <1>2
     DEF Installation!BuildBegins, Installation!BuildNext, Installation!ReadPackage,
         Installation!BundleApplication, Installation!BundleWorker, Installation!PublishWorker,
         Installation!PublishBundle, Installation!PublishMetadata, Product
<1>5. UNCHANGED <<latest, damages, lock, setup, installed, torn, damaged, promised>>
  BY DEF Installation!BundleIsBuilt, Installation!historyVars
<1>6. WorldTypes' BY <1>2, <1>3, <1>4, <1>5 DEF InstallationInv, InstallationTypes, WorldTypes
<1>7. latest' >= latest BY <1>5 DEF InstallationInv, InstallationTypes, WorldTypes
<1> QED BY <1>5, <1>6, <1>7, WorldStep

\* So do edits and releases; a loss is remembered.
LEMMA WorldKept ==
  ASSUME InstallationInv,
         \/ Installation!SourcesAreEdited \/ Installation!PublishRelease
         \/ Installation!LoseFile
  PROVE  InstallationInv'
<1>0. WorldTypes /\ installed \in Installed /\ OwnRecord(installed)
  BY DEF InstallationInv, InstallationTypes, InstalledIsSound
<1>1. CASE Installation!SourcesAreEdited
  BY <1>0, <1>1, WorldStep, InstallationConstants
     DEF Installation!SourcesAreEdited, Installation!EditSources, WorldTypes,
         Installation!historyVars
<1>2. CASE Installation!PublishRelease
  BY <1>0, <1>2, WorldStep DEF Installation!PublishRelease, WorldTypes, Installation!historyVars
<1>3. CASE Installation!LoseFile
  <2>1. WorldTypes' /\ latest' >= latest
    BY <1>0, <1>3 DEF Installation!LoseFile, WorldTypes
  <2>2. installed' \in Installed /\ OwnRecord(installed)'
    BY <1>0, <1>3
       DEF Installation!LoseFile, Installed, OwnRecord, Installation!Damaged,
           Installation!NoRecord, Installation!Missing
  <2>3. /\ installed'.record = installed.record /\ installed'.bundle = installed.bundle
        /\ installed'.worker = installed.worker
    BY <1>0, <1>3 DEF Installation!LoseFile, Installed
  <2> QED BY <1>3, <2>1, <2>2, <2>3, WorldStep DEF Installation!LoseFile
<1> QED BY <1>1, <1>2, <1>3

\* The steps of a setup up to its activation.
LEMMA SetupFacts ==
  ASSUME InstallationInv, NEW s \in Setups
  PROVE  /\ setup[s] \in SetupRecord /\ setup[s].staged \in Installed
         /\ setup[s].metadata \in Product
         /\ setup[s].staged.githubRecord \in [tag : Nat, sha : Nat]
         /\ Staged(setup[s]) /\ Replacing(setup[s]) /\ WorldTypes
         /\ installed \in Installed /\ OwnRecord(installed)
BY DEF InstallationInv, InstallationTypes, SetupsAreSound, InstalledIsSound, SetupRecord,
       Installed

\* A step that changes the stage and at most what is declared, the metadata and the bundle.
LEMMA StagingStep ==
  ASSUME InstallationInv, NEW s \in Setups, NEW to \in SetupRecord, NEW from, NEW next,
         from \in {"identity", "build", "bundle", "worker", "copy bundle"},
         next \in {"build", "bundle", "worker", "copy bundle", "copy worker"},
         setup[s].stage = from, setup' = [setup EXCEPT ![s] = to],
         to.stage = next, to.position = setup[s].position,
         to.staged.githubRecord = setup[s].staged.githubRecord,
         to.staged.github = setup[s].staged.github,
         UNCHANGED <<Installation!worldVars, canonical, damaged, lock, installed, torn,
                     promised>>,
         build' \in [Setups \cup BundleBuilds -> [stage : BuildStages, made : Product]]
  PROVE  InstallationInv'
<1>1. Staged(to) BY SetupFacts DEF Staged, OwnRecord
<1>2. Replacing(to) BY SetupFacts DEF Replacing
<1> QED BY <1>1, <1>2, ReadingStep

\* The server of GitHub that is staged is of the release that is declared.
LEMMA StagedGithubFacts ==
  ASSUME NEW tag \in Nat
  PROVE  /\ Installation!StagedGithub(tag, tag) \in Installed
         /\ Installation!StagedGithub(tag, tag).github = tag
         /\ Installation!StagedGithub(tag, tag).githubRecord = [tag |-> tag, sha |-> tag]
<1>1. PICK n \in Installed : n = Installation!Nothing BY EmptyTypes
<1>2. PICK r \in [tag : Nat, sha : Nat] : r = [tag |-> tag, sha |-> tag]
  OBVIOUS
<1>3. Installation!StagedGithub(tag, tag) = [n EXCEPT !.github = tag, !.githubRecord = r]
  BY <1>1, <1>2 DEF Installation!StagedGithub
<1>a. tag \in Int
  OBVIOUS
<1>b. PICK m \in Installed : m = [n EXCEPT !.github = tag] BY <1>a DEF Installed
<1>4. [m EXCEPT !.githubRecord = r] \in Installed BY DEF Installed
<1>5. [n EXCEPT !.github = tag, !.githubRecord = r] = [m EXCEPT !.githubRecord = r]
  BY <1>b DEF Installed
<1> QED BY <1>2, <1>3, <1>4, <1>5 DEF Installed

\* A setup settles which release of the server of GitHub to use.
LEMMA ResolveKept ==
  ASSUME InstallationInv, NEW s \in Setups, Installation!ResolveRelease(s) PROVE InstallationInv'
<1> USE SetupFacts DEF Installation!ResolveRelease, Installation!Reads, Installation!SetupStep
<1>a. latest \in Nat \ {0} /\ promised \in 0..latest BY DEF WorldTypes
<1>b. latest \in promised..latest BY <1>a
<1>c. build' \in [Setups \cup BundleBuilds -> [stage : BuildStages, made : Product]]
  BY DEF WorldTypes
<1>0. /\ latest \in Nat \ {0} /\ promised \in 0..latest /\ latest \in promised..latest
      /\ build' \in [Setups \cup BundleBuilds -> [stage : BuildStages, made : Product]]
  BY <1>a, <1>b, <1>c
<1>1. CASE Installation!CurrentInstallation
  <2> DEFINE to == [setup[s] EXCEPT !.stage = "identity",
                                    !.staged = Installation!StagedGithub(latest,
                                                                         installed.github)]
  <2>1. installed.github = latest BY <1>1 DEF Installation!CurrentInstallation, OwnRecord
  <2>2. /\ Installation!StagedGithub(latest, installed.github) \in Installed
        /\ Installation!StagedGithub(latest, installed.github).github = latest
        /\ Installation!StagedGithub(latest, installed.github).githubRecord = [tag |-> latest,
                                                                               sha |-> latest]
    BY <1>0, <2>1, StagedGithubFacts
  <2>3. /\ to \in SetupRecord /\ to.stage = "identity" /\ to.position = setup[s].position
        /\ to.staged = Installation!StagedGithub(latest, installed.github)
    BY <2>2 DEF SetupRecord, SetupStages
  <2>4. Staged(to) BY <1>0, <2>2, <2>3 DEF Staged, OwnRecord
  <2>5. Replacing(to) BY <2>3 DEF Replacing
  <2>6. setup' = [setup EXCEPT ![s] = to] BY <1>1
  <2> HIDE DEF to
  <2> QED BY <1>0, <2>3, <2>4, <2>5, <2>6, ReadingStep
<1>2. CASE ~ Installation!CurrentInstallation
  <2> DEFINE to == [setup[s] EXCEPT !.stage = "download", !.staged.githubRecord.tag = latest]
  <2>1. /\ to \in SetupRecord /\ to.stage = "download" /\ to.position = setup[s].position
        /\ to.staged.githubRecord.tag = latest
    BY ZenonT(40), <1>0 DEF SetupRecord, SetupStages, Installed
  <2>2. Staged(to) BY <1>0, <2>1 DEF Staged
  <2>3. Replacing(to) BY <2>1 DEF Replacing
  <2>4. setup' = [setup EXCEPT ![s] = to] BY <1>2
  <2> HIDE DEF to
  <2> QED BY <1>0, <2>1, <2>2, <2>3, <2>4, ReadingStep
<1> QED BY <1>1, <1>2

\* It stages that server.
LEMMA DownloadKept ==
  ASSUME InstallationInv, NEW s \in Setups, Installation!Download(s) PROVE InstallationInv'
<1> USE SetupFacts DEF Installation!Download, Installation!Reads, Installation!SetupStep
<1>1. PICK tag \in Nat : tag = setup[s].staged.githubRecord.tag
  OBVIOUS
<1> DEFINE to == [setup[s] EXCEPT !.stage = "identity",
                  !.staged = Installation!StagedGithub(tag, tag)]
<1>2. /\ Installation!StagedGithub(tag, tag) \in Installed
      /\ Installation!StagedGithub(tag, tag).github = tag
      /\ Installation!StagedGithub(tag, tag).githubRecord = [tag |-> tag, sha |-> tag]
  BY <1>1, StagedGithubFacts
<1>3. /\ to \in SetupRecord /\ to.stage = "identity" /\ to.position = setup[s].position
      /\ to.staged = Installation!StagedGithub(tag, tag)
  BY <1>2 DEF SetupRecord, SetupStages
<1>4. Staged(to) BY SMTT(30), <1>1, <1>2, <1>3 DEF Staged, OwnRecord
<1>5. Replacing(to) BY <1>3 DEF Replacing
<1>6. /\ setup' = [setup EXCEPT ![s] = to]
      /\ build' \in [Setups \cup BundleBuilds -> [stage : BuildStages, made : Product]]
  BY <1>1 DEF WorldTypes
<1> HIDE DEF to
<1> QED BY <1>3, <1>4, <1>5, <1>6, ReadingStep

\* It builds, reads and copies the bundle.
LEMMA StagingKept ==
  ASSUME InstallationInv, NEW s \in Setups,
         \/ Installation!ReadIdentity(s) \/ Installation!ReadMetadata(s)
         \/ Installation!CheckBundle(s) \/ Installation!CheckWorker(s)
         \/ Installation!CopyBundle(s)
  PROVE  InstallationInv'
<1> USE SetupFacts DEF Installation!Reads, Installation!SetupStep
<1>0. /\ sources \in 1..Len(PackageVersions) /\ PackageVersions[sources] \in Nat
      /\ canonical.bundle \in SomeBundle /\ canonical.metadata \in Product
      /\ build \in [Setups \cup BundleBuilds -> [stage : BuildStages, made : Product]]
  BY InstallationConstants DEF WorldTypes
<1>1. CASE Installation!ReadIdentity(s)
  <2> DEFINE to == [setup[s] EXCEPT !.stage = "build", !.declared = PackageVersions[sources]]
  <2>1. /\ to \in SetupRecord /\ to.stage = "build" /\ to.position = setup[s].position
        /\ to.staged = setup[s].staged
    BY <1>0 DEF SetupRecord, SetupStages
  <2>2. build' \in [Setups \cup BundleBuilds -> [stage : BuildStages, made : Product]]
    BY <1>0, <1>1 DEF Installation!ReadIdentity, BuildStages
  <2>3. setup' = [setup EXCEPT ![s] = to] BY <1>1 DEF Installation!ReadIdentity
  <2> HIDE DEF to
  <2> QED BY <1>1, <2>1, <2>2, <2>3, StagingStep DEF Installation!ReadIdentity
<1>2. CASE Installation!ReadMetadata(s)
  <2> DEFINE to == [setup[s] EXCEPT !.stage = "bundle", !.metadata = canonical.metadata]
  <2>1. /\ to \in SetupRecord /\ to.stage = "bundle" /\ to.position = setup[s].position
        /\ to.staged = setup[s].staged
    BY <1>0 DEF SetupRecord, SetupStages
  <2>2. setup' = [setup EXCEPT ![s] = to] BY <1>2 DEF Installation!ReadMetadata
  <2> HIDE DEF to
  <2> QED BY <1>0, <1>2, <2>1, <2>2, StagingStep DEF Installation!ReadMetadata
<1>3. CASE Installation!CheckBundle(s)
  <2> DEFINE to == [setup[s] EXCEPT !.stage = "worker"]
  <2>1. /\ to \in SetupRecord /\ to.stage = "worker" /\ to.position = setup[s].position
        /\ to.staged = setup[s].staged
    BY DEF SetupRecord, SetupStages
  <2>2. setup' = [setup EXCEPT ![s] = to] BY <1>3 DEF Installation!CheckBundle
  <2> HIDE DEF to
  <2> QED BY <1>0, <1>3, <2>1, <2>2, StagingStep DEF Installation!CheckBundle
<1>4. CASE Installation!CheckWorker(s)
  <2> DEFINE to == [setup[s] EXCEPT !.stage = "copy bundle"]
  <2>1. /\ to \in SetupRecord /\ to.stage = "copy bundle" /\ to.position = setup[s].position
        /\ to.staged = setup[s].staged
    BY DEF SetupRecord, SetupStages
  <2>2. setup' = [setup EXCEPT ![s] = to] BY <1>4 DEF Installation!CheckWorker
  <2> HIDE DEF to
  <2> QED BY <1>0, <1>4, <2>1, <2>2, StagingStep DEF Installation!CheckWorker
<1>5. CASE Installation!CopyBundle(s)
  <2> DEFINE to == [setup[s] EXCEPT !.stage = "copy worker", !.staged.bundle = canonical.bundle]
  <2>1. /\ to \in SetupRecord /\ to.stage = "copy worker" /\ to.position = setup[s].position
        /\ to.staged.githubRecord = setup[s].staged.githubRecord
        /\ to.staged.github = setup[s].staged.github
    BY ZenonT(40), <1>0 DEF SetupRecord, SetupStages, Installed
  <2>2. setup' = [setup EXCEPT ![s] = to] BY <1>5 DEF Installation!CopyBundle
  <2>3. /\ setup[s].stage = "copy bundle" /\ build' = build
        /\ UNCHANGED <<Installation!worldVars, canonical, damaged, lock, installed, torn,
                       promised>>
    BY <1>5 DEF Installation!CopyBundle
  <2>4. build' \in [Setups \cup BundleBuilds -> [stage : BuildStages, made : Product]]
    BY <1>0, <2>3
  <2>5. to \in SetupRecord /\ to.stage = "copy worker" /\ to.position = setup[s].position
    BY <2>1
  <2>6. Staged(to) /\ Replacing(to) BY <2>1, <2>3 DEF Staged, Replacing, OwnRecord
  <2> HIDE DEF to, Installation!Reads, Installation!SetupStep
  <2> QED BY <2>2, <2>3, <2>4, <2>5, <2>6, ReadingStep
<1> QED BY <1>1, <1>2, <1>3, <1>4, <1>5

\* It copies the worker, with which what is staged is of one product.
LEMMA CopyWorkerKept ==
  ASSUME InstallationInv, NEW s \in Setups, Installation!CopyWorker(s) PROVE InstallationInv'
<1> USE SetupFacts DEF Installation!CopyWorker, Installation!Reads, Installation!SetupStep
<1> DEFINE to == [setup[s] EXCEPT !.stage = "verify", !.staged.worker = canonical.worker,
                                  !.staged.record = setup[s].metadata]
<1>0. /\ canonical.worker = setup[s].metadata.worker /\ canonical.worker \in Nat
      /\ setup[s].staged.bundle = setup[s].metadata.bundle
      /\ build' \in [Setups \cup BundleBuilds -> [stage : BuildStages, made : Product]]
  BY DEF Installation!SameWorker, Installation!SameBundle, WorldTypes
<1>1. /\ to \in SetupRecord /\ to.stage = "verify" /\ to.position = setup[s].position
      /\ to.staged.githubRecord = setup[s].staged.githubRecord
      /\ to.staged.github = setup[s].staged.github
      /\ to.staged.worker = canonical.worker /\ to.staged.record = setup[s].metadata
      /\ to.staged.bundle = setup[s].staged.bundle
  BY ZenonT(40), <1>0 DEF SetupRecord, SetupStages, Installed
<1>2. setup[s].metadata = [bundle |-> setup[s].metadata.bundle,
                           worker |-> setup[s].metadata.worker]
  BY DEF Product
<1>3. Staged(to) BY <1>0, <1>1, <1>2 DEF Staged, OwnRecord, OneProduct
<1>4. Replacing(to) BY <1>1 DEF Replacing
<1>5. setup' = [setup EXCEPT ![s] = to]
  OBVIOUS
<1> HIDE DEF to
<1> QED BY <1>0, <1>1, <1>3, <1>4, <1>5, ReadingStep

\* It verifies what it has staged, and begins to replace the files.
LEMMA VerifyKept ==
  ASSUME InstallationInv, NEW s \in Setups, Installation!Verify(s) PROVE InstallationInv'
<1> USE SetupFacts DEF Installation!Verify, Installation!Reads, Installation!SetupStep
<1> DEFINE to == [setup[s] EXCEPT !.stage = "activate", !.before = installed, !.wasTorn = torn]
<1>1. /\ to \in SetupRecord /\ to.stage = "activate" /\ to.position = 1
      /\ to.staged = setup[s].staged /\ to.before = installed /\ to.wasTorn = torn
  BY DEF SetupRecord, SetupStages, WorldTypes, Replacing
<1>2. Staged(to) BY <1>1 DEF Staged
<1>3. InstalledIsSound BY DEF InstallationInv
<1>4. Replacing(to) BY <1>1, <1>3 DEF Replacing, FormerIsSound, InstalledIsSound
<1>5. /\ setup' = [setup EXCEPT ![s] = to]
      /\ build' \in [Setups \cup BundleBuilds -> [stage : BuildStages, made : Product]]
  BY DEF WorldTypes
<1> HIDE DEF to
<1> QED BY <1>1, <1>2, <1>4, <1>5, ReadingStep

\* One file takes the place of another, and what five of them make.
LEMMA FilesAre ==
  /\ Installation!Files[1] = "github" /\ Installation!Files[2] = "githubRecord"
  /\ Installation!Files[3] = "worker"
  /\ Installation!Files[4] = "bundle" /\ Installation!Files[5] = "record"
BY DEF Installation!Files OneReplaced(a, b,
       n) == [a EXCEPT ![Installation!Files[n]] = b[Installation!Files[n]]]

\* What one replacement makes of five files.
LEMMA ReplacedFile ==
  ASSUME NEW a \in Installed, NEW b \in Installed, NEW n \in 1..5
  PROVE  /\ OneReplaced(a, b, n) \in Installed
         /\ OneReplaced(a, b, n).githubRecord \in {a.githubRecord, b.githubRecord}
         /\ OneReplaced(a, b, n)[Installation!Files[n]] = b[Installation!Files[n]]
         /\ \A m \in 1..5 : m # n =>
              OneReplaced(a, b, n)[Installation!Files[m]] = a[Installation!Files[m]]
<1> USE FilesAre DEF Installed, OneReplaced
<1>1. CASE n = 1 BY <1>1
<1>2. CASE n = 2 BY <1>2
<1>3. CASE n = 3 BY <1>3
<1>4. CASE n = 4 BY <1>4
<1>5. CASE n = 5 BY <1>5
<1> QED BY <1>1, <1>2, <1>3, <1>4, <1>5

\* Installations of the same files are the same.
LEMMA SameFiles ==
  ASSUME NEW a \in Installed, NEW b \in Installed,
         \A n \in 1..5 : a[Installation!Files[n]] = b[Installation!Files[n]]
  PROVE  a = b
<1>1. /\ a["github"] = b["github"] /\ a["githubRecord"] = b["githubRecord"]
      /\ a["worker"] = b["worker"] /\ a["bundle"] = b["bundle"] /\ a["record"] = b["record"]
  BY FilesAre
<1> QED BY <1>1 DEF Installed

\* A setup takes the lock.
LEMMA AcquireKept ==
  ASSUME InstallationInv, NEW s \in Setups, Installation!Acquire(s) PROVE InstallationInv'
<1> USE SetupFacts DEF Installation!Acquire, Installation!SetupStep
<1>0. PICK r \in SetupRecord : r = setup[s]
  OBVIOUS
<1> DEFINE to == [r EXCEPT !.stage = "resolve"]
<1>1. to \in SetupRecord /\ to.stage = "resolve" /\ to.position = 1
  BY <1>0 DEF SetupRecord, SetupStages, Replacing
<1>2. lock = Installation!Nobody /\ lock' = s /\ setup' = [setup EXCEPT ![s] = to]
  BY <1>0 DEF Installation!LockIsFree
<1> HIDE DEF to
<1>3. WorldTypes' /\ installed' \in Installed BY DEF WorldTypes, Installation!worldVars
<1>4. Staged(to)' /\ Replacing(to)' BY <1>1 DEF Staged, Replacing
<1>5. InstalledIsSound' BY DEF InstallationInv, InstalledIsSound, KeepsPromise
<1> QED BY <1>1, <1>2, <1>3, <1>4, <1>5, OwnStep

\* One that finds what it needs refused ends.
LEMMA RefusedKept ==
  ASSUME InstallationInv, NEW s \in Setups, Installation!Refused(s) PROVE InstallationInv'
<1> USE SetupFacts DEF Installation!Refused, Installation!Reads, Installation!SetupStep
<1>1. /\ setup \in [Setups -> SetupRecord]
      /\ setup' = [setup EXCEPT ![s] = Installation!EndedSetup]
      /\ setup' \in [Setups -> SetupRecord]
      /\ UNCHANGED <<Installation!worldVars, canonical, damaged, build, lock, installed, torn,
                     promised>>
  BY EmptyTypes DEF InstallationInv, InstallationTypes
<1>2. InstallationTypes' BY <1>1 DEF InstallationTypes, WorldTypes, Installation!worldVars
<1>3. LockIsHeldByOne'
  BY <1>1, EmptyTypes DEF InstallationInv, LockIsHeldByOne, Works
<1>4. ASSUME NEW r \in Setups PROVE Staged(setup[r])' /\ Replacing(setup[r])'
  <2>1. CASE r = s BY <1>1, <2>1, EmptyTypes, RestingSetup DEF Staged, Replacing
  <2>2. CASE r # s
    <3>1. setup'[r] = setup[r] BY <1>1, <2>2
    <3> QED BY <1>1, <3>1
               DEF Installation!worldVars, Staged, Replacing, FormerIsSound, KeepsPromise
  <2> QED BY <2>1, <2>2
<1>5. InstalledIsSound' BY DEF InstallationInv, InstalledIsSound, KeepsPromise
<1> QED BY <1>2, <1>4, <1>3, <1>5 DEF InstallationInv, SetupsAreSound

\* A setup that ends has nothing more to show.
LEMMA EndStep ==
  ASSUME InstallationInv, NEW s \in Setups, Works(s),
         setup' = [setup EXCEPT ![s] = Installation!EndedSetup], WorldTypes',
         installed' \in Installed,
         InstalledIsSound'
  PROVE  InstallationInv'
<1>1. Staged(Installation!EndedSetup)' /\ Replacing(Installation!EndedSetup)'
  BY EmptyTypes DEF Staged, Replacing
<1> QED BY <1>1, EmptyTypes, OwnStep

\* A setup that stops before it replaces a file leaves the installation as it is.
LEMMA StopsKept ==
  ASSUME InstallationInv, NEW s \in Setups, Installation!Stops(s) PROVE InstallationInv'
<1>1. /\ Works(s) /\ setup' = [setup EXCEPT ![s] = Installation!EndedSetup]
      /\ UNCHANGED <<Installation!worldVars, canonical, damaged, build, installed, torn,
                     promised>>
  BY DEF Installation!Stops, Installation!SetupStep, Works
<1>2. WorldTypes' /\ installed' \in Installed
  BY <1>1, SetupFacts DEF WorldTypes, Installation!worldVars
<1>3. InstalledIsSound' BY <1>1 DEF InstallationInv, InstalledIsSound, KeepsPromise
<1> QED BY <1>1, <1>2, <1>3, EndStep

\* One that fails later restores what it found.
LEMMA RestoreKept ==
  ASSUME InstallationInv, NEW s \in Setups, Installation!Restore(s) PROVE InstallationInv'
<1> USE SetupFacts
<1>1. /\ setup[s].stage = "activate" /\ setup' = [setup EXCEPT ![s] = Installation!EndedSetup]
      /\ UNCHANGED <<Installation!worldVars, canonical, damaged, build, promised>>
      /\ installed' = setup[s].before /\ torn' = setup[s].wasTorn
  BY DEF Installation!Restore, Installation!SetupStep
<1>2. Works(s) /\ setup[s].before \in Installed /\ setup[s].wasTorn \in BOOLEAN
  BY <1>1 DEF Works, SetupRecord
<1>3. WorldTypes' /\ installed' \in Installed
  BY <1>1, <1>2 DEF WorldTypes, Installation!worldVars
<1>4. FormerIsSound(setup[s]) BY <1>1 DEF Replacing
<1>5. InstalledIsSound'
  BY <1>1, <1>4 DEF FormerIsSound, InstalledIsSound, OwnRecord, OneProduct, KeepsPromise
<1> QED BY <1>1, <1>2, <1>3, <1>5, EndStep

\* A setup that completes has installed what it staged.
LEMMA CompleteKept ==
  ASSUME InstallationInv, NEW s \in Setups, Installation!Complete(s) PROVE InstallationInv'
<1> USE SetupFacts
<1>1. /\ setup[s].stage = "complete" /\ setup' = [setup EXCEPT ![s] = Installation!EndedSetup]
      /\ UNCHANGED <<Installation!worldVars, canonical, build, installed, torn>>
      /\ damaged' = FALSE
      /\ promised' = IF setup[s].staged.githubRecord.tag > promised
                     THEN setup[s].staged.githubRecord.tag ELSE promised
  BY DEF Installation!Complete
<1>2. PICK files \in Installed : files = setup[s].staged
  OBVIOUS
<1>3. PICK tag \in Nat : tag = files.githubRecord.tag BY <1>2
<1>4. /\ installed = files /\ ~torn /\ files.github = tag /\ tag \in promised..latest
      /\ OwnRecord(files) /\ OneProduct(files)
  BY <1>1, <1>2, <1>3 DEF Staged, Replacing
<1>5. /\ latest \in Nat \ {0} /\ promised \in 0..latest /\ promised' = tag
  BY <1>1, <1>2, <1>3, <1>4 DEF WorldTypes
<1>6. WorldTypes' /\ installed' \in Installed
  <2>a. promised' \in 0..latest BY <1>4, <1>5
  <2>1. promised' \in 0..latest /\ damaged' \in BOOLEAN BY <1>1, <2>a
  <2> QED BY <1>1, <2>1 DEF WorldTypes, Installation!worldVars
<1>7. files.githubRecord = [tag |-> files.github, sha |-> files.github]
  BY <1>2, <1>3, <1>4 DEF OwnRecord
<1>8. InstalledIsSound'
  BY <1>1, <1>4, <1>5, <1>7 DEF InstalledIsSound, OwnRecord, OneProduct, KeepsPromise
<1>9. Works(s) BY <1>1 DEF Works
<1> QED BY <1>1, <1>6, <1>8, <1>9, EndStep

\* It replaces the files one by one: between two of them it may be killed.
LEMMA ActivateKept ==
  ASSUME InstallationInv, NEW s \in Setups, Installation!Activate(s) PROVE InstallationInv'
<1> USE SetupFacts
<1>0. PICK r \in SetupRecord : r = setup[s]
  OBVIOUS
<1>1. PICK p \in 1..5 : p = setup[s].position BY InstallationConstants DEF SetupRecord
<1>2. PICK files \in Installed : files = setup[s].staged
  OBVIOUS
<1>3. /\ setup[s].stage = "activate"
      /\ setup' = [setup EXCEPT ![s] = IF p = 5 THEN [setup[s] EXCEPT !.stage = "complete"]
                                       ELSE [setup[s] EXCEPT !.position = @ + 1]]
      /\ installed' = [installed EXCEPT ![Installation!Files[p]] = files[Installation!Files[p]]]
      /\ torn' = (p # 5)
      /\ UNCHANGED <<Installation!worldVars, canonical, damaged, build, lock, promised>>
  BY <1>1, <1>2, InstallationConstants
     DEF Installation!Activate, Installation!SetupStep, Installation!Last
<1>4. Works(s) /\ lock' = s
  BY <1>3 DEF Works, InstallationInv, LockIsHeldByOne
<1>5. /\ installed' \in Installed
      /\ installed'.githubRecord \in {installed.githubRecord, files.githubRecord}
      /\ installed'[Installation!Files[p]] = files[Installation!Files[p]]
      /\ \A m \in 1..5 : m # p =>
           installed'[Installation!Files[m]] = installed[Installation!Files[m]]
  <2>1. installed' = [installed EXCEPT ![Installation!Files[p]] = files[Installation!Files[p]]]
    BY <1>3
  <2>2. PICK c : c = installed'
    OBVIOUS
  <2>3. PICK a \in Installed : a = installed
    OBVIOUS
  <2>4. c = OneReplaced(a, files, p) BY <2>1, <2>2, <2>3 DEF OneReplaced
  <2> HIDE SetupFacts
  <2>5. /\ c \in Installed /\ c.githubRecord \in {a.githubRecord, files.githubRecord}
        /\ c[Installation!Files[p]] = files[Installation!Files[p]]
        /\ \A m \in 1..5 : m # p => c[Installation!Files[m]] = a[Installation!Files[m]]
    BY <2>4, ReplacedFile
  <2> QED BY <2>2, <2>3, <2>5
<1>6. WorldTypes' BY <1>3 DEF WorldTypes, Installation!worldVars
<1>7. OwnRecord(files) /\ files.github = files.githubRecord.tag /\ OneProduct(files)
      /\ files.githubRecord.tag \in promised..latest
      /\ files.githubRecord \in [tag : Nat, sha : Nat]
  BY <1>2, <1>3 DEF Staged
<1>8. OwnRecord(installed)' BY <1>5, <1>7 DEF OwnRecord
<1>9. \A m \in 1..(p - 1) : installed[Installation!Files[m]] = files[Installation!Files[m]]
  BY <1>1, <1>2, <1>3 DEF Replacing
<1>10. FormerIsSound(r) BY <1>0, <1>3 DEF Replacing
<1>13. /\ promised' = promised /\ latest' = latest /\ damaged' = damaged
  BY <1>3 DEF Installation!worldVars
<1>11. CASE p # 5
  <2>0. p + 1 \in 1..Len(Installation!Files) BY <1>11, InstallationConstants
  <2> DEFINE to == [r EXCEPT !.position = p + 1]
  <2>1. /\ to \in SetupRecord /\ to.stage = "activate" /\ to.position = p + 1
        /\ to.staged = files
        /\ to.before = r.before /\ to.wasTorn = r.wasTorn
    BY <1>0, <1>2, <1>3, <2>0 DEF SetupRecord
  <2>2. setup' = [setup EXCEPT ![s] = to] BY <1>0, <1>1, <1>3, <1>11
  <2> HIDE DEF to
  <2>3. Staged(to)'
    BY <1>7, <1>13, <2>1 DEF Staged, OwnRecord, OneProduct
  <2>4. ASSUME NEW m \in 1..(to.position - 1)
        PROVE installed'[Installation!Files[m]] = to.staged[Installation!Files[m]]
    <3>1. m = p \/ m \in 1..(p - 1) BY <2>1
    <3> QED BY <1>5, <1>9, <2>1, <3>1
  <2>5. FormerIsSound(to)'
    BY <1>10, <1>13, <2>1 DEF FormerIsSound, OwnRecord, OneProduct, KeepsPromise
  <2>6. Replacing(to)' BY <2>1, <2>4, <2>5 DEF Replacing
  <2>7. InstalledIsSound' BY <1>3, <1>8, <1>11 DEF InstalledIsSound
  <2> QED BY <1>4, <1>5, <1>6, <2>1, <2>2, <2>3, <2>6, <2>7, OwnStep
<1>12. CASE p = 5
  <2> DEFINE to == [r EXCEPT !.stage = "complete"]
  <2>1. to \in SetupRecord /\ to.stage = "complete" /\ to.staged = files
    BY <1>0, <1>2 DEF SetupRecord, SetupStages
  <2>2. setup' = [setup EXCEPT ![s] = to] BY <1>0, <1>3, <1>12
  <2> HIDE DEF to
  <2>3. Staged(to)'
    BY <1>7, <1>13, <2>1 DEF Staged, OwnRecord, OneProduct
  <2>4. \A n \in 1..5 : installed'[Installation!Files[n]] = files[Installation!Files[n]]
    <3>1. \A n \in 1..5 : n = p \/ n \in 1..(p - 1) BY <1>12
    <3> QED BY <1>5, <1>9, <3>1
  <2>5. installed' = files BY <1>5, <2>4, SameFiles
  <2>6. Replacing(to)' BY <1>3, <1>12, <2>1, <2>5 DEF Replacing
  <2>7. files.githubRecord = [tag |-> files.github, sha |-> files.github]
    BY <1>7 DEF OwnRecord
  <2>8. files.github >= promised BY <1>7 DEF WorldTypes
  <2>9. InstalledIsSound'
    BY <1>3, <1>7, <1>8, <2>5, <2>7, <2>8 DEF InstalledIsSound, OneProduct, KeepsPromise
  <2> QED BY <1>4, <1>5, <1>6, <2>1, <2>2, <2>3, <2>6, <2>9, OwnStep
<1> QED BY <1>11, <1>12

\* Every step keeps the invariant.
LEMMA InstallationInvKept ==
  InstallationInv /\ [Installation!InstallationNext]_installationVars => InstallationInv'
<1> SUFFICES ASSUME InstallationInv, [Installation!InstallationNext]_installationVars
             PROVE  InstallationInv'
  OBVIOUS
<1>1. CASE Installation!BundleIsBuilt BY <1>1, BuildKept
<1>2. CASE Installation!SourcesAreEdited \/ Installation!PublishRelease \/ Installation!LoseFile
  BY <1>2, WorldKept
<1>3. ASSUME NEW s \in Setups, Installation!SetupNext(s) PROVE InstallationInv'
  BY <1>3, AcquireKept, RefusedKept, ResolveKept, DownloadKept, StagingKept, CopyWorkerKept,
     VerifyKept, ActivateKept, CompleteKept, RestoreKept, StopsKept DEF Installation!SetupNext
<1>4. CASE UNCHANGED installationVars
  <2>1. UNCHANGED <<sources, latest, canonical, build, lock, setup, installed, torn, damaged,
                    promised>>
    BY <1>4 DEF installationVars
  <2> QED BY <2>1
             DEF InstallationInv, InstallationTypes, WorldTypes, LockIsHeldByOne, Works,
                 SetupsAreSound, Staged, Replacing, FormerIsSound, InstalledIsSound,
                 KeepsPromise
<1> QED BY <1>1, <1>2, <1>3, <1>4 DEF Installation!InstallationNext

\* And it implies what is promised.
LEMMA InstallationInvSuffices == InstallationInv => Installation!InstallationSound
BY DEF InstallationInv, InstalledIsSound, Installation!InstallationSound,
       Installation!InstalledIsOneProduct, Installation!RecordCanBeBelieved,
       Installation!NothingIsTakenBack, OwnRecord, OneProduct, KeepsPromise

-----------------------------------------------------------------------------
HostSetUpInv == SetUpInv /\ InstallationInv

\* A set-up of set_up_mcp_servers.py that ends has changed all files, or none but those it
\* names as conflicts and those that an interrupt makes it leave as they are, each of which is
\* whole; and it loses no edit but one made while it restores a document or displaced from a
\* document that an interrupt makes it leave.  What it installs is one
\* product, a record that fits it tells its release, and as long as nothing is lost it is no
\* older than a release that an installation has promised: for any destinations and guarded
\* documents, any number of set-ups, builds, edits, releases and losses.
THEOREM HostSetUpIsSafe == HostSetUpSpec => []HostSetUpSafe
<1>1. HostSetUpInit => HostSetUpInv
  BY SetUpInitInv, InstallationInitInv DEF HostSetUpInit, HostSetUpInv
<1>2. HostSetUpInv /\ [HostSetUpNext]_<<setUpVars, installationVars>> => HostSetUpInv'
  <2>1. HostSetUpNext => [SetUp!SetUpNext]_setUpVars
    BY DEF HostSetUpNext
  <2>2. HostSetUpNext => [Installation!InstallationNext]_installationVars
    BY DEF HostSetUpNext
  <2> QED BY <2>1, <2>2, SetUpInvKept, InstallationInvKept DEF HostSetUpInv
<1>3. HostSetUpInv => HostSetUpSafe
  BY SetUpInvSuffices, InstallationInvSuffices DEF HostSetUpInv, HostSetUpSafe
<1> QED BY <1>1, <1>2, <1>3, PTL DEF HostSetUpSpec

-----------------------------------------------------------------------------
(* The configuration of the installed process.                             *)

\* What has been made of some arguments.
Parsings == [values : [Options -> Values \cup {NotSet}], flags : SUBSET Flags,
             wants : Options \cup {NotSet}, refused : BOOLEAN]
Parsed(args) == FoldLeft(Argument, NothingParsed, args)

\* What arguments are made of.
LEMMA NotSetIsNoValue == NotSet \notin Values
BY DEF NotSet, Values, Empty

LEMMA ArgumentForms ==
  ASSUME NEW a \in Arguments
  PROVE  /\ a.form \in {"attached", "bare", "flag", "word"}
         /\ a.form \in {"attached", "bare"} => a.name \in Options
         /\ a.form = "flag" => a.name \in Flags /\ a = Flag(a.name)
         /\ a.form \in {"attached", "word"} => a.value \in Values
         /\ \A o \in Options : a = Bare(o) <=> a.form = "bare" /\ a.name = o
<1>1. CASE a \in {Bare(o) : o \in Options}
  BY <1>1 DEF Bare
<1>2. CASE a \in {Flag(f) : f \in Flags}
  BY <1>2 DEF Flag, Bare
<1>3. CASE a \in [form : {"attached"}, name : Options, value : Values]
  BY <1>3 DEF Bare
<1>4. CASE a \in [form : {"word"}, name : {"none"}, value : Values]
  BY <1>4 DEF Bare
<1> QED BY <1>1, <1>2, <1>3, <1>4 DEF Arguments

\* What an argument does to what has been parsed, form by form.
Takes(p, a, q) ==
  \/ q = Refuse(p)
  \/ p.refused /\ q = p
  \/ /\ ~p.refused /\ p.wants # NotSet /\ a.form = "word"
     /\ q = [p EXCEPT !.values[p.wants] = a.value, !.wants = NotSet]
  \/ /\ ~p.refused /\ p.wants = NotSet /\ a.form = "flag"
     /\ q = [p EXCEPT !.flags = @ \union {a.name}]
  \/ /\ ~p.refused /\ p.wants = NotSet /\ a.form = "attached" /\ p.values[a.name] = NotSet
     /\ q = [p EXCEPT !.values[a.name] = a.value]
  \/ /\ ~p.refused /\ p.wants = NotSet /\ a.form = "bare" /\ p.values[a.name] = NotSet
     /\ q = [p EXCEPT !.wants = a.name]

LEMMA ArgumentTakes ==
  ASSUME NEW p \in Parsings, NEW a \in Arguments
  PROVE  Takes(p, a, Argument(p, a))
BY ArgumentForms DEF Takes, Argument

LEMMA NothingParsedType == NothingParsed \in Parsings
<1>1. NotSet \in Values \cup {NotSet}
  OBVIOUS
<1>3. {} \in SUBSET Flags /\ FALSE \in BOOLEAN
  OBVIOUS
<1>2. /\ [o \in Options |-> NotSet] \in [Options -> Values \cup {NotSet}]
      /\ NotSet \in Options \cup {NotSet}
  BY <1>1
<1> QED BY <1>1, <1>2, <1>3 DEF NothingParsed, Parsings

LEMMA ArgumentType ==
  ASSUME NEW p \in Parsings, NEW a \in Arguments
  PROVE  Argument(p, a) \in Parsings
<1>1. /\ p.values \in [Options -> Values \cup {NotSet}] /\ p.flags \in SUBSET Flags
      /\ p.wants \in Options \cup {NotSet} /\ p.refused \in BOOLEAN
  BY DEF Parsings
<1> DEFINE q == Argument(p, a)
<1>2. Takes(p, a, q)
  BY ArgumentTakes
<1> HIDE DEF q
<1>3. ASSUME q = Refuse(p)
      PROVE  q \in Parsings
  <2>1. q = [values |-> p.values, flags |-> p.flags, wants |-> p.wants, refused |-> TRUE]
    BY <1>3 DEF Refuse, Parsings
  <2> QED BY <1>1, <2>1 DEF Parsings
<1>4. ASSUME p.wants # NotSet /\ a.form = "word"
           /\ q = [p EXCEPT !.values[p.wants] = a.value, !.wants = NotSet]
      PROVE  q \in Parsings
  <2>1. a.value \in Values /\ p.wants \in Options
    BY <1>1, <1>4, ArgumentForms
  <2>2. q = [values |-> [p.values EXCEPT ![p.wants] = a.value], flags |-> p.flags,
             wants |-> NotSet, refused |-> p.refused]
    BY <1>4 DEF Parsings
  <2>3. [p.values EXCEPT ![p.wants] = a.value] \in [Options -> Values \cup {NotSet}]
    BY <1>1, <2>1
  <2> QED BY <1>1, <2>2, <2>3 DEF Parsings
<1>5. ASSUME a.form = "flag" /\ q = [p EXCEPT !.flags = @ \union {a.name}]
      PROVE  q \in Parsings
  <2>1. p.flags \union {a.name} \in SUBSET Flags
    BY <1>1, <1>5, ArgumentForms
  <2>2. q = [values |-> p.values, flags |-> p.flags \cup {a.name}, wants |-> p.wants,
             refused |-> p.refused]
    BY <1>5 DEF Parsings
  <2> QED BY <1>1, <2>1, <2>2 DEF Parsings
<1>6. ASSUME a.form = "attached" /\ q = [p EXCEPT !.values[a.name] = a.value]
      PROVE  q \in Parsings
  <2>1. a.value \in Values /\ a.name \in Options
    BY <1>6, ArgumentForms
  <2>2. q = [values |-> [p.values EXCEPT ![a.name] = a.value], flags |-> p.flags,
             wants |-> p.wants, refused |-> p.refused]
    BY <1>6 DEF Parsings
  <2>3. [p.values EXCEPT ![a.name] = a.value] \in [Options -> Values \cup {NotSet}]
    BY <1>1, <2>1
  <2> QED BY <1>1, <2>2, <2>3 DEF Parsings
<1>7. ASSUME a.form = "bare" /\ q = [p EXCEPT !.wants = a.name]
      PROVE  q \in Parsings
  <2>1. a.name \in Options
    BY <1>7, ArgumentForms
  <2>2. q = [values |-> p.values, flags |-> p.flags, wants |-> a.name, refused |-> p.refused]
    BY <1>7 DEF Parsings
  <2> QED BY <1>1, <2>1, <2>2 DEF Parsings
<1>8. ASSUME q = p
      PROVE  q \in Parsings
  BY <1>8
<1>9. q \in Parsings
  BY <1>2, <1>3, <1>4, <1>5, <1>6, <1>7, <1>8 DEF Takes
<1> QED BY <1>9 DEF q

ParseStep(args, iter) ==
  [s \in SUBSET (DOMAIN args) |->
     IF s = {} THEN NothingParsed
     ELSE Argument(iter[s \ {Max(s)}], args[Max(s)])]

LEMMA ParseUnfolds ==
  ASSUME NEW args
  PROVE  Parsed(args) = (CHOOSE iter : iter = ParseStep(args, iter))[DOMAIN args]
BY DEF Parsed, FoldLeft, MapThenFoldSet, ParseStep

\* What has been parsed after each argument.
ParseTrace(f, args) ==
  /\ f \in [0..Len(args) -> Parsings] /\ f[0] = NothingParsed
  /\ \A i \in 1..Len(args) : f[i] = Argument(f[i - 1], args[i])
  /\ Parsed(args) = f[Len(args)]

LEMMA ParseChain ==
  ASSUME NEW args \in Seq(Arguments)
  PROVE  \E f : ParseTrace(f, args)
<1> DEFINE n == Len(args)
           V == Parsings
           b == NothingParsed
           op == [i \in 1..n |-> [q \in V |-> Argument(q, args[i])]]
           iter == CHOOSE g : g = ParseStep(args, g)
           f == [i \in 0..n |-> iter[1..i]]
<1>1. n \in Nat /\ DOMAIN args = 1..n
  OBVIOUS
<1>2. op \in [1..n -> [V -> V]] /\ b \in V
  <2>1. NothingParsed \in Parsings
    BY NothingParsedType
  <2>2. \A i \in 1..n : args[i] \in Arguments
    BY <1>1
  <2>3. \A i \in 1..n : \A q \in Parsings : Argument(q, args[i]) \in Parsings
    BY <2>2, ArgumentType
  <2> QED BY <2>1, <2>3
<1>3. \A i \in 1..n : \A q \in V : op[i][q] = Argument(q, args[i])
  OBVIOUS
<1> HIDE DEF n, V, b, op, iter
<1>4. PICK g \in [SUBSET (1..n) -> V] : IsLeftFold(g, n, V, b, op)
  BY ONLY <1>1, <1>2, LeftFoldExists
<1>5. g = ParseStep(args, g)
  <2>1. ASSUME NEW s \in SUBSET (1..n)
        PROVE  g[s] = IF s = {} THEN NothingParsed
                      ELSE Argument(g[s \ {Max(s)}], args[Max(s)])
    <3>1. CASE s = {}
      BY <1>4, <3>1 DEF b, IsLeftFold
    <3>2. CASE s # {}
      <4>1. Max(s) \in 1..n /\ s \ {Max(s)} \in SUBSET (1..n)
        BY <1>1, <3>2, GreatestOfSome
      <4>2. g[s] = op[Max(s)][g[s \ {Max(s)}]] /\ g[s \ {Max(s)}] \in V
        BY <1>4, <3>2, <4>1 DEF IsLeftFold
      <4> QED BY <1>3, <3>2, <4>1, <4>2
    <3> QED BY <3>1, <3>2
  <2>2. g = [s \in SUBSET (1..n) |-> g[s]]
    OBVIOUS
  <2> QED BY <1>1, <2>1, <2>2 DEF ParseStep
<1>6. iter = ParseStep(args, iter)
  BY <1>5 DEF iter
<1>7. \A s \in SUBSET (1..n) :
        iter[s] = IF s = {} THEN NothingParsed
                  ELSE Argument(iter[s \ {Max(s)}], args[Max(s)])
  <2>1. ASSUME NEW s \in SUBSET (1..n) PROVE iter[s] = ParseStep(args, iter)[s]
    BY <1>6
  <2> QED BY <1>1, <2>1 DEF ParseStep
<1>8. IsLeftFold(iter, n, V, b, op)
  <2>1. ASSUME NEW s \in SUBSET (1..n), s # {}, iter[s \ {Max(s)}] \in V
        PROVE  iter[s] = op[Max(s)][iter[s \ {Max(s)}]]
    <3>1. Max(s) \in 1..n
      BY <1>1, <2>1, GreatestOfSome
    <3> QED BY <1>3, <1>7, <2>1, <3>1
  <2> QED BY <1>7, <2>1 DEF b, IsLeftFold
<1>9. f = [i \in 0..n |-> iter[1..i]]
  OBVIOUS
<1>10. Parsed(args) = f[n]
  <2>1. Parsed(args) = iter[1..n] /\ n \in 0..n
    BY <1>1, ParseUnfolds DEF iter
  <2> QED BY <2>1
<1> HIDE DEF f
<1>11. IsChain(f, n, V, b, op)
  BY ONLY <1>1, <1>2, <1>8, <1>9, LeftFoldChain
<1>12. /\ f \in [0..n -> V] /\ f[0] = NothingParsed
       /\ \A i \in 1..n : f[i] = Argument(f[i - 1], args[i])
  <2>1. /\ f \in [0..n -> V] /\ f[0] = b /\ \A i \in 1..n : f[i] = op[i][f[i - 1]]
    BY <1>11 DEF IsChain
  <2>2. \A i \in 1..n : i - 1 \in 0..n
    BY <1>1
  <2> QED BY <1>3, <2>1, <2>2 DEF b
<1> QED BY <1>10, <1>12 DEF n, V, ParseTrace

\* The k-th argument gives the option o the value v.
Gives(args, k, o, v) ==
  /\ v = args[k].value
  /\ \/ args[k].form = "attached" /\ args[k].name = o
     \/ k > 1 /\ args[k - 1] = Bare(o)

\* What the first i arguments have given is what has been parsed, if nothing was refused.
IsRead(p, args, i) ==
  /\ \A k \in 1..i, o \in Options : \A v :
       Gives(args, k, o, v) => v # NotSet /\ p.values[o] = v
  /\ \A o \in Options : p.values[o] # NotSet => \E k \in 1..i : Gives(args, k, o, p.values[o])
  /\ p.wants # NotSet =>
       i > 0 /\ args[i] = Bare(p.wants) /\ p.wants \in Options /\ p.values[p.wants] = NotSet
  /\ p.wants = NotSet => \A o \in Options : i > 0 => args[i] # Bare(o)
  /\ \A x \in Flags : (\E k \in 1..i : args[k] = Flag(x)) => x \in p.flags

\* One more argument is read.
LEMMA IsReadStep ==
  ASSUME NEW args \in Seq(Arguments), NEW p \in Parsings, NEW i \in Nat,
         i + 1 <= Len(args), IsRead(p, args, i), ~Argument(p, args[i + 1]).refused
  PROVE  IsRead(Argument(p, args[i + 1]), args, i + 1) /\ ~p.refused
<1> DEFINE a == args[i + 1]
           q == Argument(p, a)
<1>1. a \in Arguments /\ q \in Parsings
  BY ArgumentType
<1>2. Takes(p, a, q) /\ q.refused = FALSE
  BY <1>1, ArgumentTakes DEF Parsings
<1>3. /\ a.form \in {"attached", "bare"} => a.name \in Options
      /\ a.form \in {"attached", "word"} => a.value # NotSet
      /\ a.form = "flag" => a = Flag(a.name)
      /\ \A o \in Options : a = Bare(o) <=> a.form = "bare" /\ a.name = o
  BY <1>1, ArgumentForms, NotSetIsNoValue
<1>4. /\ p.values \in [Options -> Values \cup {NotSet}] /\ p.flags \in SUBSET Flags
      /\ p.wants \in Options \cup {NotSet} /\ p.refused \in BOOLEAN
  BY DEF Parsings
<1>5. /\ \A k \in 1..i, o \in Options : \A v :
           Gives(args, k, o, v) => v # NotSet /\ p.values[o] = v
      /\ \A o \in Options :
           p.values[o] # NotSet => \E k \in 1..i : Gives(args, k, o, p.values[o])
      /\ p.wants # NotSet =>
           i > 0 /\ args[i] = Bare(p.wants) /\ p.wants \in Options /\ p.values[p.wants] = NotSet
      /\ p.wants = NotSet => \A o \in Options : i > 0 => args[i] # Bare(o)
      /\ \A x \in Flags : (\E k \in 1..i : args[k] = Flag(x)) => x \in p.flags
  BY DEF IsRead
<1>6. \A o, v : Gives(args, i + 1, o, v) <=>
                  /\ v = a.value
                  /\ (a.form = "attached" /\ a.name = o) \/ (i > 0 /\ args[i] = Bare(o))
  BY DEF Gives
<1>7. \A k \in 1..(i + 1) : k = i + 1 \/ k \in 1..i
  OBVIOUS
<1> HIDE DEF a, q
<1>8. \A o \in Options : i > 0 /\ args[i] = Bare(o) => p.wants = o
  BY <1>4, <1>5 DEF Bare
<1>10. q # Refuse(p)
  BY <1>2, <1>4 DEF Refuse, Parsings
<1>11. ASSUME p.wants # NotSet, a.form = "word",
              q = [p EXCEPT !.values[p.wants] = a.value, !.wants = NotSet], ~p.refused
       PROVE  IsRead(q, args, i + 1) /\ ~p.refused
  <2>1. /\ q.wants = NotSet /\ q.flags = p.flags /\ q.values[p.wants] = a.value
        /\ \A o \in Options : o # p.wants => q.values[o] = p.values[o]
    BY <1>4, <1>11 DEF Parsings
  <2>2. /\ args[i] = Bare(p.wants) /\ p.wants \in Options /\ p.values[p.wants] = NotSet /\ i > 0
        /\ a.value # NotSet /\ a.form # "attached" /\ a.form # "bare"
    BY <1>3, <1>5, <1>11
  <2>3. \A k \in 1..(i + 1), o \in Options : \A v :
          Gives(args, k, o, v) => v # NotSet /\ q.values[o] = v
    BY <1>5, <1>6, <1>7, <1>8, <2>1, <2>2
  <2>4. ASSUME NEW o \in Options, q.values[o] # NotSet
        PROVE  \E k \in 1..(i + 1) : Gives(args, k, o, q.values[o])
    <3>1. CASE o = p.wants
      BY <1>6, <2>1, <2>2, <3>1
    <3>2. CASE o # p.wants
      BY <1>5, <2>1, <2>4, <3>2
    <3> QED BY <3>1, <3>2
  <2>5. \A o \in Options : a # Bare(o)
    BY <1>3, <2>2
  <2>6. \A x \in Flags : a # Flag(x)
    BY <1>11 DEF Flag
  <2>7. \A x \in Flags : (\E k \in 1..(i + 1) : args[k] = Flag(x)) => x \in q.flags
    BY <1>5, <1>7, <2>1, <2>6 DEF a
  <2> QED BY <1>11, <2>1, <2>3, <2>4, <2>5, <2>7 DEF IsRead, a
<1>12. ASSUME p.wants = NotSet, a.form = "flag",
              q = [p EXCEPT !.flags = @ \union {a.name}], ~p.refused
       PROVE  IsRead(q, args, i + 1) /\ ~p.refused
  <2>1. q.wants = NotSet /\ q.flags = p.flags \cup {a.name} /\ q.values = p.values
    BY <1>4, <1>12 DEF Parsings
  <2>2. \A o \in Options : \A v : ~Gives(args, i + 1, o, v)
    BY <1>5, <1>6, <1>12
  <2>3. \A k \in 1..(i + 1), o \in Options : \A v :
          Gives(args, k, o, v) => v # NotSet /\ q.values[o] = v
    BY <1>5, <1>7, <2>1, <2>2
  <2>4. ASSUME NEW o \in Options, q.values[o] # NotSet
        PROVE  \E k \in 1..(i + 1) : Gives(args, k, o, q.values[o])
    BY <1>5, <2>1, <2>4
  <2>5. \A o \in Options : a # Bare(o)
    BY <1>3, <1>12
  <2>6. \A x \in Flags : a = Flag(x) => x = a.name
    BY DEF Flag
  <2>7. \A x \in Flags : (\E k \in 1..(i + 1) : args[k] = Flag(x)) => x \in q.flags
    BY <1>5, <1>7, <2>1, <2>6 DEF a
  <2> QED BY <1>12, <2>1, <2>3, <2>4, <2>5, <2>7 DEF IsRead, a
<1>13. ASSUME p.wants = NotSet, a.form = "attached", p.values[a.name] = NotSet,
              q = [p EXCEPT !.values[a.name] = a.value], ~p.refused
       PROVE  IsRead(q, args, i + 1) /\ ~p.refused
  <2>1. /\ q.wants = NotSet /\ q.flags = p.flags
        /\ a.name \in Options /\ a.value # NotSet /\ q.values[a.name] = a.value
        /\ \A o \in Options : o # a.name => q.values[o] = p.values[o]
    BY <1>3, <1>4, <1>13 DEF Parsings
  <2>3. \A k \in 1..(i + 1), o \in Options : \A v :
          Gives(args, k, o, v) => v # NotSet /\ q.values[o] = v
    BY <1>5, <1>6, <1>7, <1>13, <2>1
  <2>4. ASSUME NEW o \in Options, q.values[o] # NotSet
        PROVE  \E k \in 1..(i + 1) : Gives(args, k, o, q.values[o])
    <3>1. CASE o = a.name
      <4>1. i + 1 \in 1..(i + 1) /\ q.values[o] = a.value
        BY <2>1, <3>1
      <4>2. Gives(args, i + 1, o, a.value)
        BY <1>6, <1>13, <3>1
      <4> QED BY <4>1, <4>2
    <3>2. CASE o # a.name
      BY <1>5, <2>1, <2>4, <3>2
    <3> QED BY <3>1, <3>2
  <2>5. \A o \in Options : a # Bare(o)
    BY <1>3, <1>13
  <2>6. \A x \in Flags : a # Flag(x)
    BY <1>13 DEF Flag
  <2>7. \A x \in Flags : (\E k \in 1..(i + 1) : args[k] = Flag(x)) => x \in q.flags
    BY <1>5, <1>7, <2>1, <2>6 DEF a
  <2> QED BY <1>13, <2>1, <2>3, <2>4, <2>5, <2>7 DEF IsRead, a
<1>14. ASSUME p.wants = NotSet, a.form = "bare", p.values[a.name] = NotSet,
              q = [p EXCEPT !.wants = a.name], ~p.refused
       PROVE  IsRead(q, args, i + 1) /\ ~p.refused
  <2>1. /\ q.wants = a.name /\ q.flags = p.flags /\ q.values = p.values
        /\ a.name \in Options /\ a = Bare(a.name) /\ a.name # NotSet
    <3>1. q.wants = a.name /\ q.flags = p.flags /\ q.values = p.values
      BY <1>4, <1>14 DEF Parsings
    <3>2. a.name \in Options /\ a = Bare(a.name)
      BY <1>3, <1>14
    <3>3. a.name # NotSet
      BY <3>2 DEF Options, NotSet
    <3> QED BY <3>1, <3>2, <3>3
  <2>2. \A o \in Options : \A v : ~Gives(args, i + 1, o, v)
    BY <1>5, <1>6, <1>14
  <2>3. \A k \in 1..(i + 1), o \in Options : \A v :
          Gives(args, k, o, v) => v # NotSet /\ q.values[o] = v
    BY <1>5, <1>7, <2>1, <2>2
  <2>4. ASSUME NEW o \in Options, q.values[o] # NotSet
        PROVE  \E k \in 1..(i + 1) : Gives(args, k, o, q.values[o])
    BY <1>5, <2>1, <2>4
  <2>6. \A x \in Flags : a # Flag(x)
    BY <1>14 DEF Flag
  <2>7. \A x \in Flags : (\E k \in 1..(i + 1) : args[k] = Flag(x)) => x \in q.flags
    BY <1>5, <1>7, <2>1, <2>6 DEF a
  <2> QED BY <1>14, <2>1, <2>3, <2>4, <2>7 DEF IsRead, a
<1>15. ~(p.refused /\ q = p)
  BY <1>2
<1>16. IsRead(q, args, i + 1) /\ ~p.refused
  BY <1>2, <1>10, <1>11, <1>12, <1>13, <1>14, <1>15 DEF Takes
<1> QED BY <1>16 DEF q, a

\* What has been parsed, if nothing was refused, is what the arguments give.
LEMMA AllIsRead ==
  ASSUME NEW args \in Seq(Arguments), ~Parsed(args).refused
  PROVE  IsRead(Parsed(args), args, Len(args)) /\ Parsed(args) \in Parsings
<1>1. PICK f : ParseTrace(f, args)
  BY ParseChain
<1>2. /\ f \in [0..Len(args) -> Parsings] /\ f[0] = NothingParsed
      /\ \A i \in 1..Len(args) : f[i] = Argument(f[i - 1], args[i])
      /\ Parsed(args) = f[Len(args)]
  BY <1>1 DEF ParseTrace
<1>3. PICK n \in Nat : n = Len(args)
  OBVIOUS
<1> DEFINE S(i) == i <= n /\ ~f[i].refused => IsRead(f[i], args, i)
<1>4. S(0)
  <2>1. /\ \A o \in Options : NothingParsed.values[o] = NotSet
        /\ NothingParsed.wants = NotSet
    BY DEF NothingParsed
  <2> QED BY <1>2, <2>1 DEF IsRead
<1>5. \A i \in Nat : S(i) => S(i + 1)
  <2> SUFFICES ASSUME NEW i \in Nat, S(i), i + 1 <= n, ~f[i + 1].refused
               PROVE  IsRead(f[i + 1], args, i + 1)
    OBVIOUS
  <2>1. f[i + 1] = Argument(f[i], args[i + 1]) /\ f[i] \in Parsings /\ args[i + 1] \in Arguments
    <3>1. i + 1 \in 1..n /\ i \in 0..n /\ (i + 1) - 1 = i
      OBVIOUS
    <3> QED BY <1>2, <1>3, <3>1
  <2>2. f[i].refused => f[i + 1].refused
    BY <2>1 DEF Argument
  <2> QED BY <1>3, <2>1, <2>2, IsReadStep
<1> DEFINE Bad == {i \in Nat : ~S(i)}
<1>6. Bad = {}
  <2>1. ASSUME Bad # {} PROVE FALSE
    <3> HIDE DEF S
    <3>1. Min(Bad) \in Bad /\ \A j \in Bad : Min(Bad) <= j
      BY <2>1, LeastElement
    <3>2. Min(Bad) \in Nat /\ Min(Bad) # 0
      BY <1>4, <3>1
    <3>3. Min(Bad) - 1 \in Nat /\ Min(Bad) - 1 \notin Bad /\ (Min(Bad) - 1) + 1 = Min(Bad)
      BY <3>1, <3>2
    <3>4. S(Min(Bad) - 1)
      BY <3>3
    <3>5. S((Min(Bad) - 1) + 1)
      BY <1>5, <3>3, <3>4
    <3> QED BY <3>1, <3>3, <3>5
  <2> QED BY <2>1
<1>7. S(n)
  BY <1>6
<1> QED BY <1>2, <1>3, <1>7

\* What an accepted list of arguments gives an option is what has been parsed.
LEMMA GivenIsParsed ==
  ASSUME arguments \in Seq(Arguments), ~Parsed(arguments).refused,
         Parsed(arguments).wants = NotSet, NEW o \in Options
  PROVE  Given(o) = {Parsed(arguments).values[o]} \ {NotSet}
<1> DEFINE p == Parsed(arguments)
           n == Len(arguments)
<1>1. IsRead(p, arguments, n) /\ n \in Nat /\ DOMAIN arguments = 1..n
  BY AllIsRead
<1>2. /\ \A k \in 1..n : \A v : Gives(arguments, k, o, v) => v # NotSet /\ p.values[o] = v
      /\ p.values[o] # NotSet => \E k \in 1..n : Gives(arguments, k, o, p.values[o])
      /\ n > 0 => arguments[n] # Bare(o)
  BY <1>1 DEF IsRead
<1> HIDE DEF p
<1>3. \A v : v \in Given(o) <=> \E k \in 1..n : Gives(arguments, k, o, v)
  <2>1. ASSUME NEW v \in Given(o) PROVE \E k \in 1..n : Gives(arguments, k, o, v)
    <3>1. CASE \E k \in 1..n : /\ arguments[k].form = "attached" /\ arguments[k].name = o
                               /\ v = arguments[k].value
      BY <3>1 DEF Gives
    <3>2. CASE \E j \in 1..(n - 1) : arguments[j] = Bare(o) /\ v = arguments[j + 1].value
      <4>1. PICK j \in 1..(n - 1) : arguments[j] = Bare(o) /\ v = arguments[j + 1].value
        BY <3>2
      <4>2. j + 1 \in 1..n /\ j + 1 > 1 /\ (j + 1) - 1 = j
        BY <1>1
      <4> QED BY <4>1, <4>2 DEF Gives
    <3> QED BY <1>1, <2>1, <3>1, <3>2 DEF Given, ToSet
  <2>2. ASSUME NEW v, NEW k \in 1..n, Gives(arguments, k, o, v) PROVE v \in Given(o)
    <3>1. CASE arguments[k].form = "attached" /\ arguments[k].name = o
      BY <1>1, <2>2, <3>1 DEF Given, ToSet, Gives
    <3>2. CASE k > 1 /\ arguments[k - 1] = Bare(o)
      <4>1. k - 1 \in 1..(n - 1) /\ (k - 1) + 1 = k
        BY <1>1, <3>2
      <4>2. v = arguments[(k - 1) + 1].value
        BY <2>2, <4>1 DEF Gives
      <4> QED BY <3>2, <4>1, <4>2 DEF Given
    <3> QED BY <2>2, <3>1, <3>2 DEF Gives
  <2> QED BY <2>1, <2>2
<1> QED BY <1>2, <1>3 DEF p

\* What has been parsed in the end.
LEMMA LinesAreParsed ==
  ASSUME NEW args \in Seq(Arguments), ~ParseCommandLineArguments(args).refused
  PROVE  /\ ParseCommandLineArguments(args) = Parsed(args)
         /\ ~Parsed(args).refused /\ Parsed(args).wants = NotSet
<1>1. \A p : Refuse(p).refused = Refuse(p).refused
  OBVIOUS
<1>2. PICK f : ParseTrace(f, args)
  BY ParseChain
<1>3. Parsed(args) \in Parsings
  BY <1>2 DEF ParseTrace
<1>4. Refuse(Parsed(args)).refused
  BY <1>3 DEF Refuse, Parsings
<1> QED BY <1>4 DEF ParseCommandLineArguments, Parsed

\* An option of an accepted configuration has the value it was given, an argument before a
\* variable, and the default if it was given none.
Configures(o, v) ==
  LET wanted == IF Given(o) # {} THEN Given(o) ELSE {environment[o]} \ {NotSet, Empty}
  IN  IF wanted # {} THEN wanted = {v} ELSE v = Default(environment)[o]
\* It was given none.
Ungiven(o) == Given(o) = {} /\ {environment[o]} \ {NotSet, Empty} = {}

LEMMA ConfiguredIsGiven ==
  ASSUME NEW values, NEW o, Given(o) = {values[o]} \ {NotSet}
  PROVE  /\ Configures(o, ConfiguredValue(values, environment, o))
         /\ Configured(values, environment, o) = NotSet => Ungiven(o)
<1>1. CASE values[o] # NotSet
  BY <1>1 DEF Configures, Ungiven, ConfiguredValue, Configured
<1>2. CASE values[o] = NotSet
  <2>1. Given(o) = {} /\ Configured(values, environment, o) = NonEmpty(environment, o)
    BY <1>2 DEF Configured
  <2>2. CASE environment[o] \in {NotSet, Empty}
    BY <2>1, <2>2 DEF Configures, Ungiven, ConfiguredValue, NonEmpty
  <2>3. CASE environment[o] \notin {NotSet, Empty}
    BY <2>1, <2>3 DEF Configures, Ungiven, ConfiguredValue, NonEmpty
  <2> QED BY <2>2, <2>3
<1> QED BY <1>1, <1>2

\* The settings a source uses are configured, and the others were not given.
LEMMA SourceUsesAll ==
  ASSUME NEW values, NEW insecure, NEW c, c = SelectSource(values, environment, insecure),
         c.outcome = "accepted", \A o \in Options : Given(o) = {values[o]} \ {NotSet}
  PROVE  \A o \in Options : IF o \in DOMAIN c.used THEN Configures(o, c.used[o])
                            ELSE Ungiven(o)
<1> DEFINE kind == ConfiguredValue(values, environment, "source")
<1>1. \A o \in Options : /\ Configures(o, ConfiguredValue(values, environment, o))
                         /\ Configured(values, environment, o) = NotSet => Ungiven(o)
  BY ConfiguredIsGiven
<1>2. ASSUME NEW options, NEW b, c = Selected(values, environment, options, b),
             \A o \in Options \ options : Configured(values, environment, o) = NotSet
      PROVE  \A o \in Options : IF o \in DOMAIN c.used THEN Configures(o, c.used[o])
                                ELSE Ungiven(o)
  <2>1. c = [outcome |-> "accepted",
             used |-> [o \in options |-> ConfiguredValue(values, environment, o)],
             insecure |-> b]
    BY <1>2 DEF Selected, Refused
  <2>2. c.used = [o \in options |-> ConfiguredValue(values, environment, o)]
    BY <2>1
  <2> QED BY <1>1, <1>2, <2>2
<1>3. c # Refused
  BY DEF Refused
<1>4. kind \in {"file-system", "http"}
  BY <1>3 DEF SelectSource, Accepts
<1>5. CASE kind = "file-system"
  <2>1. /\ ~RejectConfiguredOptions(values, environment, HttpOptions)
        /\ c = Selected(values, environment, {"source", "root"}, FALSE)
    BY <1>3, <1>5 DEF SelectSource, Accepts
  <2>2. \A o \in Options \ {"source", "root"} : o \in HttpOptions
    BY DEF Options, HttpOptions
  <2> QED BY <1>2, <2>1, <2>2 DEF RejectConfiguredOptions
<1>6. CASE kind = "http"
  <2>1. /\ ~RejectConfiguredOptions(values, environment, {"root"})
        /\ c = Selected(values, environment, {"source"} \union HttpOptions, insecure)
    BY <1>3, <1>6 DEF SelectSource, Accepts
  <2>2. \A o \in Options \ ({"source"} \union HttpOptions) : o \in {"root"}
    BY DEF Options, HttpOptions
  <2> QED BY <1>2, <2>1, <2>2 DEF RejectConfiguredOptions
<1> QED BY <1>4, <1>5, <1>6

\* What was configured follows from the arguments and the environment.
ConfigurationInv ==
  /\ arguments \in Seq(Arguments)
  /\ \/ arguments = <<>> /\ configuration = [outcome |-> "none"]
     \/ configuration = ParseConfiguration(arguments, environment)

LEMMA NoneIgnored == ConfigurationInv => NoSettingIgnored
<1> SUFFICES ASSUME ConfigurationInv PROVE NoSettingIgnored
  OBVIOUS
<1> DEFINE line == ParseCommandLineArguments(arguments)
<1>1. CASE arguments = <<>> /\ configuration = [outcome |-> "none"]
  <2>1. ToSet(arguments) = {} /\ configuration.outcome # "accepted"
    BY <1>1 DEF ToSet
  <2> QED BY <2>1 DEF NoSettingIgnored
<1>2. CASE configuration = ParseConfiguration(arguments, environment)
  <2>1. arguments \in Seq(Arguments)
    BY DEF ConfigurationInv
  <2>2. ~line.refused =>
          /\ line = Parsed(arguments) /\ ~Parsed(arguments).refused
          /\ Parsed(arguments).wants = NotSet
    BY <2>1, LinesAreParsed
  <2>3. ASSUME configuration.outcome = "accepted"
        PROVE  \A o \in Options :
                 IF o \in DOMAIN configuration.used THEN Configures(o, configuration.used[o])
                 ELSE Ungiven(o)
    <3>1. /\ ~line.refused
          /\ configuration = SelectSource(line.values, environment, "insecure" \in line.flags)
      BY <1>2, <2>3 DEF ParseConfiguration, Refused
    <3>2. \A o \in Options : Given(o) = {line.values[o]} \ {NotSet}
      BY <2>1, <2>2, <3>1, GivenIsParsed
    <3> HIDE DEF line
    <3> QED BY <2>3, <3>1, <3>2, SourceUsesAll
  <2>4. ASSUME Flag("help") \in ToSet(arguments) \/ Flag("version") \in ToSet(arguments)
        PROVE  ParseConfiguration(arguments, [v \in Variables |-> "garbage"]) = configuration
    <3>1. ~line.refused => "help" \in line.flags \/ "version" \in line.flags
      <4>1. SUFFICES ASSUME ~line.refused
                     PROVE  "help" \in line.flags \/ "version" \in line.flags
        OBVIOUS
      <4>2. IsRead(Parsed(arguments), arguments, Len(arguments)) /\ line = Parsed(arguments)
        BY <2>1, <2>2, <4>1, AllIsRead
      <4>3. \E k \in 1..Len(arguments) :
              arguments[k] = Flag("help") \/ arguments[k] = Flag("version")
        BY <2>1, <2>4 DEF ToSet
      <4>4. "help" \in Flags /\ "version" \in Flags
        BY DEF Flags
      <4> QED BY <4>2, <4>3, <4>4 DEF IsRead
    <3> QED BY <1>2, <3>1 DEF ParseConfiguration
  <2> QED BY <2>3, <2>4 DEF NoSettingIgnored, Configures, Ungiven
<1> QED BY <1>1, <1>2 DEF ConfigurationInv

\* No setting is silently ignored, for any lists of arguments and any environments.
THEOREM NothingIsIgnored == ConfigurationSpec => []NoSettingIgnored
<1>1. ConfigurationInit => ConfigurationInv
  BY DEF ConfigurationInit, ConfigurationInv
<1>2. ConfigurationInv /\ [ConfigurationNext]_configurationVars => ConfigurationInv'
  BY ConfigurationAssumption
     DEF ConfigurationInv, ConfigurationNext, configurationVars, Configure,
         ConfigurationAssumption
<1> QED BY <1>1, <1>2, NoneIgnored, PTL DEF ConfigurationSpec

-----------------------------------------------------------------------------
(* Lines at some of the indices of a text.                                 *)

IndicesOf(t) == [i \in DOMAIN t |-> i]
AtStep(t, indices, iter) ==
  [s \in SUBSET (DOMAIN IndicesOf(t)) |->
     IF s = {} THEN <<>>
     ELSE IF IndicesOf(t)[Max(s)] \in indices
          THEN Append(iter[s \ {Max(s)}], t[IndicesOf(t)[Max(s)]])
          ELSE iter[s \ {Max(s)}]]

LEMMA AtUnfolds ==
  ASSUME NEW t, NEW indices
  PROVE  At(t, indices)
           = (CHOOSE iter : iter = AtStep(t, indices, iter))[DOMAIN IndicesOf(t)]
BY DEF At, FoldLeftDomain, FoldLeft, MapThenFoldSet, AtStep, IndicesOf

\* The lines that are taken, after each line of a text.
AtTrace(f, t, indices) ==
  /\ f \in [0..Len(t) -> Seq(Lines)] /\ f[0] = <<>>
  /\ \A i \in 1..Len(t) :
       f[i] = IF i \in indices THEN Append(f[i - 1], t[i]) ELSE f[i - 1]
  /\ At(t, indices) = f[Len(t)]

LEMMA AtChain ==
  ASSUME NEW t \in Seq(Lines), NEW indices
  PROVE  \E f : AtTrace(f, t, indices)
<1> DEFINE n == Len(t)
           V == Seq(Lines)
           b == <<>>
           Take(q, i) == IF i \in indices THEN Append(q, t[i]) ELSE q
           op == [i \in 1..n |-> [q \in V |-> Take(q, i)]]
           iter == CHOOSE g : g = AtStep(t, indices, g)
           f == [i \in 0..n |-> iter[1..i]]
<1>1. n \in Nat /\ DOMAIN t = 1..n /\ DOMAIN IndicesOf(t) = 1..n
  BY DEF IndicesOf
<1>0. \A i \in 1..n : IndicesOf(t)[i] = i
  BY <1>1 DEF IndicesOf
<1>2. op \in [1..n -> [V -> V]] /\ b \in V
  <2>2. \A i \in 1..n : t[i] \in Lines
    BY <1>1
  <2>3. \A i \in 1..n : \A q \in Seq(Lines) : Take(q, i) \in Seq(Lines)
    BY <2>2
  <2>4. <<>> \in Seq(Lines)
    OBVIOUS
  <2> QED BY <2>3, <2>4
<1>3. \A i \in 1..n : \A q \in V : op[i][q] = Take(q, i)
  OBVIOUS
<1> HIDE DEF n, V, b, op, iter, Take
<1>4. PICK g \in [SUBSET (1..n) -> V] : IsLeftFold(g, n, V, b, op)
  BY ONLY <1>1, <1>2, LeftFoldExists
<1>5. g = AtStep(t, indices, g)
  <2>1. ASSUME NEW s \in SUBSET (1..n)
        PROVE  g[s] = IF s = {} THEN <<>> ELSE Take(g[s \ {Max(s)}], IndicesOf(t)[Max(s)])
    <3>1. CASE s = {}
      BY <1>4, <3>1 DEF b, IsLeftFold
    <3>2. CASE s # {}
      <4>1. Max(s) \in 1..n /\ s \ {Max(s)} \in SUBSET (1..n)
        BY <1>1, <3>2, GreatestOfSome
      <4>2. g[s] = op[Max(s)][g[s \ {Max(s)}]] /\ g[s \ {Max(s)}] \in V
        BY <1>4, <3>2, <4>1 DEF IsLeftFold
      <4> QED BY <1>0, <1>3, <3>2, <4>1, <4>2
    <3> QED BY <3>1, <3>2
  <2>2. g = [s \in SUBSET (1..n) |-> g[s]]
    OBVIOUS
  <2> QED BY <1>1, <2>1, <2>2 DEF AtStep, Take
<1>6. iter = AtStep(t, indices, iter)
  BY <1>5 DEF iter
<1>7. \A s \in SUBSET (1..n) :
        iter[s] = IF s = {} THEN <<>> ELSE Take(iter[s \ {Max(s)}], IndicesOf(t)[Max(s)])
  <2>1. ASSUME NEW s \in SUBSET (1..n) PROVE iter[s] = AtStep(t, indices, iter)[s]
    BY <1>6
  <2> QED BY <1>1, <2>1 DEF AtStep, Take
<1>8. IsLeftFold(iter, n, V, b, op)
  <2>1. ASSUME NEW s \in SUBSET (1..n), s # {}, iter[s \ {Max(s)}] \in V
        PROVE  iter[s] = op[Max(s)][iter[s \ {Max(s)}]]
    <3>1. Max(s) \in 1..n
      BY <1>1, <2>1, GreatestOfSome
    <3>2. iter[s] = Take(iter[s \ {Max(s)}], Max(s))
      BY <1>0, <1>7, <2>1, <3>1
    <3> QED BY <1>3, <2>1, <3>1, <3>2
  <2> QED BY <1>7, <2>1 DEF b, IsLeftFold
<1>9. f = [i \in 0..n |-> iter[1..i]]
  OBVIOUS
<1>10. At(t, indices) = f[n]
  <2>1. At(t, indices) = iter[1..n] /\ n \in 0..n
    BY <1>1, AtUnfolds DEF iter
  <2> QED BY <2>1
<1> HIDE DEF f
<1>11. IsChain(f, n, V, b, op)
  BY ONLY <1>1, <1>2, <1>8, <1>9, LeftFoldChain
<1>12. /\ f \in [0..n -> V] /\ f[0] = <<>>
       /\ \A i \in 1..n : f[i] = Take(f[i - 1], i)
  <2>1. /\ f \in [0..n -> V] /\ f[0] = b /\ \A i \in 1..n : f[i] = op[i][f[i - 1]]
    BY <1>11 DEF IsChain
  <2>2. \A i \in 1..n : i - 1 \in 0..n
    BY <1>1
  <2> QED BY <1>3, <2>1, <2>2 DEF b
<1> QED BY <1>10, <1>12 DEF n, V, AtTrace, Take

LEMMA UpToInduction ==
  ASSUME NEW n \in Nat, NEW P, 0 \in P, \A i \in 0..n : i < n /\ i \in P => i + 1 \in P
  PROVE  0..n \subseteq P
<1> DEFINE Bad == {i \in Nat : i <= n /\ i \notin P}
<1>1. SUFFICES ASSUME Bad # {} PROVE FALSE
  OBVIOUS
<1>2. Min(Bad) \in Bad /\ \A j \in Bad : Min(Bad) <= j
  BY <1>1, LeastElement
<1>3. Min(Bad) \in Nat /\ Min(Bad) # 0 /\ Min(Bad) <= n
  BY <1>2
<1>4. Min(Bad) - 1 \in 0..n /\ Min(Bad) - 1 \notin Bad /\ (Min(Bad) - 1) + 1 = Min(Bad)
  BY <1>2, <1>3
<1>5. Min(Bad) \in P
  BY <1>3, <1>4
<1> QED BY <1>2, <1>5

LEMMA AtType ==
  ASSUME NEW t \in Seq(Lines), NEW indices
  PROVE  At(t, indices) \in Seq(Lines)
BY AtChain DEF AtTrace

LEMMA AtAgree ==
  ASSUME NEW t \in Seq(Lines), NEW I, NEW J, \A i \in 1..Len(t) : i \in I <=> i \in J
  PROVE  At(t, I) = At(t, J)
<1>1. PICK f : AtTrace(f, t, I)
  BY AtChain
<1>2. PICK g : AtTrace(g, t, J)
  BY AtChain
<1>3. PICK n \in Nat : n = Len(t)
  OBVIOUS
<1> DEFINE P == {i \in 0..n : f[i] = g[i]}
<1>4. 0 \in P
  BY <1>1, <1>2 DEF AtTrace
<1>5. ASSUME NEW i \in 0..n, i < n, i \in P PROVE i + 1 \in P
  <2>1. i + 1 \in 1..n /\ (i + 1) - 1 = i
    BY <1>5
  <2> QED BY <1>1, <1>2, <1>3, <1>5, <2>1 DEF AtTrace
<1>6. 0..n \subseteq P
  BY <1>4, <1>5, UpToInduction
<1> QED BY <1>1, <1>2, <1>3, <1>6 DEF AtTrace

LEMMA AtNone ==
  ASSUME NEW t \in Seq(Lines), NEW I, \A i \in 1..Len(t) : i \notin I
  PROVE  At(t, I) = <<>>
<1>1. PICK f : AtTrace(f, t, I)
  BY AtChain
<1>3. PICK n \in Nat : n = Len(t)
  OBVIOUS
<1> DEFINE P == {i \in 0..n : f[i] = <<>>}
<1>4. 0 \in P
  BY <1>1 DEF AtTrace
<1>5. ASSUME NEW i \in 0..n, i < n, i \in P PROVE i + 1 \in P
  <2>1. i + 1 \in 1..n /\ (i + 1) - 1 = i
    BY <1>5
  <2> QED BY <1>1, <1>3, <1>5, <2>1 DEF AtTrace
<1>6. 0..n \subseteq P
  BY <1>4, <1>5, UpToInduction
<1> QED BY <1>1, <1>3, <1>6 DEF AtTrace

LEMMA AppendOfConcat ==
  ASSUME NEW x \in Seq(Lines), NEW y \in Seq(Lines), NEW v \in Lines
  PROVE  Append(x \o y, v) = x \o Append(y, v)
<1>1. /\ Append(x \o y, v) = (x \o y) \o <<v>> /\ Append(y, v) = y \o <<v>>
      /\ <<v>> \in Seq(Lines)
  BY AppendIsConcat
<1> QED BY <1>1, ConcatAssociative

\* A text is the lines at its indices, and each index has one of them.
Shifted(I, J, s, t) == \A i \in 1..Len(t) : i \in J <=> Len(s) + i \in I

LEMMA AtConcat ==
  ASSUME NEW s \in Seq(Lines), NEW t \in Seq(Lines), NEW I, NEW J,
         Shifted(I, J, s, t)
  PROVE  At(s \o t, I) = At(s, I) \o At(t, J)
<1> DEFINE u == s \o t
<1>0. u \in Seq(Lines)
  OBVIOUS
<1>1. PICK f : AtTrace(f, u, I)
  <2> HIDE DEF u
  <2> QED BY <1>0, AtChain
<1>2. PICK g : AtTrace(g, s, I)
  BY AtChain
<1>3. PICK h : AtTrace(h, t, J)
  BY AtChain
<1>4. PICK m \in Nat : m = Len(s)
  OBVIOUS
<1>5. PICK n \in Nat : n = Len(t)
  OBVIOUS
<1>6. /\ f \in [0..(m + n) -> Seq(Lines)] /\ f[0] = <<>> /\ At(u, I) = f[m + n]
      /\ \A i \in 1..(m + n) : f[i] = IF i \in I THEN Append(f[i - 1], u[i]) ELSE f[i - 1]
  BY <1>1, <1>4, <1>5 DEF AtTrace
<1>7. /\ g \in [0..m -> Seq(Lines)] /\ g[0] = <<>> /\ At(s, I) = g[m]
      /\ \A i \in 1..m : g[i] = IF i \in I THEN Append(g[i - 1], s[i]) ELSE g[i - 1]
  BY <1>2, <1>4 DEF AtTrace
<1>8. /\ h \in [0..n -> Seq(Lines)] /\ h[0] = <<>> /\ At(t, J) = h[n]
      /\ \A i \in 1..n : h[i] = IF m + i \in I THEN Append(h[i - 1], t[i]) ELSE h[i - 1]
  <2>1. \A i \in 1..n : i \in J <=> m + i \in I
    BY <1>4, <1>5 DEF Shifted
  <2> QED BY <1>3, <1>5, <2>1 DEF AtTrace
<1>9. /\ \A i \in 1..m : u[i] = s[i]
      /\ \A i \in 1..n : u[m + i] = t[i]
  BY <1>4, <1>5
<1>10. (\A i \in 1..m : s[i] \in Lines) /\ (\A i \in 1..n : t[i] \in Lines)
  BY <1>4, <1>5
<1> HIDE DEF u
<1> DEFINE P == {i \in 0..m : f[i] = g[i]}
<1>11. 0 \in P
  BY <1>6, <1>7
<1>12. ASSUME NEW i \in 0..m, i < m, i \in P PROVE i + 1 \in P
  <2>1. i + 1 \in 1..m /\ (i + 1) - 1 = i /\ i + 1 \in 1..(m + n) /\ i + 1 \in 0..m
    BY <1>12
  <2>2. f[i + 1] = IF i + 1 \in I THEN Append(f[i], u[i + 1]) ELSE f[i]
    BY <1>6, <2>1
  <2>3. g[i + 1] = IF i + 1 \in I THEN Append(g[i], s[i + 1]) ELSE g[i]
    BY <1>7, <2>1
  <2>4. u[i + 1] = s[i + 1] /\ f[i] = g[i]
    BY <1>9, <1>12, <2>1
  <2> QED BY <2>1, <2>2, <2>3, <2>4
<1>13. 0..m \subseteq P
  BY <1>11, <1>12, UpToInduction
<1> DEFINE Q == {i \in 0..n : f[m + i] = g[m] \o h[i]}
<1>14. 0 \in Q
  <2>1. f[m] = g[m] /\ g[m] \in Seq(Lines)
    BY <1>7, <1>13
  <2>2. g[m] \o <<>> = g[m]
    BY <2>1, ConcatEmptySeq
  <2>3. m + 0 = m /\ 0 \in 0..n
    OBVIOUS
  <2>4. f[m + 0] = g[m] \o h[0]
    BY <1>8, <2>1, <2>2, <2>3
  <2> QED BY <2>3, <2>4
<1>15. ASSUME NEW i \in 0..n, i < n, i \in Q PROVE i + 1 \in Q
  <2>1. /\ i + 1 \in 1..n /\ (i + 1) - 1 = i /\ m + (i + 1) \in 1..(m + n)
        /\ (m + (i + 1)) - 1 = m + i
    BY <1>15
  <2>2. f[m + i] = g[m] \o h[i] /\ g[m] \in Seq(Lines) /\ h[i] \in Seq(Lines)
    <3>1. f[m + i] = g[m] \o h[i]
      BY <1>15
    <3>2. g[m] \in Seq(Lines) /\ h[i] \in Seq(Lines)
      BY <1>7, <1>8
    <3> QED BY <3>1, <3>2
  <2>3. u[m + (i + 1)] = t[i + 1] /\ t[i + 1] \in Lines
    BY <1>9, <1>10, <2>1
  <2>4. CASE m + (i + 1) \in I
    <3>1. f[m + (i + 1)] = Append(f[m + i], t[i + 1]) /\ h[i + 1] = Append(h[i], t[i + 1])
      BY <1>6, <1>8, <2>1, <2>3, <2>4
    <3>2. Append(g[m] \o h[i], t[i + 1]) = g[m] \o Append(h[i], t[i + 1])
      BY ONLY <2>2, <2>3, AppendOfConcat
    <3>3. f[m + (i + 1)] = g[m] \o h[i + 1] /\ i + 1 \in 0..n
      BY ONLY <2>1, <2>2, <3>1, <3>2
    <3> QED BY <3>3
  <2>5. CASE m + (i + 1) \notin I
    <3>1. f[m + (i + 1)] = f[m + i]
      BY <1>6, <2>1, <2>5
    <3>2. h[i + 1] = h[i] /\ i + 1 \in 0..n
      BY <1>8, <2>1, <2>5
    <3> QED BY <2>2, <3>1, <3>2
  <2> QED BY <2>4, <2>5
<1>16. 0..n \subseteq Q
  BY <1>14, <1>15, UpToInduction
<1>17. f[m + n] = g[m] \o h[n]
  <2>1. n \in 0..n
    OBVIOUS
  <2>2. n \in Q
    BY ONLY <1>16, <2>1
  <2> QED BY <2>2
<1>18. At(u, I) = At(s, I) \o At(t, J)
  BY <1>6, <1>7, <1>8, <1>17
<1> QED BY <1>18 DEF u

LEMMA AtAll ==
  ASSUME NEW t \in Seq(Lines), NEW I, \A i \in 1..Len(t) : i \in I
  PROVE  At(t, I) = t
<1>1. PICK f : AtTrace(f, t, I)
  BY AtChain
<1>3. PICK n \in Nat : n = Len(t)
  OBVIOUS
<1> DEFINE P == {i \in 0..n : f[i] = SubSeq(t, 1, i)}
<1>4. 0 \in P
  <2>1. f[0] = <<>> /\ SubSeq(t, 1, 0) = <<>> /\ 0 \in 0..n
    BY <1>1 DEF AtTrace
  <2>2. f[0] = SubSeq(t, 1, 0)
    BY <2>1
  <2> QED BY <2>1, <2>2
<1>5. ASSUME NEW i \in 0..n, i < n, i \in P PROVE i + 1 \in P
  <2>1. i + 1 \in 1..n /\ (i + 1) - 1 = i /\ t[i + 1] \in Lines
    BY <1>3, <1>5
  <2>2. f[i + 1] = Append(SubSeq(t, 1, i), t[i + 1])
    BY <1>1, <1>3, <1>5, <2>1 DEF AtTrace
  <2>3. SubSeq(t, 1, i + 1) = Append(SubSeq(t, 1, i), t[i + 1])
    BY <1>3, <2>1
  <2> QED BY <2>1, <2>2, <2>3
<1>6. 0..n \subseteq P
  BY <1>4, <1>5, UpToInduction
<1>7. n \in P
  <2>1. n \in 0..n
    OBVIOUS
  <2> QED BY ONLY <1>6, <2>1
<1>8. SubSeq(t, 1, n) = t
  BY <1>3, SubSeqFull
<1>9. At(t, I) = f[n]
  BY <1>1, <1>3 DEF AtTrace
<1> QED BY <1>7, <1>8, <1>9

\* The indices from which the lines of s come, in their order.
Enumerates(at, s, t, I) ==
  /\ at \in [1..Len(s) -> 1..Len(t)]
  /\ \A k \in 1..Len(s) : at[k] \in I /\ s[k] = t[at[k]]
  /\ \A j, k \in 1..Len(s) : j < k => at[j] < at[k]
  /\ \A i \in 1..Len(t) : i \in I => \E k \in 1..Len(s) : at[k] = i

LEMMA AtEnumerates ==
  ASSUME NEW t \in Seq(Lines), NEW I
  PROVE  \E at : Enumerates(at, At(t, I), t, I)
<1>1. PICK f : AtTrace(f, t, I)
  BY AtChain
<1>2. PICK n \in Nat : n = Len(t)
  OBVIOUS
<1>3. /\ f \in [0..n -> Seq(Lines)] /\ f[0] = <<>> /\ At(t, I) = f[n]
      /\ \A i \in 1..n : f[i] = IF i \in I THEN Append(f[i - 1], t[i]) ELSE f[i - 1]
  BY <1>1, <1>2 DEF AtTrace
<1> DEFINE Upto(at, i) ==
             /\ at \in [1..Len(f[i]) -> 1..i]
             /\ \A k \in 1..Len(f[i]) : at[k] \in I /\ f[i][k] = t[at[k]]
             /\ \A j, k \in 1..Len(f[i]) : j < k => at[j] < at[k]
             /\ \A j \in 1..i : j \in I => \E k \in 1..Len(f[i]) : at[k] = j
           P == {i \in 0..n : \E at : Upto(at, i)}
<1>P. \A i \in 0..n : i \in P <=> \E at : Upto(at, i)
  OBVIOUS
<1> HIDE DEF P
<1>4. 0 \in P
  <2>1. Len(f[0]) = 0 /\ 1..0 = {}
    BY <1>3
  <2>2. Upto([k \in 1..0 |-> 1], 0)
    BY <2>1
  <2> HIDE DEF Upto
  <2> QED BY <1>P, <2>2
<1>5. ASSUME NEW i \in 0..n, i < n, i \in P PROVE i + 1 \in P
  <2>1. i + 1 \in 1..n /\ (i + 1) - 1 = i /\ f[i] \in Seq(Lines) /\ t[i + 1] \in Lines
    BY <1>2, <1>3, <1>5
  <2>2. PICK at : Upto(at, i)
    <3> HIDE DEF Upto
    <3> QED BY <1>P, <1>5
  <2>3. CASE i + 1 \in I
    <3>1. f[i + 1] = Append(f[i], t[i + 1])
      BY <1>3, <2>1, <2>3
    <3>2. PICK m \in Nat : m = Len(f[i])
      BY <2>1
    <3>3. /\ Len(f[i + 1]) = m + 1 /\ f[i + 1][m + 1] = t[i + 1]
          /\ \A k \in 1..m : f[i + 1][k] = f[i][k]
      BY <2>1, <3>1, <3>2
    <3> DEFINE b == [k \in 1..(m + 1) |-> IF k = m + 1 THEN i + 1 ELSE at[k]]
    <3>4. /\ at \in [1..m -> 1..i]
          /\ \A k \in 1..m : at[k] \in I /\ f[i][k] = t[at[k]]
          /\ \A j, k \in 1..m : j < k => at[j] < at[k]
          /\ \A j \in 1..i : j \in I => \E k \in 1..m : at[k] = j
      BY <2>2, <3>2
    <3>5. /\ b[m + 1] = i + 1 /\ \A k \in 1..m : b[k] = at[k] /\ b[k] \in 1..i
          /\ \A k \in 1..(m + 1) : k = m + 1 \/ k \in 1..m
          /\ b \in [1..(m + 1) -> 1..(i + 1)]
      BY <3>4
    <3> HIDE DEF b
    <3>6. \A k \in 1..(m + 1) : b[k] \in I /\ f[i + 1][k] = t[b[k]]
      BY <2>3, <3>3, <3>4, <3>5
    <3>7. \A j, k \in 1..(m + 1) : j < k => b[j] < b[k]
      BY <3>4, <3>5
    <3>8. ASSUME NEW j \in 1..(i + 1), j \in I PROVE \E k \in 1..(m + 1) : b[k] = j
      <4>1. CASE j = i + 1
        BY <3>5, <4>1
      <4>2. CASE j \in 1..i
        BY <3>4, <3>5, <3>8, <4>2
      <4> QED BY <4>1, <4>2
    <3>9. Upto(b, i + 1)
      BY <3>3, <3>5, <3>6, <3>7, <3>8
    <3> HIDE DEF Upto
    <3> QED BY <1>P, <2>1, <3>9
  <2>4. CASE i + 1 \notin I
    <3>1. f[i + 1] = f[i]
      BY <1>3, <2>1, <2>4
    <3>2. Upto(at, i + 1)
      <4>1. \A j \in 1..(i + 1) : j \in I => j \in 1..i
        BY <2>4
      <4>2. 1..i \subseteq 1..(i + 1)
        OBVIOUS
      <4> QED BY <2>2, <3>1, <4>1, <4>2
    <3> HIDE DEF Upto
    <3> QED BY <1>P, <2>1, <3>2
  <2> QED BY <2>3, <2>4
<1>6. 0..n \subseteq P
  <2> QED BY <1>4, <1>5, UpToInduction
<1>7. PICK at : Upto(at, n)
  <2> HIDE DEF Upto
  <2> QED BY <1>P, <1>6
<1>8. Enumerates(at, f[n], t, I)
  BY <1>2, <1>7 DEF Enumerates
<1> QED BY <1>3, <1>8

-----------------------------------------------------------------------------
(* Markers, pairs and sections.                                            *)

\* Lines are pairs.
LEMMA LinePairs ==
  ASSUME NEW line \in Lines
  PROVE  /\ line = <<line[1], line[2]>> /\ line[2] \in Names \cup {User}
         /\ \A n : /\ line[1] = "begin" /\ line[2] = n => line = <<"begin", n>>
                   /\ line[1] = "end" /\ line[2] = n => line = <<"end", n>>
                   /\ line = <<"begin", n>> => IsComment(line) /\ ~IsHeader(line) /\ line[2] = n
                   /\ line = <<"end", n>> => IsComment(line) /\ ~IsHeader(line) /\ line[2] = n
BY DEF Lines, IsComment, IsHeader

LEMMA BlockLines ==
  ASSUME NEW n \in Names
  PROVE  /\ Block(n) \in Seq(Lines) /\ Len(Block(n)) = 4
         /\ Block(n)[1] = <<"begin", n>> /\ Block(n)[2] = <<"table", n>>
         /\ Block(n)[3] = <<"entry", n>> /\ Block(n)[4] = <<"end", n>>
<1>1. /\ <<"begin", n>> \in Lines /\ <<"table", n>> \in Lines
      /\ <<"entry", n>> \in Lines /\ <<"end", n>> \in Lines
  BY DEF Lines
<1> QED BY <1>1 DEF Block

\* The first match of a pattern that matches once or never.
LEMMA FirstIsOnly ==
  ASSUME NEW t \in Seq(Lines), NEW line
  PROVE  /\ (\A i \in DOMAIN t : t[i] # line) => First(t, line) = 0
         /\ \A k \in DOMAIN t : t[k] = line /\ (\A i \in DOMAIN t : t[i] = line => i = k)
                                  => First(t, line) = k
<1> DEFINE at == {i \in DOMAIN t : t[i] = line}
<1>1. at \in SUBSET Nat
  OBVIOUS
<1>2. ASSUME NEW k \in DOMAIN t, t[k] = line, \A i \in DOMAIN t : t[i] = line => i = k
      PROVE  First(t, line) = k
  <2>1. at = {k}
    BY <1>2
  <2>2. at # {}
    BY <2>1
  <2>3. Min(at) \in at
    BY <1>1, <2>2, LeastElement
  <2> QED BY <2>1, <2>3 DEF First
<1> QED BY <1>2 DEF First

\* The pair of a name's markers.
IsPair(t, n, b, e) ==
  /\ b \in DOMAIN t /\ e \in DOMAIN t /\ b < e
  /\ t[b] = <<"begin", n>> /\ t[e] = <<"end", n>>
  /\ \A i \in DOMAIN t : (t[i] = <<"begin", n>> => i = b) /\ (t[i] = <<"end", n>> => i = e)

Unmarked(t, n) == \A i \in DOMAIN t : t[i] # <<"begin", n>> /\ t[i] # <<"end", n>>

LEMMA PairedIsPair ==
  ASSUME NEW t, NEW n
  PROVE  Paired(t, n) <=> Unmarked(t, n) \/ \E b, e : IsPair(t, n, b, e)
<1> DEFINE begins == {i \in DOMAIN t : t[i] = <<"begin", n>>}
           ends == {i \in DOMAIN t : t[i] = <<"end", n>>}
<1>1. \A i : /\ i \in begins <=> i \in DOMAIN t /\ t[i] = <<"begin", n>>
             /\ i \in ends <=> i \in DOMAIN t /\ t[i] = <<"end", n>>
  OBVIOUS
<1>2. Paired(t, n) <=> \/ begins = {} /\ ends = {}
                       \/ \E b, e \in DOMAIN t : b < e /\ begins = {b} /\ ends = {e}
  BY DEF Paired
<1> HIDE DEF begins, ends
<1>3. Unmarked(t, n) <=> begins = {} /\ ends = {}
  BY <1>1 DEF Unmarked
<1>4. \A b, e : IsPair(t, n, b, e) <=> /\ b \in DOMAIN t /\ e \in DOMAIN t /\ b < e
                                      /\ begins = {b} /\ ends = {e}
  BY <1>1 DEF IsPair
<1> QED BY <1>2, <1>3, <1>4

\* Between the markers of a pair.
Between(t, n, i) ==
  \E b, e \in DOMAIN t : t[b] = <<"begin", n>> /\ t[e] = <<"end", n>> /\ b <= i /\ i <= e

LEMMA OwnsIsBetween ==
  ASSUME NEW t \in Seq(Lines), NEW n, Paired(t, n), NEW i \in DOMAIN t
  PROVE  Owns(t, n, i) <=> Between(t, n, i)
<1>1. DOMAIN t = 1..Len(t) /\ Len(t) \in Nat
  OBVIOUS
<1>2. ASSUME Owns(t, n, i) PROVE Between(t, n, i)
  <2>1. PICK b \in 1..i, e \in i..Len(t) : t[b] = <<"begin", n>> /\ t[e] = <<"end", n>>
    BY <1>2 DEF Owns
  <2>2. b \in DOMAIN t /\ e \in DOMAIN t /\ b <= i /\ i <= e
    BY <1>1, <2>1
  <2> QED BY <2>1, <2>2 DEF Between
<1>3. ASSUME Between(t, n, i) PROVE Owns(t, n, i)
  <2>1. PICK b \in DOMAIN t, e \in DOMAIN t :
          t[b] = <<"begin", n>> /\ t[e] = <<"end", n>> /\ b <= i /\ i <= e
    BY <1>3 DEF Between
  <2>2. \A k \in DOMAIN t : (t[k] = <<"begin", n>> => k = b) /\ (t[k] = <<"end", n>> => k = e)
    BY <2>1, PairedIsPair DEF IsPair, Unmarked
  <2>3. b \in 1..i /\ e \in i..Len(t)
    BY <1>1, <2>1
  <2>4. \A k \in (b + 1)..(e - 1) : k \in DOMAIN t /\ k # b /\ k # e
    BY <1>1, <2>1
  <2>5. \A k \in (b + 1)..(e - 1) : t[k] \notin {<<"begin", n>>, <<"end", n>>}
    BY <2>2, <2>4
  <2> QED BY <2>1, <2>3, <2>5 DEF Owns
<1> QED BY <1>2, <1>3

\* The header a line is under.
Under(t, h, i) == h <= i /\ \A j \in (h + 1)..i : ~IsHeader(t[j])

LEMMA SectionIsUnder ==
  ASSUME NEW t \in Seq(Lines), NEW i \in DOMAIN t
  PROVE  /\ Section(t, i) = 0 \/ (Section(t, i) \in DOMAIN t /\ IsHeader(t[Section(t, i)]))
         /\ \A h \in DOMAIN t : IsHeader(t[h]) => (Section(t, i) = h <=> Under(t, h, i))
<1> DEFINE above == {h \in 1..i : IsHeader(t[h])}
<1>1. i \in Nat /\ DOMAIN t = 1..Len(t) /\ Len(t) \in Nat /\ i <= Len(t)
  OBVIOUS
<1>2. CASE above = {}
  <2>1. Section(t, i) = 0
    BY <1>2 DEF Section
  <2>2. ASSUME NEW h \in DOMAIN t, IsHeader(t[h]) PROVE ~Under(t, h, i)
    <3>1. h \notin 1..i
      BY <1>2, <2>2
    <3> QED BY <1>1, <3>1 DEF Under
  <2>3. \A h \in DOMAIN t : h # 0
    BY <1>1
  <2> QED BY <2>1, <2>2, <2>3
<1>3. CASE above # {}
  <2>1. above \in SUBSET (1..i)
    OBVIOUS
  <2>2. Max(above) \in above /\ \A j \in above : j <= Max(above)
    <3>1. 1..i \subseteq Nat /\ IsFiniteSet(1..i)
      BY <1>1, FS_Interval
    <3>2. above \in SUBSET Nat /\ IsFiniteSet(above)
      BY <2>1, <3>1, FS_Subset
    <3> QED BY <1>3, <3>2, GreatestElement
  <2>3. Section(t, i) = Max(above)
    BY <1>3 DEF Section
  <2>4. Section(t, i) \in 1..i /\ IsHeader(t[Section(t, i)])
    BY <2>2, <2>3
  <2>5. \A j \in 1..i : IsHeader(t[j]) => j <= Section(t, i)
    BY <2>2, <2>3
  <2> HIDE DEF above
  <2>6. Section(t, i) \in DOMAIN t
    BY <1>1, <2>4
  <2>7. ASSUME NEW h \in DOMAIN t, IsHeader(t[h]), Under(t, h, i) PROVE Section(t, i) = h
    <3>1. h \in 1..i /\ \A j \in (h + 1)..i : ~IsHeader(t[j])
      BY <1>1, <2>7 DEF Under
    <3>2. h <= Section(t, i)
      BY <2>5, <2>7, <3>1
    <3>3. Section(t, i) \notin (h + 1)..i
      BY <2>4, <3>1
    <3> QED BY <1>1, <2>4, <3>1, <3>2, <3>3
  <2>8. ASSUME NEW h \in DOMAIN t, Section(t, i) = h PROVE Under(t, h, i)
    BY <1>1, <2>4, <2>5, <2>8 DEF Under
  <2> QED BY <2>4, <2>6, <2>7, <2>8
<1> QED BY <1>2, <1>3

\* Well-marked in terms of pairs.
LEMMA WellMarkedIs ==
  ASSUME NEW t \in Seq(Lines)
  PROVE  WellMarked(t) <=>
           \A n \in Names :
             /\ Unmarked(t, n) \/ \E b, e : IsPair(t, n, b, e)
             /\ \A i \in DOMAIN t :
                  Between(t, n, i) /\ IsComment(t[i]) => t[i][2] \notin Names \ {n}
<1>1. \A n : Paired(t, n) <=> Unmarked(t, n) \/ \E b, e : IsPair(t, n, b, e)
  BY PairedIsPair
<1>2. \A n \in Names : Paired(t, n) =>
        \A i \in DOMAIN t : Owns(t, n, i) <=> Between(t, n, i)
  BY OwnsIsBetween
<1> QED BY <1>1, <1>2 DEF WellMarked

\* A line is a marker of some name but n.
MarksAnother(line, n) == \E m \in Names \ {n} : line = <<"begin", m>> \/ line = <<"end", m>>

\* If all lines of one name's markers or none of them are taken out of a text, it stays
\* well-marked.
LEMMA PartIsWellMarked ==
  ASSUME NEW t \in Seq(Lines), NEW r \in Seq(Lines), WellMarked(t), NEW n \in Names, NEW I,
         NEW at, Enumerates(at, r, t, I), Unmarked(r, n),
         \A i \in DOMAIN t : MarksAnother(t[i], n) => i \in I
  PROVE  WellMarked(r)
<1>1. /\ DOMAIN t = 1..Len(t) /\ DOMAIN r = 1..Len(r) /\ Len(t) \in Nat /\ Len(r) \in Nat
  OBVIOUS
<1>2. /\ \A k \in DOMAIN r : at[k] \in DOMAIN t /\ r[k] = t[at[k]]
      /\ \A j, k \in DOMAIN r : j < k => at[j] < at[k]
      /\ \A i \in DOMAIN t : i \in I => \E k \in DOMAIN r : at[k] = i
  BY <1>1 DEF Enumerates
<1>3. \A j, k \in DOMAIN r : (at[j] < at[k] => j < k) /\ (at[j] = at[k] => j = k)
                             /\ (j <= k => at[j] <= at[k])
  <2> SUFFICES ASSUME NEW j \in DOMAIN r, NEW k \in DOMAIN r
               PROVE  /\ at[j] < at[k] => j < k
                      /\ at[j] = at[k] => j = k
                      /\ j <= k => at[j] <= at[k]
    OBVIOUS
  <2>1. j \in Nat /\ k \in Nat /\ at[j] \in Nat /\ at[k] \in Nat
    BY <1>1, <1>2
  <2>2. (j < k => at[j] < at[k]) /\ (k < j => at[k] < at[j])
    BY <1>2
  <2> QED BY <2>1, <2>2
<1>4. ASSUME NEW m \in Names \ {n}
      PROVE  /\ Unmarked(r, m) \/ \E b, e : IsPair(r, m, b, e)
             /\ \A k \in DOMAIN r : Between(r, m, k) => Between(t, m, at[k])
  <2>1. CASE Unmarked(t, m)
    <3>1. Unmarked(r, m)
      BY <1>2, <2>1 DEF Unmarked
    <3> QED BY <3>1 DEF Unmarked, Between
  <2>2. ASSUME NEW b, NEW e, IsPair(t, m, b, e)
        PROVE  /\ Unmarked(r, m) \/ \E c, d : IsPair(r, m, c, d)
               /\ \A k \in DOMAIN r : Between(r, m, k) => Between(t, m, at[k])
    <3>1. b \in I /\ e \in I /\ b \in DOMAIN t /\ e \in DOMAIN t /\ b < e
      BY <1>4, <2>2 DEF IsPair, MarksAnother
    <3>2. PICK c \in DOMAIN r : at[c] = b
      BY <1>2, <3>1
    <3>3. PICK d \in DOMAIN r : at[d] = e
      BY <1>2, <3>1
    <3>4. c < d /\ r[c] = <<"begin", m>> /\ r[d] = <<"end", m>>
      BY <1>2, <1>3, <2>2, <3>1, <3>2, <3>3 DEF IsPair
    <3>5. \A k \in DOMAIN r : (r[k] = <<"begin", m>> => k = c) /\ (r[k] = <<"end", m>> => k = d)
      BY <1>2, <1>3, <2>2, <3>2, <3>3 DEF IsPair
    <3>6. IsPair(r, m, c, d)
      BY <3>4, <3>5 DEF IsPair
    <3>7. ASSUME NEW k \in DOMAIN r, Between(r, m, k) PROVE Between(t, m, at[k])
      <4>1. c <= k /\ k <= d
        BY <3>5, <3>7 DEF Between
      <4>2. b <= at[k] /\ at[k] <= e
        BY <1>3, <3>2, <3>3, <4>1
      <4> QED BY <2>2, <3>1, <4>2 DEF Between, IsPair
    <3> QED BY <3>6, <3>7
  <2> QED BY <2>1, <2>2, WellMarkedIs
<1>5. \A m \in Names : \A k \in DOMAIN r : Between(r, m, k) => m # n
  BY DEF Unmarked, Between
<1>6. \A m \in Names : Unmarked(r, m) \/ \E b, e : IsPair(r, m, b, e)
  BY <1>4
<1>7. ASSUME NEW m \in Names, NEW k \in DOMAIN r, Between(r, m, k), IsComment(r[k])
      PROVE  r[k][2] \notin Names \ {m}
  <2>1. Between(t, m, at[k]) /\ at[k] \in DOMAIN t /\ r[k] = t[at[k]]
    BY <1>2, <1>4, <1>5, <1>7
  <2> QED BY <1>7, <2>1, WellMarkedIs
<1> QED BY <1>6, <1>7, WellMarkedIs

\* What is left without what an obsolete name owns.
LEMMA DisownedPart ==
  ASSUME NEW t \in Seq(Lines), WellMarked(t), NEW n \in Names
  PROVE  /\ Disowned(t, n) \in Seq(Lines) /\ WellMarked(Disowned(t, n))
         /\ Unmarked(Disowned(t, n), n)
         /\ \A k \in DOMAIN Disowned(t, n) : \E i \in DOMAIN t : Disowned(t, n)[k] = t[i]
<1> DEFINE I == {i \in DOMAIN t : ~Owns(t, n, i)}
           u == At(t, I)
           J == {i \in DOMAIN u : ~Obsolete(u, n, i) \/ IsComment(u[i])}
           r == At(u, J)
<1>1. u \in Seq(Lines)
  BY AtType
<1>2. PICK at : Enumerates(at, u, t, I)
  BY AtEnumerates
<1>3. r = Disowned(t, n)
  BY DEF Disowned
<1>4. Paired(t, n) /\ \A i \in DOMAIN t : Owns(t, n, i) <=> Between(t, n, i)
  BY OwnsIsBetween DEF WellMarked
<1>5. \A i \in DOMAIN t : t[i] = <<"begin", n>> \/ t[i] = <<"end", n>> => i \notin I
  <2>1. ASSUME NEW i \in DOMAIN t, t[i] = <<"begin", n>> \/ t[i] = <<"end", n>>
        PROVE  Between(t, n, i)
    <3>1. PICK b, e : IsPair(t, n, b, e)
      BY <1>4, <2>1, PairedIsPair DEF Unmarked
    <3>2. b \in Nat /\ e \in Nat /\ (i = b \/ i = e)
      BY <2>1, <3>1 DEF IsPair
    <3> QED BY <3>1, <3>2 DEF IsPair, Between
  <2> QED BY <1>4, <2>1
<1>6. \A i \in DOMAIN t : MarksAnother(t[i], n) => i \in I
  <2>1. ASSUME NEW i \in DOMAIN t, MarksAnother(t[i], n), Between(t, n, i) PROVE FALSE
    <3>1. t[i] \in Lines
      OBVIOUS
    <3>2. IsComment(t[i]) /\ t[i][2] \in Names \ {n}
      BY <2>1, <3>1, LinePairs DEF MarksAnother
    <3> QED BY <2>1, <3>2, WellMarkedIs
  <2> QED BY <1>4, <2>1
<1>7. /\ \A k \in DOMAIN u : at[k] \in I /\ at[k] \in DOMAIN t /\ u[k] = t[at[k]]
  <2>1. DOMAIN u = 1..Len(u) /\ DOMAIN t = 1..Len(t)
    BY <1>1
  <2> HIDE DEF u, I
  <2> QED BY <1>2, <2>1 DEF Enumerates
<1>8. Unmarked(u, n)
  BY <1>5, <1>7 DEF Unmarked
<1>9. WellMarked(u)
  <2> HIDE DEF u, I
  <2> QED BY <1>1, <1>2, <1>6, <1>8, PartIsWellMarked
<1> HIDE DEF u, I
<1>10. PICK on : Enumerates(on, r, u, J)
  BY <1>1, AtEnumerates
<1>11. r \in Seq(Lines)
  BY <1>1, AtType
<1>12. \A i \in DOMAIN u : MarksAnother(u[i], n) => i \in J
  <2>1. \A i \in DOMAIN u : u[i] \in Lines
    BY <1>1
  <2> QED BY <2>1, LinePairs DEF MarksAnother
<1>13. \A k \in DOMAIN r : on[k] \in DOMAIN u /\ r[k] = u[on[k]]
  <2>1. DOMAIN u = 1..Len(u) /\ DOMAIN r = 1..Len(r)
    BY <1>1, <1>11
  <2> HIDE DEF r, J
  <2> QED BY <1>10, <2>1 DEF Enumerates
<1> HIDE DEF r, J
<1>14. Unmarked(r, n)
  BY <1>8, <1>13 DEF Unmarked
<1>15. WellMarked(r)
  BY <1>1, <1>9, <1>10, <1>11, <1>12, <1>14, PartIsWellMarked
<1>16. \A k \in DOMAIN r : \E i \in DOMAIN t : r[k] = t[i]
  BY <1>7, <1>13
<1> QED BY <1>3, <1>11, <1>14, <1>15, <1>16

\* A text is what comes before a span, the span and what comes after it.
LEMMA SplitText ==
  ASSUME NEW t \in Seq(Lines), NEW b \in Nat, NEW e \in Nat,
         1 <= b, b <= e + 1, e <= Len(t)
  PROVE  LET x == SubSeq(t, 1, b - 1)
             y == SubSeq(t, b, e)
             z == SubSeq(t, e + 1, Len(t))
         IN  /\ x \in Seq(Lines) /\ y \in Seq(Lines) /\ z \in Seq(Lines)
             /\ Len(x) = b - 1 /\ Len(y) = (e - b) + 1 /\ Len(z) = Len(t) - e
             /\ \A i \in 1..(b - 1) : x[i] = t[i]
             /\ \A i \in 1..(Len(t) - e) : z[i] = t[e + i]
             /\ t = (x \o y) \o z
<1>1. PICK n \in Nat : n = Len(t)
  OBVIOUS
<1> DEFINE x == SubSeq(t, 1, b - 1)
           y == SubSeq(t, b, e)
           z == SubSeq(t, e + 1, n)
<1>2. \A i \in 1..n : t[i] \in Lines
  BY <1>1
<1>3. /\ x \in Seq(Lines) /\ Len(x) = b - 1
      /\ \A i \in 1..(b - 1) : x[i] = t[i]
  <2>1. \A i \in 1..(b - 1) : t[i] \in Lines
    BY <1>1, <1>2
  <2>2. /\ x \in Seq(Lines) /\ Len(x) = IF 1 <= b - 1 THEN ((b - 1) - 1) + 1 ELSE 0
        /\ \A i \in 1..(((b - 1) - 1) + 1) : x[i] = t[(1 + i) - 1]
    BY <2>1, SubSeqProperties
  <2> QED BY <2>2
<1>4. y \in Seq(Lines) /\ Len(y) = (e - b) + 1
  <2>1. \A i \in b..e : t[i] \in Lines
    BY <1>1, <1>2
  <2>2. y \in Seq(Lines) /\ Len(y) = IF b <= e THEN (e - b) + 1 ELSE 0
    BY <2>1, SubSeqProperties
  <2> QED BY <2>2
<1>5. /\ z \in Seq(Lines) /\ Len(z) = n - e
      /\ \A i \in 1..(n - e) : z[i] = t[e + i]
  <2>1. \A i \in (e + 1)..n : t[i] \in Lines
    BY <1>2
  <2>2. /\ z \in Seq(Lines) /\ Len(z) = IF e + 1 <= n THEN (n - (e + 1)) + 1 ELSE 0
        /\ \A i \in 1..((n - (e + 1)) + 1) : z[i] = t[((e + 1) + i) - 1]
    BY <2>1, SubSeqProperties
  <2> QED BY <1>1, <2>2
<1>6. t = (x \o y) \o z
  <2>1. x \o y = SubSeq(t, 1, e)
    BY <1>1, ConcatAdjacentSubSeq
  <2>2. SubSeq(t, 1, e) \o z = SubSeq(t, 1, n)
    <3>1. 1 \in 1..(Len(t) + 1) /\ e \in (1 - 1)..Len(t) /\ n \in e..Len(t)
      BY <1>1
    <3>2. SubSeq(t, 1, e) \o SubSeq(t, e + 1, n) = SubSeq(t, 1, n)
      BY ONLY <3>1, t \in Seq(Lines), ConcatAdjacentSubSeq
    <3> QED BY <3>2
  <2>3. SubSeq(t, 1, n) = t
    BY <1>1, SubSeqFull
  <2> QED BY <2>1, <2>2, <2>3
<1> QED BY <1>1, <1>3, <1>4, <1>5, <1>6

\* A span of which nothing is taken.
Around(I, J, x, y, z) ==
  /\ \A i \in 1..Len(y) : Len(x) + i \notin I
  /\ \A i \in 1..Len(z) : i \in J <=> (Len(x) + Len(y)) + i \in I

LEMMA AtAround ==
  ASSUME NEW x \in Seq(Lines), NEW y \in Seq(Lines), NEW z \in Seq(Lines), NEW I, NEW J,
         Around(I, J, x, y, z)
  PROVE  At((x \o y) \o z, I) = At(x, I) \o At(z, J)
<1>1. /\ x \o y \in Seq(Lines) /\ Len(x \o y) = Len(x) + Len(y)
      /\ Len(x) \in Nat /\ Len(y) \in Nat /\ Len(z) \in Nat
  OBVIOUS
<1>2. At((x \o y) \o z, I) = At(x \o y, I) \o At(z, J)
  <2>1. Shifted(I, J, x \o y, z)
    BY <1>1 DEF Shifted, Around
  <2>2. PICK w \in Seq(Lines) : w = x \o y
    BY <1>1
  <2>3. Shifted(I, J, w, z)
    BY <2>1, <2>2
  <2>4. At(w \o z, I) = At(w, I) \o At(z, J)
    BY ONLY <2>3, w \in Seq(Lines), z \in Seq(Lines), AtConcat
  <2> QED BY <2>2, <2>4
<1>3. At(x \o y, I) = At(x, I) \o At(y, {})
  <2>1. Shifted(I, {}, x, y)
    BY DEF Shifted, Around
  <2> QED BY ONLY <2>1, x \in Seq(Lines), y \in Seq(Lines), AtConcat
<1>4. At(y, {}) = <<>>
  BY AtNone
<1>5. At(x, I) \in Seq(Lines)
  BY AtType
<1>6. At(x, I) \o <<>> = At(x, I)
  BY <1>5, ConcatEmptySeq
<1> QED BY <1>2, <1>3, <1>4, <1>6

\* Without a span, a text is its lines at the other indices.
LEMMA WithoutIsAt ==
  ASSUME NEW t \in Seq(Lines), NEW b \in Nat, NEW e \in Nat,
         1 <= b, b <= e + 1, e <= Len(t)
  PROVE  Without(t, b, e) = At(t, {i \in DOMAIN t : ~(b <= i /\ i <= e)})
<1>1. PICK n \in Nat : n = Len(t)
  OBVIOUS
<1> DEFINE x == SubSeq(t, 1, b - 1)
           y == SubSeq(t, b, e)
           z == SubSeq(t, e + 1, n)
           I == {i \in DOMAIN t : ~(b <= i /\ i <= e)}
<1>2. /\ x \in Seq(Lines) /\ y \in Seq(Lines) /\ z \in Seq(Lines)
      /\ Len(x) = b - 1 /\ Len(y) = (e - b) + 1 /\ Len(z) = n - e
      /\ t = (x \o y) \o z
  BY <1>1, SplitText
<1>3. \A i : i \in I <=> i \in 1..n /\ ~(b <= i /\ i <= e)
  BY <1>1
<1>5. \A i \in 1..Len(z) : i \in 1..Len(z) <=> (Len(x) + Len(y)) + i \in I
  BY <1>2, <1>3
<1>6. \A i \in 1..Len(y) : Len(x) + i \notin I
  BY <1>2, <1>3
<1>7. \A i \in 1..Len(x) : i \in I
  BY <1>1, <1>2, <1>3
<1>8. Without(t, b, e) = x \o z
  BY <1>1 DEF Without
<1> HIDE DEF I, x, y, z
<1>9. At(t, I) = At(x, I) \o At(z, 1..Len(z))
  <2>1. Around(I, 1..Len(z), x, y, z)
    BY <1>5, <1>6 DEF Around
  <2>2. At((x \o y) \o z, I) = At(x, I) \o At(z, 1..Len(z))
    BY ONLY <1>2, <2>1, AtAround
  <2> QED BY <1>2, <2>2
<1>10. At(x, I) = x /\ At(z, 1..Len(z)) = z
  BY <1>2, <1>7, AtAll
<1> QED BY <1>8, <1>9, <1>10 DEF I

LEMMA RefusedIsNoText == RefusedText \notin Seq(Lines)
<1>1. SUFFICES ASSUME RefusedText \in Seq(Lines) PROVE FALSE
  OBVIOUS
<1>2. RefusedText[1] \in Lines /\ RefusedText[1] = <<"refused", User>>
  BY <1>1 DEF RefusedText
<1> QED BY <1>2 DEF Lines

\* The removal of an obsolete name leaves what it does not own.
LEMMA RemovedIsDisowned ==
  ASSUME NEW t \in Seq(Lines), WellMarked(t), NEW n \in Names
  PROVE  RemoveCodexTable(t, n) = Disowned(t, n)
<1> DEFINE I == {i \in DOMAIN t : ~Owns(t, n, i)}
<1>1. Paired(t, n) /\ \A i \in DOMAIN t : Owns(t, n, i) <=> Between(t, n, i)
  BY OwnsIsBetween DEF WellMarked
<1>2. \A u : At(u, {i \in DOMAIN u : ~Obsolete(u, n, i) \/ IsComment(u[i])}) = WithoutSections(u, n)
  BY DEF WithoutSections
<1>3. Disowned(t, n) = WithoutSections(At(t, I), n)
  BY DEF Disowned, WithoutSections
<1>4. CASE Unmarked(t, n)
  <2>1. BeginOf(t, n) = 0 /\ EndOf(t, n) = 0
    BY <1>4, FirstIsOnly DEF BeginOf, EndOf, Unmarked
  <2>2. \A i \in DOMAIN t : i \in I
    BY <1>1, <1>4 DEF Between, Unmarked
  <2>3. At(t, I) = t
    <3>1. DOMAIN t = 1..Len(t)
      OBVIOUS
    <3> HIDE DEF I
    <3> QED BY <2>2, <3>1, AtAll
  <2>4. RemoveCodexTable(t, n) = WithoutSections(t, n)
    BY <2>1, RefusedIsNoText DEF RemoveCodexTable
  <2> QED BY <1>3, <2>3, <2>4
<1>5. ASSUME NEW b, NEW e, IsPair(t, n, b, e)
      PROVE  RemoveCodexTable(t, n) = Disowned(t, n)
  <2>1. BeginOf(t, n) = b /\ EndOf(t, n) = e
    BY <1>5, FirstIsOnly DEF BeginOf, EndOf, IsPair
  <2>2. b \in Nat /\ e \in Nat /\ 1 <= b /\ b < e /\ e <= Len(t)
    BY <1>5 DEF IsPair
  <2>3. RemoveCodexTable(t, n) = WithoutSections(Without(t, b, e), n)
    BY <2>1, <2>2, RefusedIsNoText DEF RemoveCodexTable
  <2> DEFINE K == {i \in DOMAIN t : ~(b <= i /\ i <= e)}
  <2>4. Without(t, b, e) = At(t, K)
    BY <2>2, WithoutIsAt
  <2>5. \A i \in DOMAIN t : Between(t, n, i) <=> b <= i /\ i <= e
    BY <1>5 DEF Between, IsPair
  <2>6. \A i \in 1..Len(t) : i \in K <=> i \in I
    BY <1>1, <2>5
  <2>7. At(t, K) = At(t, I)
    <3> HIDE DEF I, K
    <3> QED BY <2>6, AtAgree
  <2> QED BY <1>3, <2>3, <2>4, <2>7
<1> QED BY <1>1, <1>4, <1>5, PairedIsPair

\* A name without markers or tables owns nothing.
LEMMA NothingDisowned ==
  ASSUME NEW t \in Seq(Lines), WellMarked(t), NEW n \in Names, Unmarked(t, n),
         ~Declares(t, n)
  PROVE  Disowned(t, n) = t
<1> DEFINE I == {i \in DOMAIN t : ~Owns(t, n, i)}
           J == {i \in DOMAIN t : ~Obsolete(t, n, i) \/ IsComment(t[i])}
<1>1. Paired(t, n) /\ \A i \in DOMAIN t : Owns(t, n, i) <=> Between(t, n, i)
  BY OwnsIsBetween DEF WellMarked
<1>2. \A i \in DOMAIN t : i \in I
  BY <1>1 DEF Between, Unmarked
<1>3. DOMAIN t = 1..Len(t)
  OBVIOUS
<1>4. At(t, I) = t
  <2> HIDE DEF I
  <2> QED BY <1>2, <1>3, AtAll
<1>5. \A i \in DOMAIN t : ~Obsolete(t, n, i)
  <2>1. ASSUME NEW i \in DOMAIN t, Obsolete(t, n, i) PROVE FALSE
    <3>1. /\ Section(t, i) \in DOMAIN t /\ IsHeader(t[Section(t, i)])
          /\ t[Section(t, i)] \in {<<"table", n>>, <<"child", n>>}
      BY <2>1, SectionIsUnder DEF Obsolete
    <3> QED BY <3>1 DEF Declares
  <2> QED BY <2>1
<1>6. At(t, J) = t
  <2>1. \A i \in 1..Len(t) : i \in J
    BY <1>3, <1>5
  <2> HIDE DEF J
  <2> QED BY <2>1, AtAll
<1>7. Disowned(t, n) = At(t, J)
  BY <1>4 DEF Disowned
<1> QED BY <1>6, <1>7

-----------------------------------------------------------------------------
(* What the merges and the removals give.                                  *)

\* A text or its refusal.
Rendered == Seq(Lines) \cup {RefusedText}

LEMMA FirstType ==
  ASSUME NEW t \in Seq(Lines), NEW line
  PROVE  First(t, line) \in 0..Len(t)
<1> DEFINE at == {i \in DOMAIN t : t[i] = line}
<1>1. at \in SUBSET Nat
  OBVIOUS
<1>2. at # {} => Min(at) \in at
  BY <1>1, LeastElement
<1>3. \A i \in at : i \in 0..Len(t)
  OBVIOUS
<1> HIDE DEF at
<1>4. First(t, line) = IF at = {} THEN 0 ELSE Min(at)
  BY DEF First, at
<1> QED BY <1>2, <1>3, <1>4

LEMMA MigrateType ==
  ASSUME NEW t \in Rendered, NEW n \in Names
  PROVE  Migrate(t, n) \in Rendered
<1>1. \A u \in Seq(Lines) : WithoutSections(u, n) \in Seq(Lines)
  BY AtType DEF WithoutSections
<1>2. ASSUME t \in Seq(Lines), BeginOf(t, n) > 0, EndOf(t, n) > BeginOf(t, n)
      PROVE  Without(t, BeginOf(t, n), EndOf(t, n)) \in Seq(Lines)
  <2>1. BeginOf(t, n) \in 0..Len(t) /\ EndOf(t, n) \in 0..Len(t)
    BY <1>2, FirstType DEF BeginOf, EndOf
  <2>2. /\ BeginOf(t, n) \in Nat /\ EndOf(t, n) \in Nat /\ 1 <= BeginOf(t, n)
        /\ BeginOf(t, n) <= EndOf(t, n) + 1 /\ EndOf(t, n) <= Len(t)
    BY <1>2, <2>1
  <2>3. Without(t, BeginOf(t, n), EndOf(t, n))
          = At(t, {i \in DOMAIN t : ~(BeginOf(t, n) <= i /\ i <= EndOf(t, n))})
    BY <1>2, <2>2, WithoutIsAt
  <2> QED BY <1>2, <2>3, AtType
<1>3. RemoveCodexTable(t, n) \in Rendered
  <2>1. CASE t = RefusedText
    BY <2>1 DEF RemoveCodexTable, Rendered
  <2>2. CASE t \in Seq(Lines)
    <3>1. BeginOf(t, n) \in 0..Len(t) /\ EndOf(t, n) \in 0..Len(t)
      BY <2>2, FirstType DEF BeginOf, EndOf
    <3> QED BY <1>1, <1>2, <2>2, <3>1 DEF RemoveCodexTable, Rendered
  <2> QED BY <2>1, <2>2 DEF Rendered
<1> QED BY <1>3 DEF Migrate, Rendered

\* What comes before a span, the block, and what comes after the span.
Spliced(t, n, b, e) == (SubSeq(t, 1, b - 1) \o Block(n)) \o SubSeq(t, e + 1, Len(t))

LEMMA SplicedPoints ==
  ASSUME NEW t \in Seq(Lines), NEW n \in Names, NEW b \in Nat, NEW e \in Nat,
         1 <= b, b <= e + 1, e <= Len(t)
  PROVE  /\ Spliced(t, n, b, e) \in Seq(Lines)
         /\ Len(Spliced(t, n, b, e)) = (b + 3) + (Len(t) - e)
         /\ \A i \in 1..(b - 1) : Spliced(t, n, b, e)[i] = t[i]
         /\ \A i \in 1..4 : Spliced(t, n, b, e)[(b - 1) + i] = Block(n)[i]
         /\ \A i \in 1..(Len(t) - e) : Spliced(t, n, b, e)[(b + 3) + i] = t[e + i]
<1>1. PICK k \in Nat : k = Len(t)
  OBVIOUS
<1> DEFINE x == SubSeq(t, 1, b - 1)
           y == Block(n)
           z == SubSeq(t, e + 1, k)
           r == (x \o y) \o z
<1>2. /\ x \in Seq(Lines) /\ Len(x) = b - 1 /\ \A i \in 1..(b - 1) : x[i] = t[i]
      /\ z \in Seq(Lines) /\ Len(z) = k - e /\ \A i \in 1..(k - e) : z[i] = t[e + i]
  BY <1>1, SplitText
<1>3. y \in Seq(Lines) /\ Len(y) = 4
  BY BlockLines
<1>4. r = Spliced(t, n, b, e)
  BY <1>1 DEF Spliced
<1> HIDE DEF x, y, z
<1>5. /\ x \o y \in Seq(Lines) /\ Len(x \o y) = b + 3
      /\ \A i \in 1..(b + 3) : (x \o y)[i] = IF i <= b - 1 THEN x[i] ELSE y[i - (b - 1)]
  <2>1. /\ x \o y \in Seq(Lines) /\ Len(x \o y) = Len(x) + Len(y)
        /\ \A i \in 1..(Len(x) + Len(y)) : (x \o y)[i] = IF i <= Len(x) THEN x[i] ELSE y[i - Len(x)]
    BY <1>2, <1>3, ConcatProperties
  <2>2. Len(x) = b - 1 /\ Len(x) + Len(y) = b + 3
    BY <1>2, <1>3
  <2> QED BY <2>1, <2>2
<1>6. /\ r \in Seq(Lines) /\ Len(r) = (b + 3) + (k - e)
      /\ \A i \in 1..((b + 3) + (k - e)) :
           r[i] = IF i <= b + 3 THEN (x \o y)[i] ELSE z[i - (b + 3)]
  <2>1. PICK w \in Seq(Lines) : w = x \o y
    BY <1>5
  <2>2. /\ w \o z \in Seq(Lines) /\ Len(w \o z) = Len(w) + Len(z)
        /\ \A i \in 1..(Len(w) + Len(z)) :
             (w \o z)[i] = IF i <= Len(w) THEN w[i] ELSE z[i - Len(w)]
    <3>1. z \in Seq(Lines)
      BY <1>2
    <3> QED BY ONLY w \in Seq(Lines), <3>1, ConcatProperties
  <2>3. Len(w) = b + 3 /\ Len(w) + Len(z) = (b + 3) + (k - e) /\ r = w \o z
    BY <1>2, <1>5, <2>1
  <2> QED BY <2>1, <2>2, <2>3
<1> HIDE DEF r
<1>7. \A i \in 1..(b - 1) : r[i] = t[i]
  <2> SUFFICES ASSUME NEW i \in 1..(b - 1) PROVE r[i] = t[i]
    OBVIOUS
  <2>1. i \in 1..(b + 3) /\ i <= b - 1 /\ i \in 1..((b + 3) + (k - e)) /\ i <= b + 3
    BY <1>1
  <2> QED BY <1>2, <1>5, <1>6, <2>1
<1>8. \A i \in 1..4 : r[(b - 1) + i] = y[i]
  <2> SUFFICES ASSUME NEW i \in 1..4 PROVE r[(b - 1) + i] = y[i]
    OBVIOUS
  <2>1. /\ (b - 1) + i \in 1..(b + 3) /\ ~((b - 1) + i <= b - 1)
        /\ (b - 1) + i \in 1..((b + 3) + (k - e)) /\ (b - 1) + i <= b + 3
        /\ ((b - 1) + i) - (b - 1) = i
    BY <1>1
  <2> QED BY <1>5, <1>6, <2>1
<1>9. \A i \in 1..(k - e) : r[(b + 3) + i] = t[e + i]
  <2> SUFFICES ASSUME NEW i \in 1..(k - e) PROVE r[(b + 3) + i] = t[e + i]
    OBVIOUS
  <2>1. /\ (b + 3) + i \in 1..((b + 3) + (k - e)) /\ ~((b + 3) + i <= b + 3)
        /\ ((b + 3) + i) - (b + 3) = i
    BY <1>1
  <2> QED BY <1>2, <1>6, <2>1
<1> QED BY <1>1, <1>4, <1>6, <1>7, <1>8, <1>9 DEF y

\* The span that the block of a name takes the place of.
IsSpan(t, n, b, e) ==
  \/ Unmarked(t, n) /\ b = Len(t) + 1 /\ e = Len(t)
  \/ IsPair(t, n, b, e)

LEMMA PlacedIsSpliced ==
  ASSUME NEW t \in Seq(Lines), NEW n \in Names, Placed(t, n) # RefusedText,
         NEW b, NEW e, IsSpan(t, n, b, e)
  PROVE  Placed(t, n) = Spliced(t, n, b, e)
<1>1. CASE Unmarked(t, n) /\ b = Len(t) + 1 /\ e = Len(t)
  <2>1. BeginOf(t, n) = 0 /\ EndOf(t, n) = 0
    BY <1>1, FirstIsOnly DEF BeginOf, EndOf, Unmarked
  <2>2. Placed(t, n) = t \o Block(n)
    BY <2>1 DEF Placed
  <2>3. PICK k \in Nat : k = Len(t)
    OBVIOUS
  <2>4. SubSeq(t, 1, (k + 1) - 1) = t
    BY <2>3, SubSeqFull
  <2>5. SubSeq(t, k + 1, k) = <<>>
    BY <2>3, SubSeqEmpty
  <2>6. t \o Block(n) \in Seq(Lines)
    BY BlockLines
  <2>7. (t \o Block(n)) \o <<>> = t \o Block(n)
    BY <2>6, ConcatEmptySeq
  <2> QED BY <1>1, <2>2, <2>3, <2>4, <2>5, <2>7 DEF Spliced
<1>2. CASE IsPair(t, n, b, e)
  <2>1. BeginOf(t, n) = b /\ EndOf(t, n) = e
    BY <1>2, FirstIsOnly DEF BeginOf, EndOf, IsPair
  <2>2. b > 0 /\ e > b
    BY <1>2 DEF IsPair
  <2>3. Placed(t, n) = SubSeq(t, 1, b - 1) \o Block(n) \o SubSeq(t, e + 1, Len(t))
    BY <2>1, <2>2 DEF Placed
  <2> QED BY <2>3 DEF Spliced
<1> QED BY <1>1, <1>2 DEF IsSpan

LEMMA SpanType ==
  ASSUME NEW t \in Seq(Lines), NEW n, NEW b, NEW e, IsSpan(t, n, b, e)
  PROVE  b \in Nat /\ e \in Nat /\ 1 <= b /\ b <= e + 1 /\ e <= Len(t)
BY DEF IsSpan, IsPair

LEMMA MergeType ==
  ASSUME NEW t \in Rendered, NEW n \in Names
  PROVE  MergeCodex(t, n) \in Rendered
<1>1. CASE t = RefusedText
  BY <1>1 DEF MergeCodex, Rendered
<1>2. CASE t \in Seq(Lines)
  <2>1. Block(n) \in Seq(Lines)
    BY BlockLines
  <2>2. t \o Block(n) \in Seq(Lines)
    BY <1>2, <2>1
  <2>3. ASSUME BeginOf(t, n) > 0, EndOf(t, n) > BeginOf(t, n)
        PROVE  Spliced(t, n, BeginOf(t, n), EndOf(t, n)) \in Seq(Lines)
    <3>1. BeginOf(t, n) \in 0..Len(t) /\ EndOf(t, n) \in 0..Len(t)
      BY <1>2, FirstType DEF BeginOf, EndOf
    <3>2. /\ BeginOf(t, n) \in Nat /\ EndOf(t, n) \in Nat /\ 1 <= BeginOf(t, n)
          /\ BeginOf(t, n) <= EndOf(t, n) + 1 /\ EndOf(t, n) <= Len(t)
      BY <1>2, <2>3, <3>1
    <3> QED BY <1>2, <3>2, SplicedPoints
  <2>4. Placed(t, n) \in Rendered
    BY <2>2, <2>3 DEF Placed, Rendered, Spliced
  <2> QED BY <2>4 DEF MergeCodex, Rendered
<1> QED BY <1>1, <1>2 DEF Rendered

MigrationStep(t, names, iter) ==
  [s \in SUBSET (DOMAIN names) |->
     IF s = {} THEN t
     ELSE Migrate(iter[s \ {Max(s)}], names[Max(s)])]

LEMMA MigrationUnfolds ==
  ASSUME NEW t, NEW names
  PROVE  FoldLeft(Migrate, t, names)
           = (CHOOSE iter : iter = MigrationStep(t, names, iter))[DOMAIN names]
BY DEF FoldLeft, MapThenFoldSet, MigrationStep

\* What each removal leaves.
MigrationTrace(f, t, names) ==
  /\ f \in [0..Len(names) -> Rendered] /\ f[0] = t
  /\ \A i \in 1..Len(names) : f[i] = Migrate(f[i - 1], names[i])
  /\ FoldLeft(Migrate, t, names) = f[Len(names)]

LEMMA MigrationChain ==
  ASSUME NEW t \in Rendered, NEW names \in Seq(Names)
  PROVE  \E f : MigrationTrace(f, t, names)
<1> DEFINE n == Len(names)
           V == Rendered
           b == t
           op == [i \in 1..n |-> [q \in V |-> Migrate(q, names[i])]]
           iter == CHOOSE g : g = MigrationStep(t, names, g)
           f == [i \in 0..n |-> iter[1..i]]
<1>1. n \in Nat /\ DOMAIN names = 1..n
  OBVIOUS
<1>2. op \in [1..n -> [V -> V]] /\ b \in V
  <2>1. \A i \in 1..n : names[i] \in Names
    BY <1>1
  <2> QED BY <2>1, MigrateType
<1>3. \A i \in 1..n : \A q \in V : op[i][q] = Migrate(q, names[i])
  OBVIOUS
<1> HIDE DEF n, V, b, op, iter
<1>4. PICK g \in [SUBSET (1..n) -> V] : IsLeftFold(g, n, V, b, op)
  BY ONLY <1>1, <1>2, LeftFoldExists
<1>5. g = MigrationStep(t, names, g)
  <2>1. ASSUME NEW s \in SUBSET (1..n)
        PROVE  g[s] = IF s = {} THEN t
                      ELSE Migrate(g[s \ {Max(s)}], names[Max(s)])
    <3>1. CASE s = {}
      BY <1>4, <3>1 DEF b, IsLeftFold
    <3>2. CASE s # {}
      <4>1. Max(s) \in 1..n /\ s \ {Max(s)} \in SUBSET (1..n)
        BY <1>1, <3>2, GreatestOfSome
      <4>2. g[s] = op[Max(s)][g[s \ {Max(s)}]] /\ g[s \ {Max(s)}] \in V
        BY <1>4, <3>2, <4>1 DEF IsLeftFold
      <4> QED BY <1>3, <3>2, <4>1, <4>2
    <3> QED BY <3>1, <3>2
  <2>2. g = [s \in SUBSET (1..n) |-> g[s]]
    OBVIOUS
  <2> QED BY <1>1, <2>1, <2>2 DEF MigrationStep
<1>6. iter = MigrationStep(t, names, iter)
  BY <1>5 DEF iter
<1>7. \A s \in SUBSET (1..n) :
        iter[s] = IF s = {} THEN t
                  ELSE Migrate(iter[s \ {Max(s)}], names[Max(s)])
  <2>1. ASSUME NEW s \in SUBSET (1..n) PROVE iter[s] = MigrationStep(t, names, iter)[s]
    BY <1>6
  <2> QED BY <1>1, <2>1 DEF MigrationStep
<1>8. IsLeftFold(iter, n, V, b, op)
  <2>1. ASSUME NEW s \in SUBSET (1..n), s # {}, iter[s \ {Max(s)}] \in V
        PROVE  iter[s] = op[Max(s)][iter[s \ {Max(s)}]]
    <3>1. Max(s) \in 1..n
      BY <1>1, <2>1, GreatestOfSome
    <3> QED BY <1>3, <1>7, <2>1, <3>1
  <2> QED BY <1>7, <2>1 DEF b, IsLeftFold
<1>9. f = [i \in 0..n |-> iter[1..i]]
  OBVIOUS
<1>10. FoldLeft(Migrate, t, names) = f[n]
  <2>1. FoldLeft(Migrate, t, names) = iter[1..n] /\ n \in 0..n
    BY <1>1, MigrationUnfolds DEF iter
  <2> QED BY <2>1
<1> HIDE DEF f
<1>11. IsChain(f, n, V, b, op)
  BY ONLY <1>1, <1>2, <1>8, <1>9, LeftFoldChain
<1>12. /\ f \in [0..n -> V] /\ f[0] = t
       /\ \A i \in 1..n : f[i] = Migrate(f[i - 1], names[i])
  <2>1. /\ f \in [0..n -> V] /\ f[0] = b /\ \A i \in 1..n : f[i] = op[i][f[i - 1]]
    BY <1>11 DEF IsChain
  <2>2. \A i \in 1..n : i - 1 \in 0..n
    BY <1>1
  <2> QED BY <1>3, <2>1, <2>2 DEF b
<1> QED BY <1>10, <1>12 DEF n, V, MigrationTrace

DisowningStep(t, names, iter) ==
  [s \in SUBSET (DOMAIN names) |->
     IF s = {} THEN t
     ELSE Disowned(iter[s \ {Max(s)}], names[Max(s)])]

LEMMA DisowningUnfolds ==
  ASSUME NEW t, NEW names
  PROVE  FoldLeft(Disowned, t, names)
           = (CHOOSE iter : iter = DisowningStep(t, names, iter))[DOMAIN names]
BY DEF FoldLeft, MapThenFoldSet, DisowningStep

\* What is left without each name.
DisowningTrace(f, t, names) ==
  /\ f \in [0..Len(names) -> Seq(Lines)] /\ f[0] = t
  /\ \A i \in 1..Len(names) : f[i] = Disowned(f[i - 1], names[i])
  /\ FoldLeft(Disowned, t, names) = f[Len(names)]

LEMMA DisowningChain ==
  ASSUME NEW t \in Seq(Lines), NEW names \in Seq(Names)
  PROVE  \E f : DisowningTrace(f, t, names)
<1> DEFINE n == Len(names)
           V == Seq(Lines)
           b == t
           op == [i \in 1..n |-> [q \in V |-> Disowned(q, names[i])]]
           iter == CHOOSE g : g = DisowningStep(t, names, g)
           f == [i \in 0..n |-> iter[1..i]]
<1>1. n \in Nat /\ DOMAIN names = 1..n
  OBVIOUS
<1>2. op \in [1..n -> [V -> V]] /\ b \in V
  <2>1. \A i \in 1..n : names[i] \in Names
    BY <1>1
  <2> QED BY <2>1, AtType DEF Disowned
<1>3. \A i \in 1..n : \A q \in V : op[i][q] = Disowned(q, names[i])
  OBVIOUS
<1> HIDE DEF n, V, b, op, iter
<1>4. PICK g \in [SUBSET (1..n) -> V] : IsLeftFold(g, n, V, b, op)
  BY ONLY <1>1, <1>2, LeftFoldExists
<1>5. g = DisowningStep(t, names, g)
  <2>1. ASSUME NEW s \in SUBSET (1..n)
        PROVE  g[s] = IF s = {} THEN t
                      ELSE Disowned(g[s \ {Max(s)}], names[Max(s)])
    <3>1. CASE s = {}
      BY <1>4, <3>1 DEF b, IsLeftFold
    <3>2. CASE s # {}
      <4>1. Max(s) \in 1..n /\ s \ {Max(s)} \in SUBSET (1..n)
        BY <1>1, <3>2, GreatestOfSome
      <4>2. g[s] = op[Max(s)][g[s \ {Max(s)}]] /\ g[s \ {Max(s)}] \in V
        BY <1>4, <3>2, <4>1 DEF IsLeftFold
      <4> QED BY <1>3, <3>2, <4>1, <4>2
    <3> QED BY <3>1, <3>2
  <2>2. g = [s \in SUBSET (1..n) |-> g[s]]
    OBVIOUS
  <2> QED BY <1>1, <2>1, <2>2 DEF DisowningStep
<1>6. iter = DisowningStep(t, names, iter)
  BY <1>5 DEF iter
<1>7. \A s \in SUBSET (1..n) :
        iter[s] = IF s = {} THEN t
                  ELSE Disowned(iter[s \ {Max(s)}], names[Max(s)])
  <2>1. ASSUME NEW s \in SUBSET (1..n) PROVE iter[s] = DisowningStep(t, names, iter)[s]
    BY <1>6
  <2> QED BY <1>1, <2>1 DEF DisowningStep
<1>8. IsLeftFold(iter, n, V, b, op)
  <2>1. ASSUME NEW s \in SUBSET (1..n), s # {}, iter[s \ {Max(s)}] \in V
        PROVE  iter[s] = op[Max(s)][iter[s \ {Max(s)}]]
    <3>1. Max(s) \in 1..n
      BY <1>1, <2>1, GreatestOfSome
    <3> QED BY <1>3, <1>7, <2>1, <3>1
  <2> QED BY <1>7, <2>1 DEF b, IsLeftFold
<1>9. f = [i \in 0..n |-> iter[1..i]]
  OBVIOUS
<1>10. FoldLeft(Disowned, t, names) = f[n]
  <2>1. FoldLeft(Disowned, t, names) = iter[1..n] /\ n \in 0..n
    BY <1>1, DisowningUnfolds DEF iter
  <2> QED BY <2>1
<1> HIDE DEF f
<1>11. IsChain(f, n, V, b, op)
  BY ONLY <1>1, <1>2, <1>8, <1>9, LeftFoldChain
<1>12. /\ f \in [0..n -> V] /\ f[0] = t
       /\ \A i \in 1..n : f[i] = Disowned(f[i - 1], names[i])
  <2>1. /\ f \in [0..n -> V] /\ f[0] = b /\ \A i \in 1..n : f[i] = op[i][f[i - 1]]
    BY <1>11 DEF IsChain
  <2>2. \A i \in 1..n : i - 1 \in 0..n
    BY <1>1
  <2> QED BY <1>3, <2>1, <2>2 DEF b
<1> QED BY <1>10, <1>12 DEF n, V, DisowningTrace

MergingStep(t, names, iter) ==
  [s \in SUBSET (DOMAIN names) |->
     IF s = {} THEN t
     ELSE MergeCodex(iter[s \ {Max(s)}], names[Max(s)])]

LEMMA MergingUnfolds ==
  ASSUME NEW t, NEW names
  PROVE  FoldLeft(MergeCodex, t, names)
           = (CHOOSE iter : iter = MergingStep(t, names, iter))[DOMAIN names]
BY DEF FoldLeft, MapThenFoldSet, MergingStep

\* What each merge leaves.
MergingTrace(f, t, names) ==
  /\ f \in [0..Len(names) -> Rendered] /\ f[0] = t
  /\ \A i \in 1..Len(names) : f[i] = MergeCodex(f[i - 1], names[i])
  /\ FoldLeft(MergeCodex, t, names) = f[Len(names)]

LEMMA MergingChain ==
  ASSUME NEW t \in Rendered, NEW names \in Seq(Names)
  PROVE  \E f : MergingTrace(f, t, names)
<1> DEFINE n == Len(names)
           V == Rendered
           b == t
           op == [i \in 1..n |-> [q \in V |-> MergeCodex(q, names[i])]]
           iter == CHOOSE g : g = MergingStep(t, names, g)
           f == [i \in 0..n |-> iter[1..i]]
<1>1. n \in Nat /\ DOMAIN names = 1..n
  OBVIOUS
<1>2. op \in [1..n -> [V -> V]] /\ b \in V
  <2>1. \A i \in 1..n : names[i] \in Names
    BY <1>1
  <2> QED BY <2>1, MergeType
<1>3. \A i \in 1..n : \A q \in V : op[i][q] = MergeCodex(q, names[i])
  OBVIOUS
<1> HIDE DEF n, V, b, op, iter
<1>4. PICK g \in [SUBSET (1..n) -> V] : IsLeftFold(g, n, V, b, op)
  BY ONLY <1>1, <1>2, LeftFoldExists
<1>5. g = MergingStep(t, names, g)
  <2>1. ASSUME NEW s \in SUBSET (1..n)
        PROVE  g[s] = IF s = {} THEN t
                      ELSE MergeCodex(g[s \ {Max(s)}], names[Max(s)])
    <3>1. CASE s = {}
      BY <1>4, <3>1 DEF b, IsLeftFold
    <3>2. CASE s # {}
      <4>1. Max(s) \in 1..n /\ s \ {Max(s)} \in SUBSET (1..n)
        BY <1>1, <3>2, GreatestOfSome
      <4>2. g[s] = op[Max(s)][g[s \ {Max(s)}]] /\ g[s \ {Max(s)}] \in V
        BY <1>4, <3>2, <4>1 DEF IsLeftFold
      <4> QED BY <1>3, <3>2, <4>1, <4>2
    <3> QED BY <3>1, <3>2
  <2>2. g = [s \in SUBSET (1..n) |-> g[s]]
    OBVIOUS
  <2> QED BY <1>1, <2>1, <2>2 DEF MergingStep
<1>6. iter = MergingStep(t, names, iter)
  BY <1>5 DEF iter
<1>7. \A s \in SUBSET (1..n) :
        iter[s] = IF s = {} THEN t
                  ELSE MergeCodex(iter[s \ {Max(s)}], names[Max(s)])
  <2>1. ASSUME NEW s \in SUBSET (1..n) PROVE iter[s] = MergingStep(t, names, iter)[s]
    BY <1>6
  <2> QED BY <1>1, <2>1 DEF MergingStep
<1>8. IsLeftFold(iter, n, V, b, op)
  <2>1. ASSUME NEW s \in SUBSET (1..n), s # {}, iter[s \ {Max(s)}] \in V
        PROVE  iter[s] = op[Max(s)][iter[s \ {Max(s)}]]
    <3>1. Max(s) \in 1..n
      BY <1>1, <2>1, GreatestOfSome
    <3> QED BY <1>3, <1>7, <2>1, <3>1
  <2> QED BY <1>7, <2>1 DEF b, IsLeftFold
<1>9. f = [i \in 0..n |-> iter[1..i]]
  OBVIOUS
<1>10. FoldLeft(MergeCodex, t, names) = f[n]
  <2>1. FoldLeft(MergeCodex, t, names) = iter[1..n] /\ n \in 0..n
    BY <1>1, MergingUnfolds DEF iter
  <2> QED BY <2>1
<1> HIDE DEF f
<1>11. IsChain(f, n, V, b, op)
  BY ONLY <1>1, <1>2, <1>8, <1>9, LeftFoldChain
<1>12. /\ f \in [0..n -> V] /\ f[0] = t
       /\ \A i \in 1..n : f[i] = MergeCodex(f[i - 1], names[i])
  <2>1. /\ f \in [0..n -> V] /\ f[0] = b /\ \A i \in 1..n : f[i] = op[i][f[i - 1]]
    BY <1>11 DEF IsChain
  <2>2. \A i \in 1..n : i - 1 \in 0..n
    BY <1>1
  <2> QED BY <1>3, <2>1, <2>2 DEF b
<1> QED BY <1>10, <1>12 DEF n, V, MergingTrace

-----------------------------------------------------------------------------
(* A block in the place of a span.                                         *)

\* Where the lines outside a span are after the block has taken its place.
Beside(t, b, e, i) == i \in DOMAIN t /\ (i < b \/ e < i)
Moved(b, e, i) == IF i < b THEN i ELSE (i - e) + (b + 3)
Splices(r, t, n, b, e) ==
  /\ \A i : Beside(t, b, e, i) =>
       /\ Moved(b, e, i) \in DOMAIN r /\ r[Moved(b, e, i)] = t[i]
       /\ i < b => Moved(b, e, i) < b
       /\ e < i => b + 3 < Moved(b, e, i)
  /\ \A i, j : Beside(t, b, e, i) /\ Beside(t, b, e, j) =>
       (i <= j <=> Moved(b, e, i) <= Moved(b, e, j))
  /\ \A k \in DOMAIN r : k \in b..(b + 3) \/ \E i : Beside(t, b, e, i) /\ Moved(b, e, i) = k
  /\ b..(b + 3) \subseteq DOMAIN r
  /\ r[b] = <<"begin", n>> /\ r[b + 1] = <<"table", n>>
  /\ r[b + 2] = <<"entry", n>> /\ r[b + 3] = <<"end", n>>

LEMMA SplicedMoves ==
  ASSUME NEW t \in Seq(Lines), NEW n \in Names, NEW b, NEW e, IsSpan(t, n, b, e)
  PROVE  Spliced(t, n, b, e) \in Seq(Lines) /\ Splices(Spliced(t, n, b, e), t, n, b, e)
<1>1. PICK l \in Nat : l = Len(t)
  OBVIOUS
<1>2. b \in Nat /\ e \in Nat /\ 1 <= b /\ b <= e + 1 /\ e <= Len(t) /\ e <= l
  BY <1>1, SpanType
<1>3. PICK r : r = Spliced(t, n, b, e)
  OBVIOUS
<1>4. /\ r \in Seq(Lines) /\ Len(r) = (b + 3) + (l - e)
      /\ \A i \in 1..(b - 1) : r[i] = t[i]
      /\ \A i \in 1..4 : r[(b - 1) + i] = Block(n)[i]
      /\ \A i \in 1..(l - e) : r[(b + 3) + i] = t[e + i]
  <2>1. /\ Spliced(t, n, b, e) \in Seq(Lines)
        /\ Len(Spliced(t, n, b, e)) = (b + 3) + (Len(t) - e)
        /\ \A i \in 1..(b - 1) : Spliced(t, n, b, e)[i] = t[i]
        /\ \A i \in 1..4 : Spliced(t, n, b, e)[(b - 1) + i] = Block(n)[i]
        /\ \A i \in 1..(Len(t) - e) : Spliced(t, n, b, e)[(b + 3) + i] = t[e + i]
    BY <1>2, SplicedPoints
  <2> QED BY <1>1, <1>3, <2>1
<1>5. DOMAIN t = 1..l /\ DOMAIN r = 1..((b + 3) + (l - e))
  BY <1>1, <1>4
<1>6. ASSUME NEW i, Beside(t, b, e, i)
      PROVE  /\ Moved(b, e, i) \in DOMAIN r /\ r[Moved(b, e, i)] = t[i]
             /\ i < b => Moved(b, e, i) < b
             /\ e < i => b + 3 < Moved(b, e, i)
  <2>1. CASE i < b
    BY <1>2, <1>4, <1>5, <1>6, <2>1 DEF Beside, Moved
  <2>2. CASE ~(i < b)
    <3>1. i - e \in 1..(l - e) /\ e + (i - e) = i /\ Moved(b, e, i) = (b + 3) + (i - e)
      BY <1>2, <1>5, <1>6, <2>2 DEF Beside, Moved
    <3>2. r[(b + 3) + (i - e)] = t[e + (i - e)]
      BY <1>4, <3>1
    <3> QED BY <1>2, <1>5, <1>6, <2>2, <3>1, <3>2 DEF Beside
  <2> QED BY <2>1, <2>2
<1>7. \A i, j : Beside(t, b, e, i) /\ Beside(t, b, e, j) =>
        (i <= j <=> Moved(b, e, i) <= Moved(b, e, j))
  BY <1>2, <1>5 DEF Beside, Moved
<1>8. ASSUME NEW k \in DOMAIN r, k \notin b..(b + 3)
      PROVE  \E i : Beside(t, b, e, i) /\ Moved(b, e, i) = k
  <2>1. k \in Nat /\ 1 <= k /\ k <= (b + 3) + (l - e)
    BY <1>2, <1>5
  <2>2. CASE k < b
    BY <1>2, <1>5, <2>1, <2>2 DEF Beside, Moved
  <2>3. CASE b + 3 < k
    <3>1. /\ (k - (b + 3)) + e \in DOMAIN t /\ e < (k - (b + 3)) + e
          /\ ~((k - (b + 3)) + e < b) /\ (((k - (b + 3)) + e) - e) + (b + 3) = k
      BY <1>2, <1>5, <2>1, <2>3
    <3> QED BY <3>1 DEF Beside, Moved
  <2> QED BY <1>2, <1>8, <2>1, <2>2, <2>3
<1>9. b..(b + 3) \subseteq DOMAIN r
  BY <1>2, <1>5
<1>10. /\ r[b] = <<"begin", n>> /\ r[b + 1] = <<"table", n>>
       /\ r[b + 2] = <<"entry", n>> /\ r[b + 3] = <<"end", n>>
  <2>1. /\ r[(b - 1) + 1] = Block(n)[1] /\ r[(b - 1) + 2] = Block(n)[2]
        /\ r[(b - 1) + 3] = Block(n)[3] /\ r[(b - 1) + 4] = Block(n)[4]
    BY <1>4
  <2>2. (b - 1) + 1 = b /\ (b - 1) + 2 = b + 1 /\ (b - 1) + 3 = b + 2 /\ (b - 1) + 4 = b + 3
    BY <1>2
  <2> QED BY <2>1, <2>2, BlockLines
<1>11. Splices(r, t, n, b, e)
  BY <1>6, <1>7, <1>8, <1>9, <1>10 DEF Splices
<1> QED BY <1>3, <1>4, <1>11

\* The pair of another name is before the span or after it.
LEMMA Apart ==
  ASSUME NEW t \in Seq(Lines), WellMarked(t), NEW n \in Names, NEW m \in Names, m # n,
         NEW b, NEW e, IsSpan(t, n, b, e), NEW c, NEW d, IsPair(t, m, c, d)
  PROVE  /\ Beside(t, b, e, c) /\ Beside(t, b, e, d) /\ c < d
         /\ d < b \/ e < c
<1>1. c \in 1..Len(t) /\ d \in 1..Len(t) /\ c < d /\ DOMAIN t = 1..Len(t)
  BY DEF IsPair
<1>2. CASE Unmarked(t, n) /\ b = Len(t) + 1 /\ e = Len(t)
  BY <1>1, <1>2 DEF Beside
<1>3. CASE IsPair(t, n, b, e)
  <2>1. b \in 1..Len(t) /\ e \in 1..Len(t) /\ b < e
    BY <1>3 DEF IsPair
  <2>2. /\ t[b] = <<"begin", n>> /\ t[e] = <<"end", n>>
        /\ t[c] = <<"begin", m>> /\ t[d] = <<"end", m>>
    BY <1>3 DEF IsPair
  <2>3. ASSUME b <= c, c <= e PROVE FALSE
    <3>1. Between(t, n, c) /\ c \in DOMAIN t /\ IsComment(t[c]) /\ t[c][2] = m
      BY <1>1, <2>1, <2>2, <2>3 DEF Between, IsComment
    <3> QED BY <3>1, WellMarkedIs
  <2>4. ASSUME b <= d, d <= e PROVE FALSE
    <3>1. Between(t, n, d) /\ d \in DOMAIN t /\ IsComment(t[d]) /\ t[d][2] = m
      BY <1>1, <2>1, <2>2, <2>4 DEF Between, IsComment
    <3> QED BY <3>1, WellMarkedIs
  <2>5. ASSUME c <= b, b <= d PROVE FALSE
    <3>1. Between(t, m, b) /\ b \in DOMAIN t /\ IsComment(t[b]) /\ t[b][2] = n
      BY <1>1, <2>1, <2>2, <2>5 DEF Between, IsComment
    <3> QED BY <3>1, WellMarkedIs
  <2> QED BY <1>1, <2>1, <2>3, <2>4, <2>5 DEF Beside
<1> QED BY <1>2, <1>3 DEF IsSpan

\* The pair moves with its lines.
LEMMA PairMoves ==
  ASSUME NEW t \in Seq(Lines), NEW r \in Seq(Lines), WellMarked(t),
         NEW n \in Names, NEW m \in Names, m # n,
         NEW b, NEW e, IsSpan(t, n, b, e), Splices(r, t, n, b, e),
         NEW c, NEW d, IsPair(t, m, c, d)
  PROVE  /\ IsPair(r, m, Moved(b, e, c), Moved(b, e, d))
         /\ \A i : Beside(t, b, e, i) =>
              (c <= i /\ i <= d <=>
                 Moved(b, e, c) <= Moved(b, e, i) /\ Moved(b, e, i) <= Moved(b, e, d))
         /\ \A k \in b..(b + 3) : ~(Moved(b, e, c) <= k /\ k <= Moved(b, e, d))
<1>1. Beside(t, b, e, c) /\ Beside(t, b, e, d) /\ c < d /\ (d < b \/ e < c)
  BY Apart
<1>2. b \in Nat /\ e \in Nat /\ 1 <= b /\ b <= e + 1 /\ e <= Len(t)
  BY SpanType
<1>3. c \in 1..Len(t) /\ d \in 1..Len(t) /\ DOMAIN r = 1..Len(r)
  BY DEF IsPair
<1>4. /\ Moved(b, e, c) \in DOMAIN r /\ r[Moved(b, e, c)] = <<"begin", m>>
      /\ Moved(b, e, d) \in DOMAIN r /\ r[Moved(b, e, d)] = <<"end", m>>
      /\ Moved(b, e, c) < Moved(b, e, d)
  <2>1. /\ Moved(b, e, c) \in DOMAIN r /\ r[Moved(b, e, c)] = t[c]
        /\ Moved(b, e, d) \in DOMAIN r /\ r[Moved(b, e, d)] = t[d]
        /\ d <= c <=> Moved(b, e, d) <= Moved(b, e, c)
    BY <1>1 DEF Splices
  <2> QED BY <1>1, <1>3, <2>1 DEF IsPair
<1>5. \A i : Beside(t, b, e, i) =>
        (c <= i /\ i <= d <=>
           Moved(b, e, c) <= Moved(b, e, i) /\ Moved(b, e, i) <= Moved(b, e, d))
  BY <1>1 DEF Splices
<1>6. \A k \in b..(b + 3) : ~(Moved(b, e, c) <= k /\ k <= Moved(b, e, d))
  <2>1. Moved(b, e, d) < b \/ b + 3 < Moved(b, e, c)
    BY <1>1 DEF Splices
  <2> QED BY <1>2, <1>3, <1>4, <2>1
<1>7. \A k \in b..(b + 3) : r[k] # <<"begin", m>> /\ r[k] # <<"end", m>>
  <2>1. \A k \in b..(b + 3) : k = b \/ k = b + 1 \/ k = b + 2 \/ k = b + 3
    BY <1>2
  <2> QED BY <2>1 DEF Splices
<1>8. ASSUME NEW k \in DOMAIN r
      PROVE  /\ r[k] = <<"begin", m>> => k = Moved(b, e, c)
             /\ r[k] = <<"end", m>> => k = Moved(b, e, d)
  <2>1. CASE k \in b..(b + 3)
    BY <1>7, <2>1
  <2>2. ASSUME NEW i, Beside(t, b, e, i), Moved(b, e, i) = k
        PROVE  /\ r[k] = <<"begin", m>> => k = Moved(b, e, c)
               /\ r[k] = <<"end", m>> => k = Moved(b, e, d)
    <3>1. r[k] = t[i] /\ i \in DOMAIN t
      BY <2>2 DEF Splices, Beside
    <3> QED BY <2>2, <3>1 DEF IsPair
  <2> QED BY <2>1, <2>2 DEF Splices
<1> QED BY <1>4, <1>5, <1>6, <1>8 DEF IsPair

\* The markers of the block are the pair of its name.
LEMMA OwnPair ==
  ASSUME NEW t \in Seq(Lines), NEW r \in Seq(Lines), NEW n \in Names,
         NEW b, NEW e, IsSpan(t, n, b, e), Splices(r, t, n, b, e)
  PROVE  IsPair(r, n, b, b + 3)
<1>1. b \in Nat /\ e \in Nat
  BY SpanType
<1>2. b \in DOMAIN r /\ b + 3 \in DOMAIN r /\ b < b + 3
  BY <1>1 DEF Splices
<1>3. ASSUME NEW k \in DOMAIN r
      PROVE  (r[k] = <<"begin", n>> => k = b) /\ (r[k] = <<"end", n>> => k = b + 3)
  <2>1. CASE k \in b..(b + 3)
    <3>1. k = b \/ k = b + 1 \/ k = b + 2 \/ k = b + 3
      BY <1>1, <2>1
    <3> QED BY <3>1 DEF Splices
  <2>2. ASSUME NEW i, Beside(t, b, e, i), Moved(b, e, i) = k
        PROVE  r[k] # <<"begin", n>> /\ r[k] # <<"end", n>>
    <3>1. r[k] = t[i]
      BY <2>2 DEF Splices
    <3>2. i \in DOMAIN t /\ i \in Nat /\ (i < b \/ e < i)
      BY <2>2 DEF Beside
    <3>3. CASE Unmarked(t, n)
      BY <3>1, <3>2, <3>3 DEF Unmarked
    <3>4. CASE IsPair(t, n, b, e)
      <4>1. i # b /\ i # e
        BY <1>1, <3>2, <3>4 DEF IsPair
      <4> QED BY <3>1, <3>2, <3>4, <4>1 DEF IsPair
    <3> QED BY <3>3, <3>4 DEF IsSpan
  <2> QED BY <2>1, <2>2 DEF Splices
<1> QED BY <1>2, <1>3 DEF IsPair, Splices

\* What is between markers stays between them.
LEMMA BetweenMoves ==
  ASSUME NEW t \in Seq(Lines), NEW r \in Seq(Lines), WellMarked(t),
         NEW n \in Names, NEW m \in Names,
         NEW b, NEW e, IsSpan(t, n, b, e), Splices(r, t, n, b, e),
         NEW i, Beside(t, b, e, i)
  PROVE  Between(t, m, i) <=> Between(r, m, Moved(b, e, i))
<1>1. b \in Nat /\ e \in Nat /\ i \in DOMAIN t /\ DOMAIN t = 1..Len(t)
  BY SpanType DEF Beside
<1>2. CASE m = n
  <2>1. ASSUME Between(t, n, i) PROVE FALSE
    <3>1. ~Unmarked(t, n)
      BY <2>1 DEF Between, Unmarked
    <3>2. IsPair(t, n, b, e)
      BY <3>1 DEF IsSpan
    <3>3. b <= i /\ i <= e
      BY <2>1, <3>2 DEF Between, IsPair
    <3> QED BY <1>1, <3>3 DEF Beside
  <2>2. IsPair(r, n, b, b + 3)
    BY OwnPair
  <2>3. Moved(b, e, i) < b \/ b + 3 < Moved(b, e, i)
    BY DEF Splices, Beside
  <2>4. Moved(b, e, i) \in Nat
    BY DEF Splices
  <2>5. ~Between(r, n, Moved(b, e, i))
    BY <1>1, <2>2, <2>3, <2>4 DEF Between, IsPair
  <2> QED BY <1>2, <2>1, <2>5
<1>3. CASE m # n
  <2>1. CASE Unmarked(t, m)
    <3>1. Unmarked(r, m)
      <4>1. ASSUME NEW k \in DOMAIN r PROVE r[k] # <<"begin", m>> /\ r[k] # <<"end", m>>
        <5>1. CASE k \in b..(b + 3)
          <6>1. k = b \/ k = b + 1 \/ k = b + 2 \/ k = b + 3
            BY <1>1, <5>1
          <6> QED BY <1>3, <6>1 DEF Splices
        <5>2. ASSUME NEW j, Beside(t, b, e, j), Moved(b, e, j) = k
              PROVE  r[k] # <<"begin", m>> /\ r[k] # <<"end", m>>
          BY <2>1, <5>2 DEF Splices, Beside, Unmarked
        <5> QED BY <5>1, <5>2 DEF Splices
      <4> QED BY <4>1 DEF Unmarked
    <3> QED BY <2>1, <3>1 DEF Unmarked, Between
  <2>2. ASSUME NEW c, NEW d, IsPair(t, m, c, d)
        PROVE  Between(t, m, i) <=> Between(r, m, Moved(b, e, i))
    <3>1. IsPair(r, m, Moved(b, e, c), Moved(b, e, d))
      BY <1>3, <2>2, PairMoves
    <3>2. c <= i /\ i <= d <=>
            Moved(b, e, c) <= Moved(b, e, i) /\ Moved(b, e, i) <= Moved(b, e, d)
      BY <1>3, <2>2, PairMoves
    <3>3. Between(t, m, i) <=> c <= i /\ i <= d
      BY <2>2 DEF Between, IsPair
    <3>4. Between(r, m, Moved(b, e, i)) <=>
            Moved(b, e, c) <= Moved(b, e, i) /\ Moved(b, e, i) <= Moved(b, e, d)
      BY <3>1 DEF Between, IsPair
    <3> QED BY <3>2, <3>3, <3>4
  <2> QED BY <2>1, <2>2, WellMarkedIs
<1> QED BY <1>2, <1>3

LEMMA SpliceIsWellMarked ==
  ASSUME NEW t \in Seq(Lines), NEW r \in Seq(Lines), WellMarked(t), NEW n \in Names,
         NEW b, NEW e, IsSpan(t, n, b, e), Splices(r, t, n, b, e)
  PROVE  WellMarked(r)
<1>1. b \in Nat /\ e \in Nat
  BY SpanType
<1>2. IsPair(r, n, b, b + 3)
  BY OwnPair
<1>3. ASSUME NEW m \in Names, m # n PROVE Unmarked(r, m) \/ \E c, d : IsPair(r, m, c, d)
  <2>1. CASE Unmarked(t, m)
    <3>1. ASSUME NEW k \in DOMAIN r PROVE r[k] # <<"begin", m>> /\ r[k] # <<"end", m>>
      <4>1. CASE k \in b..(b + 3)
        <5>1. k = b \/ k = b + 1 \/ k = b + 2 \/ k = b + 3
          BY <1>1, <4>1
        <5> QED BY <1>3, <5>1 DEF Splices
      <4>2. ASSUME NEW j, Beside(t, b, e, j), Moved(b, e, j) = k
            PROVE  r[k] # <<"begin", m>> /\ r[k] # <<"end", m>>
        BY <2>1, <4>2 DEF Splices, Beside, Unmarked
      <4> QED BY <4>1, <4>2 DEF Splices
    <3> QED BY <3>1 DEF Unmarked
  <2>2. ASSUME NEW c, NEW d, IsPair(t, m, c, d)
        PROVE  \E c2, d2 : IsPair(r, m, c2, d2)
    <3>1. IsPair(r, m, Moved(b, e, c), Moved(b, e, d))
      BY <1>3, <2>2, PairMoves
    <3> QED BY <3>1
  <2> QED BY <2>1, <2>2, WellMarkedIs
<1>4. \A m \in Names : Unmarked(r, m) \/ \E c, d : IsPair(r, m, c, d)
  BY <1>2, <1>3
<1>5. ASSUME NEW m \in Names, NEW k \in DOMAIN r, Between(r, m, k), IsComment(r[k])
      PROVE  r[k][2] \notin Names \ {m}
  <2>1. CASE k \in b..(b + 3)
    <3>1. k = b \/ k = b + 3
      <4>1. k = b \/ k = b + 1 \/ k = b + 2 \/ k = b + 3
        BY <1>1, <2>1
      <4> QED BY <1>5, <4>1 DEF Splices, IsComment
    <3>2. r[k][2] = n
      BY <3>1 DEF Splices
    <3>3. CASE m = n
      BY <3>2, <3>3
    <3>4. CASE m # n
      <4>1. PICK c, d : IsPair(t, m, c, d)
        <5>1. ASSUME Unmarked(t, m) PROVE FALSE
          <6>1. PICK j \in DOMAIN r : r[j] = <<"begin", m>>
            BY <1>5 DEF Between
          <6>2. j \notin b..(b + 3)
            <7>1. \A i \in b..(b + 3) : i = b \/ i = b + 1 \/ i = b + 2 \/ i = b + 3
              BY <1>1
            <7> QED BY <3>4, <6>1, <7>1 DEF Splices
          <6> QED BY <5>1, <6>1, <6>2 DEF Splices, Beside, Unmarked
        <5> QED BY <5>1, WellMarkedIs
      <4>2. /\ IsPair(r, m, Moved(b, e, c), Moved(b, e, d))
            /\ ~(Moved(b, e, c) <= k /\ k <= Moved(b, e, d))
        BY <2>1, <3>4, <4>1, PairMoves
      <4> QED BY <1>5, <4>2 DEF Between, IsPair
    <3> QED BY <3>3, <3>4
  <2>2. ASSUME NEW i, Beside(t, b, e, i), Moved(b, e, i) = k
        PROVE  r[k][2] \notin Names \ {m}
    <3>1. Between(t, m, i) /\ i \in DOMAIN t /\ r[k] = t[i]
      BY <1>5, <2>2, BetweenMoves DEF Splices, Beside
    <3> QED BY <1>5, <3>1, WellMarkedIs
  <2> QED BY <2>1, <2>2 DEF Splices
<1> QED BY <1>4, <1>5, WellMarkedIs

-----------------------------------------------------------------------------
(* What a block in its place keeps.                                        *)

\* The lines of the user that no managed block owns.
Mine(t, i) == t[i][2] = User /\ \A n \in ToSet(Managed) : ~Owns(t, n, i)
UserLines(t) == At(t, {i \in DOMAIN t : Mine(t, i)})

LEMMA MineMoves ==
  ASSUME NEW t \in Seq(Lines), NEW r \in Seq(Lines), WellMarked(t), NEW n \in Names,
         NEW b, NEW e, IsSpan(t, n, b, e), Splices(r, t, n, b, e),
         NEW i, Beside(t, b, e, i)
  PROVE  Mine(t, i) <=> Mine(r, Moved(b, e, i))
<1>1. /\ i \in DOMAIN t /\ Moved(b, e, i) \in DOMAIN r /\ r[Moved(b, e, i)] = t[i]
  BY DEF Beside, Splices
<1>2. WellMarked(r)
  BY SpliceIsWellMarked
<1>3. ASSUME NEW m \in ToSet(Managed) PROVE Owns(t, m, i) <=> Owns(r, m, Moved(b, e, i))
  <2>1. m \in Names
    BY DEF Names
  <2>2. Between(t, m, i) <=> Between(r, m, Moved(b, e, i))
    BY <2>1, BetweenMoves
  <2>3. Paired(t, m) /\ Paired(r, m)
    BY <1>2, <2>1 DEF WellMarked
  <2>4. Owns(t, m, i) <=> Between(t, m, i)
    BY <1>1, <2>3, OwnsIsBetween
  <2>5. Owns(r, m, Moved(b, e, i)) <=> Between(r, m, Moved(b, e, i))
    BY <1>1, <2>3, OwnsIsBetween
  <2> QED BY <2>2, <2>4, <2>5
<1> QED BY <1>1, <1>3 DEF Mine

LEMMA SpliceKeepsUserLines ==
  ASSUME NEW t \in Seq(Lines), WellMarked(t), NEW n \in ToSet(Managed),
         NEW b, NEW e, IsSpan(t, n, b, e)
  PROVE  UserLines(Spliced(t, n, b, e)) = UserLines(t)
<1>0. n \in Names
  BY DEF Names
<1>1. PICK r \in Seq(Lines) : r = Spliced(t, n, b, e) /\ Splices(r, t, n, b, e)
  BY <1>0, SplicedMoves
<1>2. PICK l \in Nat : l = Len(t)
  OBVIOUS
<1>3. b \in Nat /\ e \in Nat /\ 1 <= b /\ b <= e + 1 /\ e <= Len(t) /\ e <= l
  BY <1>2, SpanType
<1> DEFINE x == SubSeq(t, 1, b - 1)
           y == SubSeq(t, b, e)
           z == SubSeq(t, e + 1, Len(t))
           B == Block(n)
           I == {i \in DOMAIN t : Mine(t, i)}
           K == {i \in DOMAIN r : Mine(r, i)}
           J == {i \in 1..(l - e) : e + i \in I}
<1>4. /\ x \in Seq(Lines) /\ y \in Seq(Lines) /\ z \in Seq(Lines)
      /\ Len(x) = b - 1 /\ Len(y) = (e - b) + 1 /\ Len(z) = l - e
      /\ t = (x \o y) \o z
  <2>1. /\ x \in Seq(Lines) /\ y \in Seq(Lines) /\ z \in Seq(Lines)
        /\ Len(x) = b - 1 /\ Len(y) = (e - b) + 1 /\ Len(z) = Len(t) - e
        /\ t = (x \o y) \o z
    BY <1>3, SplitText
  <2> QED BY <1>2, <2>1
<1>5. B \in Seq(Lines) /\ Len(B) = 4
  BY <1>0, BlockLines
<1>6. r = (x \o B) \o z
  BY <1>1 DEF Spliced
<1>7. \A i : Beside(t, b, e, i) => (i \in I <=> Moved(b, e, i) \in K)
  <2>1. ASSUME NEW i, Beside(t, b, e, i) PROVE i \in I <=> Moved(b, e, i) \in K
    <3>1. Mine(t, i) <=> Mine(r, Moved(b, e, i))
      BY <1>0, <1>1, <2>1, MineMoves
    <3>2. i \in DOMAIN t /\ Moved(b, e, i) \in DOMAIN r
      BY <1>1, <2>1 DEF Beside, Splices
    <3> QED BY <3>1, <3>2
  <2> QED BY <2>1
<1>8. \A i \in b..e : i \notin I
  <2>1. ASSUME NEW i \in b..e PROVE i \notin I
    <3>1. IsPair(t, n, b, e)
      BY <1>3, <2>1 DEF IsSpan
    <3>2. i \in DOMAIN t
      BY <1>2, <1>3
    <3>3. Between(t, n, i)
      BY <1>3, <3>1 DEF Between, IsPair
    <3>4. Paired(t, n)
      BY <1>0 DEF WellMarked
    <3>5. Owns(t, n, i)
      BY <3>2, <3>3, <3>4, OwnsIsBetween
    <3> QED BY <3>5 DEF Mine
  <2> QED BY <2>1
<1>9. \A k \in b..(b + 3) : k \notin K
  <2>1. ASSUME NEW k \in b..(b + 3) PROVE k \notin K
    <3>1. k = b \/ k = b + 1 \/ k = b + 2 \/ k = b + 3
      BY <1>3
    <3>2. r[k][2] = n
      BY <1>1, <3>1 DEF Splices
    <3>3. n # User
      BY <1>0, MergeAssumption DEF MergeAssumption
    <3> QED BY <3>2, <3>3 DEF Mine
  <2> QED BY <2>1
<1>10. \A i \in 1..(b - 1) : i \in I <=> i \in K
  <2>1. ASSUME NEW i \in 1..(b - 1) PROVE Beside(t, b, e, i) /\ Moved(b, e, i) = i
    BY <1>2, <1>3 DEF Beside, Moved
  <2> QED BY <1>7, <2>1
<1>11. \A i \in 1..(l - e) : i \in J <=> (b + 3) + i \in K
  <2>1. ASSUME NEW i \in 1..(l - e) PROVE i \in J <=> (b + 3) + i \in K
    <3>1. Beside(t, b, e, e + i)
      BY <1>2, <1>3 DEF Beside
    <3>2. Moved(b, e, e + i) = (b + 3) + i
      BY <1>3 DEF Moved
    <3>3. e + i \in I <=> (b + 3) + i \in K
      BY <1>7, <3>1, <3>2
    <3> QED BY <3>3
  <2> QED BY <2>1
<1>12. \A i \in 1..(l - e) : i \in J <=> e + i \in I
  OBVIOUS
<1>13. UserLines(t) = At(t, I) /\ UserLines(r) = At(r, K)
  BY DEF UserLines
<1> HIDE DEF x, y, z, B, I, J, K
<1>14. Around(I, J, x, y, z)
  <2>1. ASSUME NEW i \in 1..Len(y) PROVE Len(x) + i \notin I
    <3>1. (b - 1) + i \in b..e
      BY <1>3, <1>4
    <3> QED BY <1>4, <1>8, <3>1
  <2>2. ASSUME NEW i \in 1..Len(z) PROVE i \in J <=> (Len(x) + Len(y)) + i \in I
    <3>1. (Len(x) + Len(y)) + i = e + i /\ i \in 1..(l - e)
      BY <1>2, <1>3, <1>4
    <3> QED BY <1>12, <3>1
  <2> QED BY <2>1, <2>2 DEF Around
<1>15. Around(K, J, x, B, z)
  <2>1. ASSUME NEW i \in 1..Len(B) PROVE Len(x) + i \notin K
    <3>1. (b - 1) + i \in b..(b + 3)
      BY <1>3, <1>5
    <3> QED BY <1>4, <1>9, <3>1
  <2>2. ASSUME NEW i \in 1..Len(z) PROVE i \in J <=> (Len(x) + Len(B)) + i \in K
    <3>1. (Len(x) + Len(B)) + i = (b + 3) + i /\ i \in 1..(l - e)
      BY <1>2, <1>3, <1>4, <1>5
    <3> QED BY <1>11, <3>1
  <2> QED BY <2>1, <2>2 DEF Around
<1>16. At(t, I) = At(x, I) \o At(z, J)
  <2>1. At((x \o y) \o z, I) = At(x, I) \o At(z, J)
    BY <1>4, <1>14, AtAround
  <2> QED BY <1>4, <2>1
<1>17. At(r, K) = At(x, K) \o At(z, J)
  <2>1. At((x \o B) \o z, K) = At(x, K) \o At(z, J)
    BY <1>4, <1>5, <1>15, AtAround
  <2> QED BY <1>6, <2>1
<1>18. At(x, I) = At(x, K)
  <2>1. \A i \in 1..Len(x) : i \in I <=> i \in K
    BY <1>4, <1>10
  <2> QED BY <1>4, <2>1, AtAgree
<1> QED BY <1>1, <1>13, <1>16, <1>17, <1>18

\* The block of a name is at h - 1, and its table has the managed entry and nothing else.
Settled(t, n, h) ==
  /\ h \in Nat /\ IsPair(t, n, h - 1, h + 2)
  /\ h \in DOMAIN t /\ t[h] = <<"table", n>>
  /\ h + 1 \in DOMAIN t /\ t[h + 1] = <<"entry", n>>
  /\ \A i \in DOMAIN t : t[i] # <<"child", n>>
  /\ \A i \in DOMAIN t : IsKey(t[i]) /\ Under(t, h, i) => t[i] = <<"entry", n>>

LEMMA Settling ==
  ASSUME NEW t \in Seq(Lines), NEW r \in Seq(Lines), NEW n \in Names,
         NEW b, NEW e, IsSpan(t, n, b, e), Splices(r, t, n, b, e),
         Valid(r), Resolves(r, n)
  PROVE  Settled(r, n, b + 1)
<1>1. b \in Nat /\ e \in Nat
  BY SpanType
<1>2. IsPair(r, n, b, b + 3)
  BY OwnPair
<1>3. /\ b + 1 \in DOMAIN r /\ r[b + 1] = <<"table", n>>
      /\ b + 2 \in DOMAIN r /\ r[b + 2] = <<"entry", n>>
  <2>1. b + 1 \in b..(b + 3) /\ b + 2 \in b..(b + 3)
    BY <1>1
  <2> QED BY <2>1 DEF Splices
<1>4. \A i \in DOMAIN r : r[i] # <<"child", n>>
  BY DEF Resolves
<1>5. PICK h \in DOMAIN r :
        /\ r[h] \in {<<"table", n>>, <<"quoted", n>>}
        /\ {r[i] : i \in {k \in DOMAIN r : IsKey(r[k]) /\ Section(r, k) = h}}
             = {<<"entry", n>>}
  BY DEF Resolves
<1>6. h = b + 1
  <2>1. /\ IsHeader(r[h]) /\ IsHeader(r[b + 1])
        /\ SameTable(r[h], r[b + 1]) /\ SameTable(r[b + 1], r[h])
    BY <1>3, <1>5 DEF IsHeader, SameTable
  <2>2. ~(h < b + 1) /\ ~(b + 1 < h)
    BY <1>3, <2>1 DEF Valid
  <2>3. h \in Nat
    OBVIOUS
  <2> QED BY <1>1, <2>2, <2>3
<1>7. ASSUME NEW i \in DOMAIN r, IsKey(r[i]), Under(r, b + 1, i) PROVE r[i] = <<"entry", n>>
  <2>1. Section(r, i) = b + 1
    BY <1>3, <1>7, SectionIsUnder DEF IsHeader
  <2>2. r[i] \in {r[j] : j \in {k \in DOMAIN r : IsKey(r[k]) /\ Section(r, k) = h}}
    BY <1>6, <1>7, <2>1
  <2> QED BY <1>5, <2>2
<1>8. b + 1 \in Nat /\ (b + 1) - 1 = b /\ (b + 1) + 2 = b + 3 /\ (b + 1) + 1 = b + 2
  BY <1>1
<1> QED BY <1>2, <1>3, <1>4, <1>7, <1>8 DEF Settled

LEMMA SettledResolves ==
  ASSUME NEW t \in Seq(Lines), NEW n, NEW h, Settled(t, n, h)
  PROVE  Resolves(t, n)
<1> DEFINE under == {k \in DOMAIN t : IsKey(t[k]) /\ Section(t, k) = h}
<1>1. /\ h \in Nat /\ h \in DOMAIN t /\ t[h] = <<"table", n>> /\ IsHeader(t[h])
      /\ h + 1 \in DOMAIN t /\ t[h + 1] = <<"entry", n>> /\ IsKey(t[h + 1])
      /\ ~IsHeader(t[h + 1])
  BY DEF Settled, IsHeader, IsKey
<1>2. ASSUME NEW i \in under PROVE t[i] = <<"entry", n>>
  <2>1. Under(t, h, i)
    BY <1>1, <1>2, SectionIsUnder
  <2> QED BY <1>2, <2>1 DEF Settled
<1>3. h + 1 \in under
  <2>1. Under(t, h, h + 1)
    <3>1. \A j \in (h + 1)..(h + 1) : j = h + 1
      BY <1>1
    <3> QED BY <1>1, <3>1 DEF Under
  <2>2. Section(t, h + 1) = h
    BY <1>1, <2>1, SectionIsUnder
  <2> QED BY <1>1, <2>2
<1>4. {t[i] : i \in under} = {<<"entry", n>>}
  BY <1>1, <1>2, <1>3
<1>5. \A i \in DOMAIN t : t[i] # <<"child", n>>
  BY DEF Settled
<1> QED BY <1>1, <1>4, <1>5 DEF Resolves

\* A line is under the same header wherever the block is put, unless it is put between.
LEMMA SettledMoves ==
  ASSUME NEW t \in Seq(Lines), NEW r \in Seq(Lines), WellMarked(t),
         NEW n \in Names, NEW m \in Names, m # n,
         NEW b, NEW e, IsSpan(t, n, b, e), Splices(r, t, n, b, e),
         NEW h, Settled(t, m, h)
  PROVE  Settled(r, m, Moved(b, e, h))
<1>1. b \in Nat /\ e \in Nat /\ 1 <= b /\ b <= e + 1 /\ e <= Len(t)
  BY SpanType
<1>2. h \in Nat /\ IsPair(t, m, h - 1, h + 2)
  BY DEF Settled
<1>3. /\ Beside(t, b, e, h - 1) /\ Beside(t, b, e, h + 2)
      /\ h + 2 < b \/ e < h - 1
  BY <1>2, Apart
<1>4. /\ Beside(t, b, e, h) /\ Beside(t, b, e, h + 1)
      /\ Moved(b, e, h - 1) = Moved(b, e, h) - 1
      /\ Moved(b, e, h + 1) = Moved(b, e, h) + 1
      /\ Moved(b, e, h + 2) = Moved(b, e, h) + 2
  BY <1>1, <1>2, <1>3 DEF Beside, Moved, Settled
<1>5. IsPair(r, m, Moved(b, e, h) - 1, Moved(b, e, h) + 2)
  <2>1. IsPair(r, m, Moved(b, e, h - 1), Moved(b, e, h + 2))
    BY <1>2, PairMoves
  <2> QED BY <1>4, <2>1
<1>6. /\ Moved(b, e, h) \in DOMAIN r /\ r[Moved(b, e, h)] = <<"table", m>>
      /\ Moved(b, e, h) + 1 \in DOMAIN r /\ r[Moved(b, e, h) + 1] = <<"entry", m>>
  <2>1. /\ Moved(b, e, h) \in DOMAIN r /\ r[Moved(b, e, h)] = t[h]
        /\ Moved(b, e, h + 1) \in DOMAIN r /\ r[Moved(b, e, h + 1)] = t[h + 1]
    BY <1>4 DEF Splices
  <2> QED BY <1>4, <2>1 DEF Settled
<1>7. ASSUME NEW k \in DOMAIN r
      PROVE  /\ r[k] # <<"child", m>>
             /\ IsKey(r[k]) /\ Under(r, Moved(b, e, h), k) => r[k] = <<"entry", m>>
  <2>0. k \in Nat /\ Moved(b, e, h) \in Nat
    BY <1>6
  <2>1. /\ b + 1 \in DOMAIN r /\ IsHeader(r[b + 1])
    <3>1. b + 1 \in b..(b + 3)
      BY <1>1
    <3> QED BY <3>1 DEF Splices, IsHeader
  <2>2. /\ h < b => Moved(b, e, h) < b
        /\ e < h => b + 3 < Moved(b, e, h)
    BY <1>4 DEF Splices
  <2>3. CASE k \in b..(b + 3)
    <3>1. k = b \/ k = b + 1 \/ k = b + 2 \/ k = b + 3
      BY <1>1, <2>3
    <3>2. r[k] # <<"child", m>>
      BY <3>1 DEF Splices
    <3>3. ASSUME IsKey(r[k]), Under(r, Moved(b, e, h), k) PROVE FALSE
      <4>1. k = b + 2
        BY <3>1, <3>3 DEF Splices, IsKey
      <4>2. Moved(b, e, h) <= k
        BY <3>3 DEF Under
      <4>3. Moved(b, e, h) < b
        BY <1>1, <1>2, <1>3, <2>0, <2>2, <4>1, <4>2
      <4>4. b + 1 \in (Moved(b, e, h) + 1)..k
        BY <1>1, <2>0, <4>1, <4>3
      <4> QED BY <2>1, <3>3, <4>4 DEF Under
    <3> QED BY <3>2, <3>3
  <2>4. ASSUME NEW i, Beside(t, b, e, i), Moved(b, e, i) = k
        PROVE  /\ r[k] # <<"child", m>>
               /\ IsKey(r[k]) /\ Under(r, Moved(b, e, h), k) => r[k] = <<"entry", m>>
    <3>1. i \in DOMAIN t /\ i \in Nat /\ r[k] = t[i]
      BY <2>4 DEF Splices, Beside
    <3>2. ASSUME IsKey(r[k]), Under(r, Moved(b, e, h), k) PROVE r[k] = <<"entry", m>>
      <4>1. h <= i
        BY <1>4, <2>4, <3>2 DEF Splices, Under
      <4>2. ~(h < b /\ e < i)
        <5>1. ASSUME h < b, e < i PROVE FALSE
          <6>1. Moved(b, e, h) < b /\ b + 3 < k
            BY <2>2, <2>4, <5>1 DEF Splices
          <6>2. b + 1 \in (Moved(b, e, h) + 1)..k
            BY <1>1, <2>0, <6>1
          <6> QED BY <2>1, <3>2, <6>2 DEF Under
        <5> QED BY <5>1
      <4>3. ASSUME NEW j \in (h + 1)..i PROVE ~IsHeader(t[j])
        <5>1. Beside(t, b, e, j)
          BY <1>1, <1>2, <1>3, <2>4, <3>1, <4>2 DEF Beside
        <5>2. Moved(b, e, j) \in (Moved(b, e, h) + 1)..k
          <6>1. /\ j <= i <=> Moved(b, e, j) <= Moved(b, e, i)
                /\ j <= h <=> Moved(b, e, j) <= Moved(b, e, h)
                /\ Moved(b, e, j) \in DOMAIN r
            BY <1>4, <2>4, <5>1 DEF Splices
          <6> QED BY <1>2, <2>0, <2>4, <3>1, <6>1
        <5>3. r[Moved(b, e, j)] = t[j]
          BY <5>1 DEF Splices
        <5> QED BY <3>2, <5>2, <5>3 DEF Under
      <4>4. Under(t, h, i)
        BY <4>1, <4>3 DEF Under
      <4> QED BY <3>1, <3>2, <4>4 DEF Settled
    <3> QED BY <3>1, <3>2 DEF Settled
  <2> QED BY <2>3, <2>4 DEF Splices
<1>8. Moved(b, e, h) \in Nat
  BY <1>6
<1> QED BY <1>5, <1>6, <1>7, <1>8 DEF Settled

\* A block in its place is put there again.
LEMMA SettledStays ==
  ASSUME NEW t \in Seq(Lines), NEW n \in Names, NEW h, Settled(t, n, h), Valid(t)
  PROVE  MergeCodex(t, n) = t
<1>1. h \in Nat /\ IsPair(t, n, h - 1, h + 2)
  BY DEF Settled
<1>2. /\ h - 1 \in 1..Len(t) /\ h + 2 \in 1..Len(t)
      /\ h - 1 \in Nat /\ h + 2 \in Nat /\ 1 <= h - 1 /\ h - 1 <= (h + 2) + 1 /\ h + 2 <= Len(t)
  BY <1>1 DEF IsPair
<1>3. BeginOf(t, n) = h - 1 /\ EndOf(t, n) = h + 2
  BY <1>1, FirstIsOnly DEF BeginOf, EndOf, IsPair
<1> DEFINE x == SubSeq(t, 1, (h - 1) - 1)
           y == SubSeq(t, h - 1, h + 2)
           z == SubSeq(t, (h + 2) + 1, Len(t))
<1>4. /\ x \in Seq(Lines) /\ y \in Seq(Lines) /\ z \in Seq(Lines)
      /\ t = (x \o y) \o z
  BY <1>2, SplitText
<1>5. y = Block(n)
  <2>1. /\ y \in Seq(Lines) /\ Len(y) = 4
        /\ \A i \in 1..4 : y[i] = t[((h - 1) + i) - 1]
    <3>1. \A i \in (h - 1)..(h + 2) : t[i] \in Lines
      BY <1>2
    <3>2. /\ Len(y) = IF h - 1 <= h + 2 THEN ((h + 2) - (h - 1)) + 1 ELSE 0
          /\ \A i \in 1..(((h + 2) - (h - 1)) + 1) : y[i] = t[((h - 1) + i) - 1]
      BY <1>2, <3>1, SubSeqProperties
    <3>3. ((h + 2) - (h - 1)) + 1 = 4 /\ h - 1 <= h + 2
      BY <1>1
    <3> QED BY <1>4, <3>2, <3>3
  <2>2. /\ ((h - 1) + 1) - 1 = h - 1 /\ ((h - 1) + 2) - 1 = h
        /\ ((h - 1) + 3) - 1 = h + 1 /\ ((h - 1) + 4) - 1 = h + 2
    BY <1>1
  <2>3. /\ y[1] = <<"begin", n>> /\ y[2] = <<"table", n>>
        /\ y[3] = <<"entry", n>> /\ y[4] = <<"end", n>>
    <3>1. y[1] = t[h - 1] /\ y[2] = t[h] /\ y[3] = t[h + 1] /\ y[4] = t[h + 2]
      BY <2>1, <2>2
    <3> QED BY <1>1, <3>1 DEF Settled, IsPair
  <2>4. \A i \in 1..4 : y[i] = Block(n)[i]
    <3>1. \A i \in 1..4 : i = 1 \/ i = 2 \/ i = 3 \/ i = 4
      OBVIOUS
    <3> QED BY <2>3, <3>1, BlockLines
  <2>5. Block(n) \in Seq(Lines) /\ Len(Block(n)) = 4
    BY BlockLines
  <2> HIDE DEF y
  <2> QED BY <2>1, <2>4, <2>5, SeqEqual
<1>6. ASSUME NEW i \in DOMAIN Without(t, h - 1, h + 2)
      PROVE  Without(t, h - 1, h + 2)[i] # <<"child", n>>
  <2> DEFINE w == Without(t, h - 1, h + 2)
             I == {j \in DOMAIN t : ~(h - 1 <= j /\ j <= h + 2)}
  <2>1. w = At(t, I)
    BY <1>2, WithoutIsAt
  <2>2. PICK at : Enumerates(at, w, t, I)
    BY <2>1, AtEnumerates
  <2>3. w \in Seq(Lines)
    BY <2>1, AtType
  <2>4. DOMAIN w = 1..Len(w) /\ DOMAIN t = 1..Len(t)
    BY <2>3
  <2> HIDE DEF w, I
  <2>5. \A k \in DOMAIN w : at[k] \in DOMAIN t /\ w[k] = t[at[k]]
    BY <2>2, <2>4 DEF Enumerates
  <2>6. \A k \in DOMAIN w : w[k] # <<"child", n>>
    BY <2>5 DEF Settled
  <2> QED BY <1>6, <2>6 DEF w
<1>7. Placed(t, n) = SubSeq(t, 1, (h - 1) - 1) \o Block(n) \o SubSeq(t, (h + 2) + 1, Len(t))
  <2>1. h - 1 > 0 /\ h + 2 > h - 1
    BY <1>1, <1>2
  <2> QED BY <1>3, <1>6, <2>1 DEF Placed
<1>8. Placed(t, n) = t
  BY <1>4, <1>5, <1>7
<1>9. Resolves(t, n)
  BY SettledResolves
<1> QED BY <1>8, <1>9, RefusedIsNoText DEF MergeCodex

-----------------------------------------------------------------------------
(* The removals and the merges of all names.                               *)

\* Neither marked nor declared.
Absent(t, n) == Unmarked(t, n) /\ ~Declares(t, n)
IsSettled(t, n) == \E h : Settled(t, n, h)

LEMMA NamesOfLists ==
  /\ Managed \in Seq(Names) /\ Legacy \in Seq(Names)
  /\ \A n : n \in ToSet(Managed) <=> \E i \in 1..Len(Managed) : n = Managed[i]
  /\ \A n : n \in ToSet(Legacy) <=> \E i \in 1..Len(Legacy) : n = Legacy[i]
<1>1. Managed \in Seq(ToSet(Managed)) /\ Legacy \in Seq(ToSet(Legacy))
  BY MergeAssumption DEF MergeAssumption
<1>2. ToSet(Managed) \subseteq Names /\ ToSet(Legacy) \subseteq Names
  BY DEF Names
<1>3. Managed \in Seq(Names) /\ Legacy \in Seq(Names)
  BY <1>1, <1>2
<1>4. DOMAIN Managed = 1..Len(Managed) /\ DOMAIN Legacy = 1..Len(Legacy)
  BY <1>3
<1> QED BY <1>3, <1>4 DEF ToSet

LEMMA PartIsAbsent ==
  ASSUME NEW t, NEW r, NEW n, Absent(t, n), \A k \in DOMAIN r : \E i \in DOMAIN t : r[k] = t[i]
  PROVE  Absent(r, n)
BY DEF Absent, Unmarked, Declares

\* What a merge leaves.
LEMMA MergeStep ==
  ASSUME NEW t \in Seq(Lines), WellMarked(t), NEW n \in ToSet(Managed),
         NEW r, r = MergeCodex(t, n), r # RefusedText
  PROVE  /\ r \in Seq(Lines) /\ WellMarked(r) /\ Valid(r)
         /\ UserLines(r) = UserLines(t)
         /\ IsSettled(r, n)
         /\ \A m \in Names : m # n => /\ Absent(t, m) => Absent(r, m)
                                      /\ IsSettled(t, m) => IsSettled(r, m)
<1>0. n \in Names
  BY DEF Names
<1>1. r = Placed(t, n) /\ Valid(r) /\ Resolves(r, n)
  BY RefusedIsNoText DEF MergeCodex
<1>2. PICK b, e : IsSpan(t, n, b, e)
  <2>1. Unmarked(t, n) \/ \E b, e : IsPair(t, n, b, e)
    BY <1>0, WellMarkedIs
  <2>2. Unmarked(t, n) => IsSpan(t, n, Len(t) + 1, Len(t))
    BY DEF IsSpan
  <2>3. \A b, e : IsPair(t, n, b, e) => IsSpan(t, n, b, e)
    BY DEF IsSpan
  <2> QED BY <2>1, <2>2, <2>3
<1>3. r = Spliced(t, n, b, e)
  BY <1>0, <1>1, <1>2, PlacedIsSpliced
<1>4. r \in Seq(Lines) /\ Splices(r, t, n, b, e)
  BY <1>0, <1>2, <1>3, SplicedMoves
<1>5. WellMarked(r)
  BY <1>0, <1>2, <1>4, SpliceIsWellMarked
<1>6. UserLines(r) = UserLines(t)
  BY <1>2, <1>3, SpliceKeepsUserLines
<1>7. IsSettled(r, n)
  <2>1. Settled(r, n, b + 1)
    BY <1>0, <1>1, <1>2, <1>4, Settling
  <2> QED BY <2>1 DEF IsSettled
<1>8. ASSUME NEW m \in Names, m # n, Absent(t, m) PROVE Absent(r, m)
  <2>1. ASSUME NEW k \in DOMAIN r
        PROVE  /\ r[k] # <<"begin", m>> /\ r[k] # <<"end", m>>
               /\ ~(IsHeader(r[k]) /\ r[k][2] = m)
    <3>1. CASE k \in b..(b + 3)
      <4>1. b \in Nat
        BY <1>2, SpanType
      <4>2. k = b \/ k = b + 1 \/ k = b + 2 \/ k = b + 3
        BY <3>1, <4>1
      <4> QED BY <1>4, <1>8, <4>2 DEF Splices
    <3>2. ASSUME NEW i, Beside(t, b, e, i), Moved(b, e, i) = k
          PROVE  i \in DOMAIN t /\ r[k] = t[i]
      BY <1>4, <3>2 DEF Splices, Beside
    <3>3. ASSUME NEW i \in DOMAIN t, r[k] = t[i]
          PROVE  /\ r[k] # <<"begin", m>> /\ r[k] # <<"end", m>>
                 /\ ~(IsHeader(r[k]) /\ r[k][2] = m)
      BY <1>8, <3>3 DEF Absent, Unmarked, Declares
    <3> QED BY <1>4, <3>1, <3>2, <3>3 DEF Splices
  <2> QED BY <2>1 DEF Absent, Unmarked, Declares
<1>9. ASSUME NEW m \in Names, m # n, IsSettled(t, m) PROVE IsSettled(r, m)
  <2>1. PICK h : Settled(t, m, h)
    BY <1>9 DEF IsSettled
  <2>2. Settled(r, m, Moved(b, e, h))
    BY <1>0, <1>2, <1>4, <1>9, <2>1, SettledMoves
  <2> QED BY <2>2 DEF IsSettled
<1> QED BY <1>1, <1>4, <1>5, <1>6, <1>7, <1>8, <1>9

\* What the removals leave, if none is refused.
Migrated(f, d, i) ==
  /\ f[i] = d[i] /\ d[i] \in Seq(Lines) /\ WellMarked(d[i])
  /\ \A j \in 1..i : Absent(d[i], Legacy[j])
  /\ i > 0 => Valid(d[i])

LEMMA MigrationsDisown ==
  ASSUME NEW t \in Seq(Lines), WellMarked(t), FoldLeft(Migrate, t, Legacy) # RefusedText
  PROVE  LET m == FoldLeft(Migrate, t, Legacy)
         IN  /\ m \in Seq(Lines) /\ WellMarked(m) /\ m = FoldLeft(Disowned, t, Legacy)
             /\ \A n \in ToSet(Legacy) : Absent(m, n)
             /\ Legacy = <<>> \/ Valid(m)
<1>1. PICK l \in Nat : l = Len(Legacy)
  BY NamesOfLists
<1>2. \A i \in 1..l : Legacy[i] \in Names
  BY <1>1, NamesOfLists
<1>3. t \in Rendered
  BY DEF Rendered
<1>4. PICK f : MigrationTrace(f, t, Legacy)
  BY <1>3, NamesOfLists, MigrationChain
<1>5. PICK d : DisowningTrace(d, t, Legacy)
  BY NamesOfLists, DisowningChain
<1> DEFINE P == {i \in 0..l : f[i] = RefusedText \/ Migrated(f, d, i)}
<1>6. 0 \in P
  <2>1. f[0] = t /\ d[0] = t /\ 0 \in 0..l /\ ~(0 > 0) /\ 1..0 = {}
    BY <1>4, <1>5 DEF MigrationTrace, DisowningTrace
  <2>2. Migrated(f, d, 0)
    BY <2>1 DEF Migrated
  <2> QED BY <2>1, <2>2
<1>7. ASSUME NEW i \in 0..l, i < l, i \in P PROVE i + 1 \in P
  <2>1. i + 1 \in 1..l /\ (i + 1) - 1 = i /\ i + 1 \in 0..l
    BY <1>7
  <2>2. /\ f[i + 1] = Migrate(f[i], Legacy[i + 1])
        /\ d[i + 1] = Disowned(d[i], Legacy[i + 1])
    BY <1>1, <1>4, <1>5, <2>1 DEF MigrationTrace, DisowningTrace
  <2>3. CASE f[i] = RefusedText
    <3>1. f[i + 1] = RefusedText
      BY <2>2, <2>3 DEF Migrate, RemoveCodexTable
    <3> QED BY <2>1, <3>1
  <2>4. CASE Migrated(f, d, i) /\ f[i + 1] # RefusedText
    <3> DEFINE n == Legacy[i + 1]
    <3>1. n \in Names /\ d[i] \in Seq(Lines) /\ WellMarked(d[i]) /\ f[i] = d[i]
      BY <1>2, <2>1, <2>4 DEF Migrated
    <3> HIDE DEF n
    <3>2. RemoveCodexTable(d[i], n) = Disowned(d[i], n)
      BY <3>1, RemovedIsDisowned
    <3>3. d[i + 1] = Disowned(d[i], n) /\ f[i + 1] = Migrate(d[i], n)
      BY <2>2, <3>1 DEF n
    <3>4. f[i + 1] = d[i + 1] /\ Valid(d[i + 1]) /\ ~Declares(d[i + 1], n)
      BY <2>4, <3>2, <3>3 DEF Migrate
    <3>5. /\ d[i + 1] \in Seq(Lines) /\ WellMarked(d[i + 1]) /\ Unmarked(d[i + 1], n)
          /\ \A k \in DOMAIN d[i + 1] : \E j \in DOMAIN d[i] : d[i + 1][k] = d[i][j]
      BY <3>1, <3>3, DisownedPart
    <3>6. ASSUME NEW j \in 1..(i + 1) PROVE Absent(d[i + 1], Legacy[j])
      <4>1. CASE j = i + 1
        BY <3>4, <3>5, <4>1 DEF Absent, n
      <4>2. CASE j \in 1..i
        <5>1. Absent(d[i], Legacy[j])
          BY <2>4, <4>2 DEF Migrated
        <5> QED BY <3>5, <5>1, PartIsAbsent
      <4> QED BY <4>1, <4>2
    <3>7. Migrated(f, d, i + 1)
      BY <3>4, <3>5, <3>6 DEF Migrated
    <3> QED BY <2>1, <3>7
  <2> QED BY <1>7, <2>1, <2>3, <2>4
<1>8. 0..l \subseteq P
  BY <1>6, <1>7, UpToInduction
<1>9. /\ l \in P /\ FoldLeft(Migrate, t, Legacy) = f[l]
      /\ FoldLeft(Disowned, t, Legacy) = d[l]
  <2>1. l \in 0..l
    OBVIOUS
  <2>2. l \in P
    BY ONLY <1>8, <2>1
  <2> QED BY <1>1, <1>4, <1>5, <2>2 DEF MigrationTrace, DisowningTrace
<1>10. Migrated(f, d, l)
  BY <1>9
<1>11. Legacy = <<>> \/ l > 0
  BY <1>1, NamesOfLists, EmptySeq
<1> QED BY <1>1, <1>9, <1>10, <1>11, NamesOfLists DEF Migrated

\* What the merges leave, if none is refused.
Merged(g, t, i) ==
  /\ g[i] \in Seq(Lines) /\ WellMarked(g[i]) /\ UserLines(g[i]) = UserLines(t)
  /\ \A n \in ToSet(Legacy) : Absent(g[i], n)
  /\ \A j \in 1..i : IsSettled(g[i], Managed[j])
  /\ i > 0 => Valid(g[i])

LEMMA MergesSettle ==
  ASSUME NEW t \in Seq(Lines), WellMarked(t), \A n \in ToSet(Legacy) : Absent(t, n),
         FoldLeft(MergeCodex, t, Managed) # RefusedText
  PROVE  LET m == FoldLeft(MergeCodex, t, Managed)
         IN  /\ m \in Seq(Lines) /\ WellMarked(m) /\ UserLines(m) = UserLines(t)
             /\ \A n \in ToSet(Legacy) : Absent(m, n)
             /\ \A n \in ToSet(Managed) : IsSettled(m, n)
             /\ (Managed = <<>> /\ m = t) \/ Valid(m)
<1>1. PICK l \in Nat : l = Len(Managed)
  BY NamesOfLists
<1>2. \A i \in 1..l : Managed[i] \in ToSet(Managed)
  BY <1>1, NamesOfLists
<1>3. t \in Rendered
  BY DEF Rendered
<1>4. PICK g : MergingTrace(g, t, Managed)
  BY <1>3, NamesOfLists, MergingChain
<1> DEFINE P == {i \in 0..l : g[i] = RefusedText \/ Merged(g, t, i)}
<1>6. 0 \in P
  <2>1. g[0] = t /\ 0 \in 0..l /\ ~(0 > 0) /\ 1..0 = {}
    BY <1>4 DEF MergingTrace
  <2>2. Merged(g, t, 0)
    BY <2>1 DEF Merged
  <2> QED BY <2>1, <2>2
<1>7. ASSUME NEW i \in 0..l, i < l, i \in P PROVE i + 1 \in P
  <2>1. i + 1 \in 1..l /\ (i + 1) - 1 = i /\ i + 1 \in 0..l
    BY <1>7
  <2>2. g[i + 1] = MergeCodex(g[i], Managed[i + 1])
    BY <1>1, <1>4, <2>1 DEF MergingTrace
  <2>3. CASE g[i] = RefusedText
    <3>1. g[i + 1] = RefusedText
      BY <2>2, <2>3 DEF MergeCodex
    <3> QED BY <2>1, <3>1
  <2>4. CASE Merged(g, t, i) /\ g[i + 1] # RefusedText
    <3> DEFINE n == Managed[i + 1]
    <3>1. n \in ToSet(Managed) /\ g[i] \in Seq(Lines) /\ WellMarked(g[i])
      BY <1>2, <2>1, <2>4 DEF Merged
    <3>2. g[i + 1] = MergeCodex(g[i], n)
      BY <2>2
    <3> HIDE DEF n
    <3>3. /\ g[i + 1] \in Seq(Lines) /\ WellMarked(g[i + 1]) /\ Valid(g[i + 1])
          /\ UserLines(g[i + 1]) = UserLines(g[i])
          /\ IsSettled(g[i + 1], n)
          /\ \A m \in Names : m # n => /\ Absent(g[i], m) => Absent(g[i + 1], m)
                                       /\ IsSettled(g[i], m) => IsSettled(g[i + 1], m)
      BY <2>4, <3>1, <3>2, MergeStep
    <3>4. ASSUME NEW m \in ToSet(Legacy) PROVE Absent(g[i + 1], m)
      <4>1. m \in Names /\ m # n
        BY <3>1, MergeAssumption DEF MergeAssumption, Names
      <4> QED BY <2>4, <3>3, <4>1 DEF Merged
    <3>5. ASSUME NEW j \in 1..(i + 1) PROVE IsSettled(g[i + 1], Managed[j])
      <4>1. CASE Managed[j] = n
        BY <3>3, <4>1
      <4>2. CASE Managed[j] # n
        <5>1. j # i + 1
          BY <4>2 DEF n
        <5>2. j \in 1..i /\ j \in 1..l
          BY <1>7, <5>1
        <5>3. IsSettled(g[i], Managed[j]) /\ Managed[j] \in Names
          BY <1>2, <2>4, <5>2 DEF Merged, Names
        <5> QED BY <3>3, <4>2, <5>3
      <4> QED BY <4>1, <4>2
    <3>6. Merged(g, t, i + 1)
      BY <2>4, <3>3, <3>4, <3>5 DEF Merged
    <3> QED BY <2>1, <3>6
  <2> QED BY <1>7, <2>1, <2>3, <2>4
<1>8. 0..l \subseteq P
  BY <1>6, <1>7, UpToInduction
<1>9. l \in P /\ FoldLeft(MergeCodex, t, Managed) = g[l]
  <2>1. l \in 0..l
    OBVIOUS
  <2>2. l \in P
    BY ONLY <1>8, <2>1
  <2> QED BY <1>1, <1>4, <2>2 DEF MergingTrace
<1>10. Merged(g, t, l)
  BY <1>9
<1>11. (Managed = <<>> /\ g[l] = t) \/ l > 0
  <2>1. CASE l = 0
    BY <1>1, <1>4, <2>1, NamesOfLists, EmptySeq DEF MergingTrace
  <2> QED BY <2>1
<1> QED BY <1>1, <1>9, <1>10, <1>11, NamesOfLists DEF Merged

-----------------------------------------------------------------------------
(* What a setup makes of the documents of the hosts.                       *)

\* A removal finds nothing more to remove.
LEMMA MigrateNothing ==
  ASSUME NEW t \in Seq(Lines), WellMarked(t), Valid(t), NEW n \in Names, Absent(t, n)
  PROVE  Migrate(t, n) = t /\ Disowned(t, n) = t
<1>1. Disowned(t, n) = t
  BY NothingDisowned DEF Absent
<1>2. RemoveCodexTable(t, n) = t
  BY <1>1, RemovedIsDisowned
<1> QED BY <1>1, <1>2, RefusedIsNoText DEF Migrate, Absent

LEMMA DisowningNothing ==
  ASSUME NEW t \in Seq(Lines), WellMarked(t), \A n \in ToSet(Legacy) : Absent(t, n)
  PROVE  FoldLeft(Disowned, t, Legacy) = t
<1>1. PICK l \in Nat : l = Len(Legacy)
  BY NamesOfLists
<1>2. \A i \in 1..l : Legacy[i] \in Names /\ Absent(t, Legacy[i])
  BY <1>1, NamesOfLists
<1>3. PICK d : DisowningTrace(d, t, Legacy)
  BY NamesOfLists, DisowningChain
<1> DEFINE P == {i \in 0..l : d[i] = t}
<1>4. 0 \in P
  BY <1>3 DEF DisowningTrace
<1>5. ASSUME NEW i \in 0..l, i < l, i \in P PROVE i + 1 \in P
  <2>1. i + 1 \in 1..l /\ (i + 1) - 1 = i /\ i + 1 \in 0..l
    BY <1>5
  <2>2. d[i + 1] = Disowned(t, Legacy[i + 1])
    BY <1>1, <1>3, <1>5, <2>1 DEF DisowningTrace
  <2>3. Disowned(t, Legacy[i + 1]) = t
    BY <1>2, <2>1, NothingDisowned DEF Absent
  <2> QED BY <2>1, <2>2, <2>3
<1>6. 0..l \subseteq P
  BY <1>4, <1>5, UpToInduction
<1>7. l \in 0..l
  OBVIOUS
<1> QED BY <1>1, <1>3, <1>6, <1>7 DEF DisowningTrace

LEMMA MigratingNothing ==
  ASSUME NEW t \in Seq(Lines), WellMarked(t), \A n \in ToSet(Legacy) : Absent(t, n),
         Legacy = <<>> \/ Valid(t)
  PROVE  FoldLeft(Migrate, t, Legacy) = t
<1>1. PICK l \in Nat : l = Len(Legacy)
  BY NamesOfLists
<1>2. \A i \in 1..l : Legacy[i] \in Names /\ Absent(t, Legacy[i])
  BY <1>1, NamesOfLists
<1>3. PICK f : MigrationTrace(f, t, Legacy)
  <2>1. t \in Rendered
    BY DEF Rendered
  <2> QED BY <2>1, NamesOfLists, MigrationChain
<1> DEFINE P == {i \in 0..l : f[i] = t}
<1>4. 0 \in P
  BY <1>3 DEF MigrationTrace
<1>5. ASSUME NEW i \in 0..l, i < l, i \in P PROVE i + 1 \in P
  <2>1. i + 1 \in 1..l /\ (i + 1) - 1 = i /\ i + 1 \in 0..l
    BY <1>5
  <2>2. f[i + 1] = Migrate(t, Legacy[i + 1])
    BY <1>1, <1>3, <1>5, <2>1 DEF MigrationTrace
  <2>3. Legacy # <<>>
    BY <1>1, <1>5, EmptySeq
  <2>4. Migrate(t, Legacy[i + 1]) = t
    BY <1>2, <2>1, <2>3, MigrateNothing
  <2> QED BY <2>1, <2>2, <2>4
<1>6. 0..l \subseteq P
  BY <1>4, <1>5, UpToInduction
<1>7. l \in 0..l
  OBVIOUS
<1> QED BY <1>1, <1>3, <1>6, <1>7 DEF MigrationTrace

LEMMA MergingAgain ==
  ASSUME NEW t \in Seq(Lines), \A n \in ToSet(Managed) : IsSettled(t, n),
         Managed = <<>> \/ Valid(t)
  PROVE  FoldLeft(MergeCodex, t, Managed) = t
<1>1. PICK l \in Nat : l = Len(Managed)
  BY NamesOfLists
<1>2. \A i \in 1..l : Managed[i] \in Names /\ IsSettled(t, Managed[i])
  BY <1>1, NamesOfLists DEF Names
<1>3. PICK g : MergingTrace(g, t, Managed)
  <2>1. t \in Rendered
    BY DEF Rendered
  <2> QED BY <2>1, NamesOfLists, MergingChain
<1> DEFINE P == {i \in 0..l : g[i] = t}
<1>4. 0 \in P
  BY <1>3 DEF MergingTrace
<1>5. ASSUME NEW i \in 0..l, i < l, i \in P PROVE i + 1 \in P
  <2>1. i + 1 \in 1..l /\ (i + 1) - 1 = i /\ i + 1 \in 0..l
    BY <1>5
  <2>2. g[i + 1] = MergeCodex(t, Managed[i + 1])
    BY <1>1, <1>3, <1>5, <2>1 DEF MergingTrace
  <2>3. Managed # <<>>
    BY <1>1, <1>5, EmptySeq
  <2>4. PICK h : Settled(t, Managed[i + 1], h)
    BY <1>2, <2>1 DEF IsSettled
  <2>5. MergeCodex(t, Managed[i + 1]) = t
    BY <1>2, <2>1, <2>3, <2>4, SettledStays
  <2> QED BY <2>1, <2>2, <2>5
<1>6. 0..l \subseteq P
  BY <1>4, <1>5, UpToInduction
<1>7. l \in 0..l
  OBVIOUS
<1> QED BY <1>1, <1>3, <1>6, <1>7 DEF MergingTrace

\* What a setup makes of a text.
LEMMA RenderingIsFaithful ==
  ASSUME NEW t \in Seq(Lines), WellMarked(t), RenderCodex(t) # RefusedText
  PROVE  /\ \A n \in ToSet(Managed) : Resolves(RenderCodex(t), n)
         /\ \A n \in ToSet(Legacy) : ~Declares(RenderCodex(t), n)
         /\ RenderCodex(RenderCodex(t)) = RenderCodex(t)
         /\ Kept(RenderCodex(t)) = Kept(t)
<1> DEFINE m == FoldLeft(Migrate, t, Legacy)
           r == FoldLeft(MergeCodex, m, Managed)
<1>1. r = RenderCodex(t)
  BY DEF RenderCodex
<1>2. m # RefusedText
  <2>1. SUFFICES ASSUME m = RefusedText PROVE r = RefusedText
    BY <1>1
  <2>2. PICK l \in Nat : l = Len(Managed)
    BY NamesOfLists
  <2>3. PICK g : MergingTrace(g, m, Managed)
    <3>1. m \in Rendered
      BY <2>1 DEF Rendered
    <3> HIDE DEF m
    <3> QED BY <3>1, NamesOfLists, MergingChain
  <2> DEFINE P == {i \in 0..l : g[i] = RefusedText}
  <2>4. 0 \in P
    <3> HIDE DEF m
    <3> QED BY <2>1, <2>3 DEF MergingTrace
  <2>5. ASSUME NEW i \in 0..l, i < l, i \in P PROVE i + 1 \in P
    <3>1. i + 1 \in 1..l /\ (i + 1) - 1 = i /\ i + 1 \in 0..l
      BY <2>5
    <3>2. g[i + 1] = MergeCodex(RefusedText, Managed[i + 1])
      <4> HIDE DEF m
      <4> QED BY <2>2, <2>3, <2>5, <3>1 DEF MergingTrace
    <3> QED BY <3>1, <3>2 DEF MergeCodex
  <2>6. 0..l \subseteq P
    BY <2>4, <2>5, UpToInduction
  <2>7. l \in 0..l
    OBVIOUS
  <2> HIDE DEF m
  <2> QED BY <2>2, <2>3, <2>6, <2>7 DEF MergingTrace
<1>3. /\ m \in Seq(Lines) /\ WellMarked(m) /\ m = FoldLeft(Disowned, t, Legacy)
      /\ \A n \in ToSet(Legacy) : Absent(m, n)
      /\ Legacy = <<>> \/ Valid(m)
  BY <1>2, MigrationsDisown
<1> HIDE DEF m
<1>4. /\ r \in Seq(Lines) /\ WellMarked(r) /\ UserLines(r) = UserLines(m)
      /\ \A n \in ToSet(Legacy) : Absent(r, n)
      /\ \A n \in ToSet(Managed) : IsSettled(r, n)
      /\ (Managed = <<>> /\ r = m) \/ Valid(r)
  BY <1>1, <1>3, MergesSettle
<1> HIDE DEF r
<1>5. (Legacy = <<>> \/ Valid(r)) /\ (Managed = <<>> \/ Valid(r))
  BY <1>3, <1>4
<1>6. RenderCodex(r) = r
  <2>1. FoldLeft(Migrate, r, Legacy) = r
    BY <1>4, <1>5, MigratingNothing
  <2>2. FoldLeft(MergeCodex, r, Managed) = r
    BY <1>4, <1>5, MergingAgain
  <2> QED BY <2>1, <2>2 DEF RenderCodex
<1>7. Kept(r) = Kept(t)
  <2>1. FoldLeft(Disowned, r, Legacy) = r
    BY <1>4, DisowningNothing
  <2>2. Kept(r) = UserLines(r) /\ Kept(t) = UserLines(m)
    BY <1>3, <2>1 DEF Kept, UserLines, Mine
  <2> QED BY <1>4, <2>2
<1>8. \A n \in ToSet(Managed) : Resolves(r, n)
  <2>1. ASSUME NEW n \in ToSet(Managed) PROVE Resolves(r, n)
    <3>1. PICK h : Settled(r, n, h)
      BY <1>4 DEF IsSettled
    <3> QED BY <1>4, <3>1, SettledResolves
  <2> QED BY <2>1
<1>9. \A n \in ToSet(Legacy) : ~Declares(r, n)
  BY <1>4 DEF Absent
<1> QED BY <1>1, <1>6, <1>7, <1>8, <1>9

LEMMA RenderType ==
  ASSUME NEW t \in Seq(Lines)
  PROVE  RenderCodex(t) \in Rendered
<1>1. t \in Rendered
  BY DEF Rendered
<1>2. PICK f : MigrationTrace(f, t, Legacy)
  BY <1>1, NamesOfLists, MigrationChain
<1>3. PICK m \in Rendered : m = FoldLeft(Migrate, t, Legacy)
  <2>1. PICK l \in Nat : l = Len(Legacy)
    BY NamesOfLists
  <2>2. l \in 0..l
    OBVIOUS
  <2> QED BY <1>2, <2>1, <2>2 DEF MigrationTrace
<1>4. PICK g : MergingTrace(g, m, Managed)
  BY <1>3, NamesOfLists, MergingChain
<1>5. FoldLeft(MergeCodex, m, Managed) \in Rendered
  <2>1. PICK l \in Nat : l = Len(Managed)
    BY NamesOfLists
  <2>2. l \in 0..l
    OBVIOUS
  <2> QED BY <1>4, <2>1, <2>2 DEF MergingTrace
<1> QED BY <1>3, <1>5 DEF RenderCodex

\* What a setup makes of a document of servers.
LEMMA JsonIsFaithful ==
  ASSUME NEW j, NEW r, r = RenderJson(j)
  PROVE  /\ \A n \in ToSet(Managed) : r.servers[n] = "entry"
         /\ \A n \in ToSet(Legacy) : n \notin DOMAIN r.servers
         /\ \A n \in DOMAIN Servers(j) \ Names :
              n \in DOMAIN r.servers /\ r.servers[n] = j.servers[n]
         /\ RenderJson(r) = r
<1>1. ToSet(Managed) \cap ToSet(Legacy) = {}
  BY MergeAssumption DEF MergeAssumption
<1> DEFINE D == (DOMAIN Servers(j) \ ToSet(Legacy)) \cup ToSet(Managed)
           s == [n \in D |-> IF n \in ToSet(Managed) THEN "entry" ELSE Servers(j)[n]]
<1>2. r = [shape |-> "object", servers |-> s]
  BY DEF RenderJson
<1>3. \A n : n \in D <=> (n \in DOMAIN Servers(j) /\ n \notin ToSet(Legacy)) \/ n \in ToSet(Managed)
  OBVIOUS
<1>4. /\ DOMAIN s = D
      /\ \A n \in D : s[n] = IF n \in ToSet(Managed) THEN "entry" ELSE Servers(j)[n]
  OBVIOUS
<1>5. s = [n \in D |-> IF n \in ToSet(Managed) THEN "entry" ELSE s[n]]
  OBVIOUS
<1> HIDE DEF D, s
<1>6. r.shape = "object" /\ r.servers = s /\ Servers(r) = s
  BY <1>2 DEF Servers
<1>7. (DOMAIN s \ ToSet(Legacy)) \cup ToSet(Managed) = D
  BY <1>1, <1>3, <1>4
<1>8. RenderJson(r) = r
  <2>1. RenderJson(r) = [shape |-> "object",
                         servers |-> [n \in D |-> IF n \in ToSet(Managed) THEN "entry" ELSE s[n]]]
    BY <1>6, <1>7 DEF RenderJson
  <2> QED BY <1>2, <1>5, <2>1
<1>9. \A n \in ToSet(Managed) : s[n] = "entry"
  BY <1>3, <1>4
<1>10. \A n \in ToSet(Legacy) : n \notin DOMAIN s
  BY <1>1, <1>3, <1>4
<1>11. ASSUME NEW n \in DOMAIN Servers(j), n \notin Names
       PROVE  n \in DOMAIN s /\ s[n] = j.servers[n]
  <2>1. Servers(j) = j.servers
    BY <1>11 DEF Servers, JsonEmpty
  <2> QED BY <1>3, <1>4, <1>11, <2>1 DEF Names
<1> QED BY <1>6, <1>8, <1>9, <1>10, <1>11

\* The documents after a setup are what it renders of those it read.
MergeInv ==
  /\ text \in Seq(Lines)
  /\ phase = "set up" =>
       /\ before.text \in Seq(Lines)
       /\ text = RenderCodex(before.text) /\ json = RenderJson(before.json)

LEMMA MergeInvInductive == MergeSpec => []MergeInv
<1>1. MergeInit => MergeInv
  BY DEF MergeInit, MergeInv
<1>2. MergeInv /\ [MergeNext]_mergeVars => MergeInv'
  <2> SUFFICES ASSUME MergeInv, [MergeNext]_mergeVars PROVE MergeInv'
    OBVIOUS
  <2>1. ASSUME NEW t \in CodexTexts, Give(t, JsonEmpty) PROVE MergeInv'
    BY <2>1, MergeAssumption DEF MergeAssumption, Give, MergeInv
  <2>2. ASSUME NEW j \in JsonDocuments, Give(<<>>, j) PROVE MergeInv'
    BY <2>2 DEF Give, MergeInv
  <2>3. CASE SetUpHosts
    <3>1. RenderCodex(text) \in Rendered
      BY RenderType DEF MergeInv
    <3>2. text \in Seq(Lines)
      BY DEF MergeInv
    <3>3. CASE RenderCodex(text) = RefusedText \/ ~Mergeable(json)
      BY <2>3, <3>2, <3>3 DEF SetUpHosts, MergeInv
    <3>4. CASE ~(RenderCodex(text) = RefusedText \/ ~Mergeable(json))
      <4>1. /\ text' = RenderCodex(text) /\ json' = RenderJson(json)
            /\ before'.text = text /\ before'.json = json
        BY <2>3, <3>4 DEF SetUpHosts
      <4>2. RenderCodex(text) \in Seq(Lines)
        BY <3>1, <3>4 DEF Rendered
      <4> QED BY <3>2, <4>1, <4>2 DEF MergeInv
    <3> QED BY <3>3, <3>4
  <2>4. ASSUME NEW line \in InsertedLines, NEW i \in 1..(Len(text) + 1), InsertLine(line, i)
        PROVE  MergeInv'
    <3>1. PICK t \in Seq(Lines) : t = text
      BY DEF MergeInv
    <3>2. i \in Nat /\ 1 <= i /\ i <= Len(t) + 1 /\ <<line>> \in Seq(Lines)
      BY <3>1, MergeAssumption DEF MergeAssumption
    <3>3. SubSeq(t, 1, i - 1) \in Seq(Lines) /\ SubSeq(t, i, Len(t)) \in Seq(Lines)
      <4>1. \A k \in 1..(i - 1) : t[k] \in Lines
        BY <3>2
      <4>2. \A k \in i..Len(t) : t[k] \in Lines
        BY <3>2
      <4> QED BY <3>2, <4>1, <4>2, SubSeqProperties
    <3>4. InsertAt(t, i, line) \in Seq(Lines)
      BY <3>2, <3>3 DEF InsertAt
    <3> QED BY <2>4, <3>1, <3>4 DEF InsertLine, MergeInv
  <2>5. CASE UNCHANGED mergeVars
    BY <2>5 DEF mergeVars, MergeInv
  <2> QED BY <2>1, <2>2, <2>3, <2>4, <2>5 DEF MergeNext
<1> QED BY <1>1, <1>2, PTL DEF MergeSpec

\* MergeFaithful: whatever the texts, the names and the order of the merges.
THEOREM MergesAreFaithful == MergeSpec => []MergeFaithful
<1>1. MergeInv => MergeFaithful
  <2> SUFFICES ASSUME MergeInv, phase = "set up", WellMarked(before.text)
               PROVE  /\ \A n \in ToSet(Managed) : Resolves(text, n) /\ json.servers[n] = "entry"
                      /\ \A n \in ToSet(Legacy) : ~Declares(text, n) /\ n \notin DOMAIN json.servers
                      /\ \A n \in DOMAIN Servers(before.json) \ Names :
                           n \in DOMAIN json.servers /\ json.servers[n] = before.json.servers[n]
                      /\ RenderCodex(text) = text /\ RenderJson(json) = json
                      /\ Kept(text) = Kept(before.text)
    BY DEF MergeFaithful
  <2>1. /\ before.text \in Seq(Lines) /\ text \in Seq(Lines)
        /\ text = RenderCodex(before.text) /\ json = RenderJson(before.json)
    BY DEF MergeInv
  <2>2. RenderCodex(before.text) # RefusedText
    BY <2>1, RefusedIsNoText
  <2>3. /\ \A n \in ToSet(Managed) : Resolves(text, n)
        /\ \A n \in ToSet(Legacy) : ~Declares(text, n)
        /\ RenderCodex(text) = text
        /\ Kept(text) = Kept(before.text)
    BY <2>1, <2>2, RenderingIsFaithful
  <2>4. /\ \A n \in ToSet(Managed) : json.servers[n] = "entry"
        /\ \A n \in ToSet(Legacy) : n \notin DOMAIN json.servers
        /\ \A n \in DOMAIN Servers(before.json) \ Names :
             n \in DOMAIN json.servers /\ json.servers[n] = before.json.servers[n]
        /\ RenderJson(json) = json
    BY <2>1, JsonIsFaithful
  <2> QED BY <2>3, <2>4
<1> QED BY <1>1, MergeInvInductive, PTL

\* Both at once: no setting is ignored in silence, and the documents of the hosts keep what
\* is the user's.
THEOREM ConfigurationsHold == ConfigurationsSpec => []ConfigurationsAreFaithful
<1>1. ConfigurationsInit => ConfigurationInit /\ MergeInit
  BY DEF ConfigurationsInit
<1>2. [ConfigurationsNext]_<<configurationVars, mergeVars>> =>
        [ConfigurationNext]_configurationVars /\ [MergeNext]_mergeVars
  BY DEF ConfigurationsNext
<1>3. ConfigurationsSpec => ConfigurationSpec /\ MergeSpec
  BY <1>1, <1>2, PTL DEF ConfigurationsSpec, ConfigurationSpec, MergeSpec
<1>4. NoSettingIgnored /\ MergeFaithful => ConfigurationsAreFaithful
  BY DEF ConfigurationsAreFaithful
<1> QED BY <1>3, <1>4, NothingIsIgnored, MergesAreFaithful, PTL
=============================================================================

-------------------------- MODULE QualificationReuse --------------------------
(***************************************************************************)
(* What lets the full qualification of main leave out its Node suites: the *)
(* record that a run of a pull request retains (prQualification.js), and   *)
(* the reads by which the run of the landed merge admits it                *)
(* (prQualificationReuse.js), while runs of the pull request are started,  *)
(* cancelled and run again.                                                *)
(*                                                                         *)
(* One head of one pull request; the tree of its merge is that of the base *)
(* it is merged into.                                                      *)
(***************************************************************************)
EXTENDS Naturals, Sequences

CONSTANTS
  MaxRuns,       \* bound: runs of the pull request
  MaxAttempts,   \* bound: attempts of each run
  MaxBase,       \* bound: commits of main while the pull request is open
  Images         \* images of runners; a job starts on any of them
ASSUME ReuseAssumption == {MaxRuns, MaxAttempts, MaxBase} \subseteq Nat \ {0}

VARIABLES
  runs,       \* the runs of the pull request, oldest first
  artifacts,  \* records retained
  executed,   \* trees on which the Node suites have passed, with the image
  landed,     \* [base, tree] of the merge, <<>> before it
  reading,      \* the next read of the selector on main, Admitted after the last
  selection,       \* [run, attempt, image] of the selection, and its record once read
  main        \* [attempt, reuse, node, others, verdict] of the run on main

reuseVars == <<runs, artifacts, executed, landed, reading, selection, main>>
pullVars == <<runs, artifacts, executed>>
mainVars == <<landed, reading, selection, main>>

Altered == 0      \* a tree that the pull request's merge did not have
Job(attempt, result) == [attempt |-> attempt, result |-> result]
Node(attempt, result, image) == [attempt |-> attempt, result |-> result, image |-> image]
NoImage == "none"
Idle == [attempt |-> 0, reuse |-> "none", node |-> "pending", others |-> "pending",
         verdict |-> "none"]

ReuseInit ==
  /\ runs = <<>> /\ artifacts = {} /\ executed = {}
  /\ landed = <<>> /\ reading = 0 /\ selection = <<>> /\ main = Idle

-----------------------------------------------------------------------------
\* main has moved on as far as the newest run knows, or further; its last commit is one
\* that no run has been started on.
Bases == {b \in 1..MaxBase : \A r \in DOMAIN runs : runs[r].base <= b}

\* The runs of the pull request matter as long as main has not decided.
Watched == main.reuse = "none"

\* A run of the pull request, which cancels the one before it.
StartRun ==
  /\ Watched /\ Len(runs) < MaxRuns
  /\ \E base \in Bases \ {MaxBase} :
     runs' = Append([r \in DOMAIN runs |->
                       IF runs[r].status = "running"
                       THEN [runs[r] EXCEPT !.status = "cancelled"] ELSE runs[r]],
                    [base |-> base, attempt |-> 1, status |-> "running",
                     node |-> Node(1, "pending", NoImage), others |-> Job(1, "pending")])
  /\ UNCHANGED <<artifacts, executed, mainVars>>

NodeEnds(r) ==
  /\ Watched /\ runs[r].status = "running" /\ runs[r].node.result = "pending"
  /\ \/ /\ runs' = [runs EXCEPT ![r].node = Node(runs[r].attempt, "failure", NoImage)]
        /\ UNCHANGED executed
     \/ \E image \in Images :
          /\ runs' = [runs EXCEPT ![r].node = Node(runs[r].attempt, "success", image)]
          /\ executed' = executed \cup {<<runs[r].base, image>>}
  /\ UNCHANGED <<artifacts, mainVars>>

\* A record for whatever image the suites have run on.
RecordableAnywhere(r, image) == runs[r].node.result = "success"

\* assertPrQualificationRecord, of the record the gate would retain: the suites have run
\* in the environment that the gate finds.
Recordable(r, image) == runs[r].node.image = image

RecordOf(r, others, image) ==
  [run |-> r, attempt |-> runs[r].attempt, base |-> runs[r].base, tree |-> runs[r].base,
   image |-> image, nodeAttempt |-> runs[r].node.attempt,
   othersAttempt |-> others.attempt]

\* The other consumers end, those that are not kept from an earlier attempt, and the gate
\* after them; a record that is not retained is one that main does not find: see GiveUp.
GateEnds(r) ==
  /\ Watched /\ runs[r].status = "running" /\ runs[r].node.result # "pending"
  /\ \E others \in IF runs[r].others.result = "pending"
                   THEN {Job(runs[r].attempt, "success"), Job(runs[r].attempt, "failure")}
                   ELSE {runs[r].others} :
       LET ended == [runs EXCEPT ![r].others = others]
       IN IF {runs[r].node.result, others.result} = {"success"}
          THEN /\ runs' = [ended EXCEPT ![r].status = "success"]
               /\ \E image \in Images :
                    artifacts' = artifacts \cup
                      IF Recordable(r, image) THEN {RecordOf(r, others, image)} ELSE {}
          ELSE /\ runs' = [ended EXCEPT ![r].status = "failure"] /\ UNCHANGED artifacts
  /\ UNCHANGED <<executed, mainVars>>

\* Jobs of a run that has ended are run again, and the gate after them; the others keep
\* their results and the attempt that produced them.  (Bound: of one run only.)
Rerun(r) ==
  /\ Watched /\ runs[r].status # "running" /\ runs[r].attempt < MaxAttempts
  /\ \A s \in DOMAIN runs : s # r => runs[s].attempt = 1
  /\ \E node, others \in BOOLEAN :
       LET attempt == runs[r].attempt + 1
           Again(job, chosen) == chosen \/ job.result = "pending"
       IN runs' = [runs EXCEPT
             ![r].attempt = attempt, ![r].status = "running",
             ![r].node = IF Again(@, node) THEN Node(attempt, "pending", NoImage) ELSE @,
             ![r].others = IF Again(@, others) THEN Job(attempt, "pending") ELSE @]
  /\ UNCHANGED <<artifacts, executed, mainVars>>

\* The pull request is merged once a run has ended well, with the tree that was tested
\* or another one.
Merge ==
  /\ landed = <<>> /\ \E r \in DOMAIN runs : runs[r].status = "success"
  /\ \E base \in Bases : \E tree \in {base, Altered} :
       landed' = [base |-> base, tree |-> tree]
  /\ UNCHANGED <<reading, selection, main, pullVars>>

-----------------------------------------------------------------------------
\* The run on main: without reuse at once when it is turned off.  One that is run again
\* from its selector is the same with another number.
StartMain ==
  /\ landed # <<>> /\ main.attempt = 0
  /\ \E disabled \in BOOLEAN :
       /\ main' = [Idle EXCEPT !.attempt = 1,
                               !.reuse = IF disabled THEN "no" ELSE "none"]
       /\ reading' = IF disabled THEN 0 ELSE 1
  /\ selection' = [run |-> 0, attempt |-> 0, image |-> NoImage, record |-> <<>>]
  /\ UNCHANGED <<landed, pullVars>>

\* assertSourceRun, assertArtifact
SourceRun(r) == runs[r].status = "success"
RecordsOf(r, attempt) == {a \in artifacts : a.run = r /\ a.attempt = attempt}

SameAttempt == SourceRun(selection.run) /\ runs[selection.run].attempt = selection.attempt
ArtifactThere == selection.record \in artifacts
\* The image of the selector's own runner is chosen when it is compared.
Establishes(record, image) ==
  record.base = landed.base /\ record.tree = landed.tree /\ record.image = image
SameJobs == /\ runs[selection.run].node.attempt = selection.record.nodeAttempt
            /\ runs[selection.run].others.attempt = selection.record.othersAttempt
\* The last read does not look for newer runs.
NotRunAgain == SameAttempt
StillLatest == Len(runs) = selection.run /\ SameAttempt

\* The reads of the selector, each of which must find what it asks for.
Fact(n) ==
  CASE n = 1 -> Len(runs) > 0 /\ SourceRun(Len(runs))
    [] n = 2 -> RecordsOf(selection.run, selection.attempt) # {}
    [] n = 3 -> RecordsOf(selection.run, selection.attempt) # {}
    [] n = 4 -> SameAttempt
    [] n = 5 -> ArtifactThere
    [] n = 6 -> SameJobs
    [] n = 7 -> SameAttempt
    [] n = 8 -> ArtifactThere
    [] n = 9 -> StillLatest
Admitted == 10

ReadNext ==
  /\ reading \in 1..9 /\ Fact(reading)
  /\ reading' = reading + 1
  /\ CASE reading = 1 -> selection' = [selection EXCEPT !.run = Len(runs),
                                            !.attempt = runs[Len(runs)].attempt]
       [] reading = 3 -> \E a \in RecordsOf(selection.run, selection.attempt) :
                         selection' = [selection EXCEPT !.record = a]
       [] reading = 5 -> \E image \in Images :
                         /\ Establishes(selection.record, image)
                         /\ selection' = [selection EXCEPT !.image = image]
       [] OTHER -> UNCHANGED selection
  /\ main' = IF reading' = Admitted THEN [main EXCEPT !.reuse = "yes"] ELSE main
  /\ UNCHANGED <<landed, pullVars>>

\* A read fails, takes too long, finds something else or an artifact that has expired: the
\* suites are run.
GiveUp == /\ reading \in 1..9
          /\ reading' = 0 /\ main' = [main EXCEPT !.reuse = "no"]
          /\ UNCHANGED <<landed, selection, pullVars>>

MainNodeEnds ==
  /\ main.reuse # "none" /\ main.node = "pending"
  /\ \E result \in IF main.reuse = "yes" THEN {"skipped"} ELSE {"success", "failure"} :
       main' = [main EXCEPT !.node = result]
  /\ UNCHANGED <<landed, reading, selection, pullVars>>

MainOthersEnd ==
  /\ main.reuse # "none" /\ main.others = "pending"
  /\ \E result \in {"success", "failure"} : main' = [main EXCEPT !.others = result]
  /\ UNCHANGED <<landed, reading, selection, pullVars>>

\* completeMainQualification; reuse may have been turned off since.
GateHolds == /\ main.others = "success"
             /\ IF main.reuse = "yes"
                THEN /\ main.node = "skipped"
                     /\ Establishes(selection.record, selection.record.image)
                ELSE main.node = "success"

MainGateEnds ==
  /\ main.verdict = "none" /\ "pending" \notin {main.node, main.others}
  /\ \E disabled \in BOOLEAN :
       main' = [main EXCEPT !.verdict =
                  IF GateHolds /\ ~(disabled /\ main.reuse = "yes")
                  THEN "green" ELSE "red"]
  /\ UNCHANGED <<landed, reading, selection, pullVars>>

\* The failed jobs alone are run again: the selector's outputs are kept.
RetryMain ==
  /\ main.verdict = "red" /\ main.attempt < MaxAttempts
  /\ LET again(result) == IF result = "failure" THEN "pending" ELSE result
     IN main' = [main EXCEPT !.attempt = @ + 1, !.verdict = "none",
                             !.node = again(@), !.others = again(@)]
  /\ UNCHANGED <<landed, reading, selection, pullVars>>

ReuseNext ==
  \/ StartRun \/ Merge
  \/ \E r \in DOMAIN runs : NodeEnds(r) \/ GateEnds(r) \/ Rerun(r)
  \/ StartMain \/ ReadNext \/ GiveUp \/ MainNodeEnds \/ MainOthersEnd \/ MainGateEnds
  \/ RetryMain

ReuseSpec == ReuseInit /\ [][ReuseNext]_reuseVars

-----------------------------------------------------------------------------
\* Main is green without its Node suites only when they have passed on the very tree that
\* has landed, in the environment that its selector found.
ReuseIsProved ==
  main.verdict = "green" /\ main.node = "skipped"
    => <<landed.tree, selection.image>> \in executed

\* The record that main has admitted is of the newest run of the pull request, which has
\* ended well and has not been run again: no older success stands in for a later failure.
\* (Runs are not followed any further once main has decided.)
SourceIsLatest ==
  main.reuse = "yes" =>
    LET r == Len(runs)
    IN /\ r = selection.record.run /\ runs[r].status = "success"
       /\ runs[r].attempt = selection.record.attempt
       /\ runs[r].node.attempt = selection.record.nodeAttempt
=============================================================================

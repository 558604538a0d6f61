-------------------------- MODULE SetUpTransaction --------------------------
(***************************************************************************)
(* set_up_mcp_servers.py: the replacement of several live files as one     *)
(* transaction that can be rolled back.  Programs and their records are    *)
(* guarded by the setup lock; the documents of MCP hosts are not, and an   *)
(* editor writes or removes them whenever it likes.  The transaction may   *)
(* fail at each call, and the process may be killed between any two.  An   *)
(* interrupt (a KeyboardInterrupt) may also come where nothing handles it: *)
(* after a call and before its record, or in the rollback.                 *)
(*                                                                         *)
(* A file is its content, a number: Absent, Former, New (what the          *)
(* transaction publishes) or, from 1 on, what an edit has saved.  Each     *)
(* action is one file-system call that another process can observe.        *)
(***************************************************************************)
EXTENDS Integers, Sequences, FiniteSets

CONSTANTS
  Targets,     \* the destinations in the order of their replacement
  Guarded,     \* those that are host documents
  Before,      \* what is there when the setup starts
  MaxEdits     \* bound on what the editor does

File == {Targets[n] : n \in DOMAIN Targets}

Former == 0
New == -1
Absent == -2
NoFile == -3    \* no backup
Empty == -4     \* a backup that awaits the displaced file

\* A destination that is named twice is refused before any file is replaced (1782-1788).
TargetsAssumption ==
  /\ Targets \in Seq(File)
  /\ \A m, n \in DOMAIN Targets : Targets[m] = Targets[n] => m = n
  /\ Guarded \subseteq File
  /\ Before \in [File -> {Absent, Former, New}]
  /\ MaxEdits \in Nat

VARIABLES
  live,        \* content at each destination
  observed,    \* content each document was rendered from
  aside,       \* content at the backup or displaced path, or NoFile
  prepared,    \* indices of prepared_file_replacements
  activated,   \* activated_file_replacements, as indices
  position,    \* index of the replacement at hand
  stage,       \* step of the transaction
  kept,        \* preserved_recovery_backup_paths
  conflicts,   \* rollback_conflict_destination_paths
  edits,       \* number of edits so far
  superseded,  \* history: edits that a later edit replaced, or that the
               \* rendering has merged
  unseen,      \* history: edits made between the check of a rollback and
               \* the call that restores the file, or displaced by a
               \* replacement that is abandoned
  abandoned    \* history: files whose replacement an interrupt has left
               \* unrecorded, or recorded and not undone
setUpVars == <<live, observed, aside, prepared, activated, position, stage,
               kept, conflicts, edits, superseded, unseen, abandoned>>
historyVars == <<edits, superseded, unseen, abandoned>>

SetUpInit ==
  /\ live = Before
  /\ observed = Before
  /\ aside = [f \in File |-> NoFile]
  /\ prepared = {} /\ activated = <<>>
  /\ position = 1
  /\ stage = "start"
  /\ kept = {} /\ conflicts = {}
  /\ edits = 0 /\ superseded = {} /\ unseen = {} /\ abandoned = {}

Current == Targets[position]
Last == Targets[activated[Len(activated)]]
Observed(f) == live[f] = observed[f]
AllDone == position > Len(Targets)
Ended == stage \in {"activated", "failed", "killed"}

-----------------------------------------------------------------------------
(* The editor saves or removes a document. *)

Edited(f, content, replaced) ==
  /\ edits < MaxEdits
  /\ edits' = edits + 1
  /\ live' = [live EXCEPT ![f] = content]
  /\ superseded' = superseded \cup (replaced \cap (1 .. MaxEdits))
  /\ UNCHANGED <<observed, aside, prepared, activated, position, stage, kept,
                 conflicts, abandoned>>

Save(f) ==
  /\ Edited(f, edits + 1, {live[f]})
  /\ unseen' = IF stage = "restore" /\ f = Last THEN unseen \cup {edits + 1}
                                                ELSE unseen

Remove(f) ==
  /\ live[f] # Absent
  /\ Edited(f, Absent, {live[f], edits + 1})
  /\ UNCHANGED unseen

-----------------------------------------------------------------------------
(* Rendering reads every document and merges what it finds into the new    *)
(* content; staging touches no live path.                                  *)
Render ==
  /\ stage = "start"
  /\ observed' = live
  /\ superseded' = superseded \cup ({live[f] : f \in File} \cap (1 .. edits))
  /\ stage' = "stage"
  /\ UNCHANGED <<live, aside, prepared, activated, position, kept, conflicts,
                 edits, unseen, abandoned>>

(* Every file is written beside its destination, or all of them are        *)
(* removed again.                                                          *)
StageFiles ==
  /\ stage = "stage"
  /\ stage' \in {"prepare", "failed"}
  /\ UNCHANGED <<live, observed, aside, prepared, activated, position, kept,
                 conflicts, historyVars>>

Abort == stage' = "rollback"

AlreadyPublished(f) == live[f] = New

(* A backup is a copy of a program, or for a document an empty file that   *)
(* will receive the displaced one.                                         *)
CopiedBackup(f) == live[f]
ReservedBackup(f) == Empty

(* A guarded destination must still be what it was rendered from; one that *)
(* already has the new content is left out; what exists gets a backup.     *)
Prepare ==
  /\ stage = "prepare"
  /\ ~ AllDone
  /\ LET f == Current
     IN IF f \in Guarded /\ ~ Observed(f)
          THEN Abort /\ UNCHANGED <<aside, prepared, position>>
          ELSE /\ position' = position + 1
               /\ UNCHANGED stage
               /\ IF AlreadyPublished(f)
                    THEN UNCHANGED <<aside, prepared>>
                    ELSE /\ prepared' = prepared \cup {position}
                         /\ aside' = [aside EXCEPT ![f] =
                              IF live[f] = Absent THEN NoFile
                              ELSE IF f \in Guarded THEN ReservedBackup(f)
                              ELSE CopiedBackup(f)]
  /\ UNCHANGED <<live, observed, activated, kept, conflicts, historyVars>>

(* All documents are compared again before the first live path changes. *)
Recheck ==
  /\ stage = "prepare"
  /\ AllDone
  /\ position' = 1
  /\ IF \A f \in Guarded : Observed(f) THEN stage' = "check" ELSE Abort
  /\ UNCHANGED <<live, observed, aside, prepared, activated, kept, conflicts,
                 historyVars>>

Advance == position' = position + 1 /\ stage' = "check"

(* ... and each of them at its own replacement boundary. *)
Check ==
  /\ stage = "check"
  /\ IF AllDone THEN stage' = "activated" /\ UNCHANGED position
     ELSE IF position \notin prepared THEN Advance
     ELSE /\ IF Current \in Guarded /\ ~ Observed(Current)
               THEN Abort ELSE stage' = "publish"
          /\ UNCHANGED position
  /\ UNCHANGED <<live, observed, aside, prepared, activated, kept, conflicts,
                 historyVars>>

Activated == activated' = Append(activated, position)

(* A document that did not exist is linked, which never overwrites. *)
LinkDocument(f) ==
  /\ observed[f] = Absent
  /\ IF live[f] # Absent
       THEN Abort /\ UNCHANGED <<live, activated, position>>
       ELSE /\ live' = [live EXCEPT ![f] = New]
            /\ Activated
            /\ Advance
  /\ UNCHANGED aside

(* An existing one changes places with the staged file, which has taken    *)
(* the name of the backup before, in one call of the kernel.               *)
Exchange(f) ==
  /\ live' = [live EXCEPT ![f] = New]
  /\ aside' = [aside EXCEPT ![f] = live[f]]

(* The call fails when the document's name is gone. *)
ExchangeDocument(f) ==
  /\ observed[f] # Absent
  /\ UNCHANGED position
  /\ IF live[f] = Absent
       THEN /\ aside' = [aside EXCEPT ![f] = New]
            /\ Abort
            /\ UNCHANGED <<live, activated>>
       ELSE /\ Exchange(f)
            /\ Activated
            /\ stage' = "compare"

ReplaceProgram(f) ==
  /\ live' = [live EXCEPT ![f] = New]
  /\ Activated
  /\ Advance
  /\ UNCHANGED aside

Publish ==
  /\ stage = "publish"
  /\ IF Current \in Guarded
       THEN LinkDocument(Current) \/ ExchangeDocument(Current)
       ELSE ReplaceProgram(Current)
  /\ UNCHANGED <<observed, prepared, kept, conflicts, historyVars>>

(* An interrupt between the replacement and its record: the rollback knows *)
(* nothing of the file, and its backup is removed with the others.         *)
PublishInterrupted ==
  /\ stage = "publish"
  /\ live[Current] = Absent <=> observed[Current] = Absent
  /\ IF Current \in Guarded /\ observed[Current] # Absent
       THEN Exchange(Current)
       ELSE live' = [live EXCEPT ![Current] = New] /\ UNCHANGED aside
  /\ Abort
  /\ abandoned' = abandoned \cup {Current}
  /\ unseen' = unseen \cup ({live[Current]} \cap (1 .. edits))
  /\ UNCHANGED <<observed, prepared, activated, position, kept, conflicts,
                 edits, superseded>>

(* Mutant: what has been displaced is not looked at. *)
CompareSkipped ==
  /\ stage = "compare"
  /\ Advance
  /\ UNCHANGED <<live, observed, aside, prepared, activated, kept, conflicts,
                 historyVars>>

(* What has been displaced must be what the document was rendered from. *)
Compare ==
  /\ stage = "compare"
  /\ IF aside[Current] = observed[Current]
       THEN Advance ELSE Abort /\ UNCHANGED position
  /\ UNCHANGED <<live, observed, aside, prepared, activated, kept, conflicts,
                 historyVars>>

(* Any of these calls may raise. *)
Fails ==
  /\ stage \in {"prepare", "check", "publish", "compare"}
  /\ Abort
  /\ UNCHANGED <<live, observed, aside, prepared, activated, position, kept,
                 conflicts, historyVars>>

-----------------------------------------------------------------------------
(* Rollback, last replacement first. *)

Undone == activated' = SubSeq(activated, 1, Len(activated) - 1)
PreserveBackup(f) == kept' = IF aside[f] # NoFile THEN kept \cup {f} ELSE kept

StillPublished(f) == live[f] = New

(* A destination that is no longer what was published is left alone. *)
RollbackCheck ==
  /\ stage = "rollback"
  /\ activated # <<>>
  /\ IF StillPublished(Last)
       THEN stage' = "restore" /\ UNCHANGED <<activated, kept, conflicts>>
       ELSE /\ conflicts' = conflicts \cup {Last}
            /\ PreserveBackup(Last)
            /\ Undone
            /\ UNCHANGED stage
  /\ UNCHANGED <<live, observed, aside, prepared, position, historyVars>>

Restore ==
  /\ stage = "restore"
  /\ stage' = "rollback"
  /\ Undone
  /\ \/ /\ live' = [live EXCEPT ![Last] =
                      IF aside[Last] = NoFile THEN Absent ELSE aside[Last]]
        /\ aside' = [aside EXCEPT ![Last] = NoFile]
        /\ UNCHANGED <<kept, conflicts>>
     \/ /\ conflicts' = conflicts \cup {Last}
        /\ PreserveBackup(Last)
        /\ UNCHANGED <<live, aside>>
  /\ UNCHANGED <<observed, prepared, position, historyVars>>

(* An interrupt in the rollback ends it: what is still to be restored stays *)
(* as published, and only the backups that are preserved already remain.   *)
RollbackInterrupted ==
  /\ stage \in {"rollback", "restore"}
  /\ activated # <<>>
  /\ conflicts' \in {conflicts, conflicts \cup {Last}}
  /\ LET left == {Targets[activated[n]] : n \in DOMAIN activated}
     IN /\ abandoned' = abandoned \cup left
        /\ unseen' = unseen \cup ({aside[f] : f \in left} \cap (1 .. edits))
  /\ activated' = <<>>
  /\ stage' = "failed"
  /\ UNCHANGED <<live, observed, aside, prepared, position, kept, edits,
                 superseded>>

RolledBack ==
  /\ stage = "rollback"
  /\ activated = <<>>
  /\ stage' = "failed"
  /\ UNCHANGED <<live, observed, aside, prepared, activated, position, kept,
                 conflicts, historyVars>>

(* The finally block removes every backup that need not be preserved. *)
RemoveBackups ==
  /\ stage \in {"activated", "failed"}
  /\ \E f \in File \ kept : aside[f] # NoFile
  /\ aside' = [f \in File |-> IF f \in kept THEN aside[f] ELSE NoFile]
  /\ UNCHANGED <<live, observed, prepared, activated, position, stage, kept,
                 conflicts, historyVars>>

Killed ==
  /\ stage # "start"
  /\ ~ Ended
  /\ stage' = "killed"
  /\ UNCHANGED <<live, observed, aside, prepared, activated, position, kept,
                 conflicts, historyVars>>

SetUpProgress ==
  \/ Render \/ StageFiles \/ Prepare \/ Recheck \/ Check \/ Publish \/ Compare
  \/ RollbackCheck \/ Restore \/ RolledBack \/ RemoveBackups

Interrupted == PublishInterrupted \/ RollbackInterrupted

SetUpNext ==
  \/ SetUpProgress \/ Fails \/ Interrupted \/ Killed
  \/ \E f \in Guarded : Save(f) \/ Remove(f)

-----------------------------------------------------------------------------

(* Every content the editor has saved is where it was saved or in a backup *)
(* that is left for the user, unless the editor has replaced it itself.    *)
Survives(e) ==
  e \in superseded \/ \E f \in File : e \in {live[f], aside[f]}

(* The design of the setup says that a concurrent edit preserves the       *)
(* user's bytes, in a rollback as well; here, where no interrupt leaves a  *)
(* replacement to itself.                                                  *)
EditsSurvive == (Ended /\ abandoned = {}) => \A e \in 1 .. edits : Survives(e)

(* The two exceptions: a rollback compares the live file with what it has  *)
(* published and then replaces it in another call; and what an interrupted *)
(* transaction has displaced goes with its backups, if nothing records or  *)
(* undoes the replacement.                                                 *)
SeenEditsSurvive ==
  Ended => \A e \in (1 .. edits) \ unseen : Survives(e)

(* A committed transaction has published every file, one that failed has   *)
(* published none but those it names as conflicts: the programs, their     *)
(* records and the documents that launch them change together.  An         *)
(* interrupt breaks this only for the files it has left to themselves, and *)
(* even they have, like every file at every time, the former content, the  *)
(* new one or an editor's.                                                 *)
AllOrNothing ==
  LET ByEditor(f) == IF f \in Guarded /\ edits > 0
                       THEN (1 .. edits) \cup {Absent} ELSE {}
  IN \A f \in File :
       /\ live[f] \in {New, Before[f]} \cup ByEditor(f)
       /\ stage = "activated" => live[f] \in {New} \cup ByEditor(f)
       /\ (stage = "failed" /\ f \notin conflicts \cup abandoned)
            => live[f] \in {Before[f]} \cup ByEditor(f)

SetUpTransactional == SeenEditsSurvive /\ AllOrNothing
=============================================================================

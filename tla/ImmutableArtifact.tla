------------------------- MODULE ImmutableArtifact -------------------------
(***************************************************************************)
(* One digest-named artifact file of                                        *)
(* persistentOntologyQueryArtifactCache.js while calls of several processes  *)
(* read it, quarantine it if it is corrupt, install it and evict it.  A file *)
(* is an inode; the name is a hard link to one.  One step is one file-system *)
(* call.                                                                    *)
(***************************************************************************)
EXTENDS Integers

CONSTANTS Readers,     \* calls of readVerifiedArtifact
          Installers,  \* calls of installVerifiedArtifact; each is also the name of
                       \* the inode of its own flushed temporary file
          Evictors,    \* calls of prune that have listed the artifact or are to
          Old,         \* an inode from an earlier time
          Attempts,    \* attempts of an installation (eight in the code)
          None

Calls == Readers \cup Installers \cup Evictors
Inodes == Installers \cup {Old}

ASSUME ArtifactAssumption == /\ Attempts \in Nat \ {0}
                             /\ Old \notin Calls /\ None \notin Calls \cup {Old}
                             /\ Readers \cap Installers = {}
                             /\ Evictors \cap (Readers \cup Installers) = {}

VARIABLES
  name,     \* the inode at the artifact's name, None if there is none
  corrupt,  \* the inodes whose bytes do not match the digest
  pc,       \* where each call is
  seen,     \* the inode a call has identified by lstat
  linked,   \* the inode a call has linked into quarantine
  attempt   \* how often each installation has tried to link

vars == <<name, corrupt, pc, seen, linked, attempt>>

Ended == {"hit", "miss", "installed", "unsafe", "exhausted", "pruned"}

Init == /\ name \in {None, Old}
        /\ corrupt \in SUBSET {Old}
        /\ pc = [c \in Calls |-> IF c \in Readers THEN "lstat"
                                 ELSE IF c \in Installers THEN "install" ELSE "list"]
        /\ seen = [c \in Calls |-> None]
        /\ linked = [c \in Calls |-> None]
        /\ attempt = [c \in Calls |-> 0]

Goto(c, from, to) == pc[c] = from /\ pc' = [pc EXCEPT ![c] = to]
\* A read that finds nothing usable: an installation tries to link again.
AfterMiss(c) == IF c \in Readers THEN "miss"
                ELSE IF attempt[c] < Attempts THEN "install" ELSE "exhausted"

-----------------------------------------------------------------------------
(* readVerifiedArtifactFile, with openManagedRegularFile                    *)

Lstat(c) == /\ Goto(c, "lstat", IF name = None THEN AfterMiss(c) ELSE "open")
            /\ seen' = [seen EXCEPT ![c] = name]
            /\ UNCHANGED <<name, corrupt, linked, attempt>>

\* The name may have gone, or be another file's, since lstat: the call throws.
Open(c) == /\ Goto(c, "open", IF name = seen[c] THEN "read" ELSE "unsafe")
           /\ UNCHANGED <<name, corrupt, seen, linked, attempt>>

\* The bytes are read through the handle and verified.
Read(c) ==
  /\ Goto(c, "read", IF seen[c] \in corrupt THEN "identify"
                     ELSE IF c \in Readers THEN "hit" ELSE "installed")
  /\ UNCHANGED <<name, corrupt, seen, linked, attempt>>

-----------------------------------------------------------------------------
(* quarantineArtifactFile                                                  *)

Identify(c) == /\ Goto(c, "identify", IF name = seen[c] THEN "link" ELSE AfterMiss(c))
               /\ UNCHANGED <<name, corrupt, seen, linked, attempt>>

LinkQuarantine(c) == /\ Goto(c, "link", IF name = None THEN AfterMiss(c) ELSE "compare")
                     /\ linked' = [linked EXCEPT ![c] = name]
                     /\ UNCHANGED <<name, corrupt, seen, attempt>>

\* The quarantined file is kept only if it is the corrupt one that was read.
Compare(c) ==
  /\ Goto(c, "compare", IF linked[c] = seen[c] THEN "unlink" ELSE AfterMiss(c))
  /\ linked' = [linked EXCEPT ![c] = IF @ = seen[c] THEN @ ELSE None]
  /\ UNCHANGED <<name, corrupt, seen, attempt>>

\* Mutant of Unlink: the corrupt file is linked into quarantine but keeps its name.
UnlinkForgotten(c) == /\ Goto(c, "unlink", AfterMiss(c))
                      /\ UNCHANGED <<name, corrupt, seen, linked, attempt>>

\* Whatever has the name now loses it.
Unlink(c) == /\ Goto(c, "unlink", AfterMiss(c))
             /\ name' = None
             /\ UNCHANGED <<corrupt, seen, linked, attempt>>

-----------------------------------------------------------------------------
(* installVerifiedArtifact: link, or verify the winner's file               *)

\* Mutant of Install: an existing name is an error and not a race lost.
InstallNeedsAbsence(c) ==
  /\ Goto(c, "install", IF name = None THEN "installed" ELSE "unsafe")
  /\ name' = IF name = None THEN c ELSE name
  /\ attempt' = [attempt EXCEPT ![c] = @ + 1]
  /\ UNCHANGED <<corrupt, seen, linked>>

Install(c) == /\ Goto(c, "install", IF name = None THEN "installed" ELSE "lstat")
              /\ name' = IF name = None THEN c ELSE name
              /\ attempt' = [attempt EXCEPT ![c] = @ + 1]
              /\ UNCHANGED <<corrupt, seen, linked>>

-----------------------------------------------------------------------------
(* prune, for this artifact                                                 *)

List(c) == /\ Goto(c, "list", IF name = None THEN "pruned" ELSE "check")
           /\ seen' = [seen EXCEPT ![c] = name]
           /\ UNCHANGED <<name, corrupt, linked, attempt>>

\* It is evicted only if it is the file that was listed ...
Check(c) == /\ Goto(c, "check", IF name = seen[c] THEN "evict" ELSE "pruned")
            /\ UNCHANGED <<name, corrupt, seen, linked, attempt>>

\* ... a moment ago.
Evict(c) == /\ Goto(c, "evict", "pruned")
            /\ name' = None
            /\ UNCHANGED <<corrupt, seen, linked, attempt>>

-----------------------------------------------------------------------------
ReadStep(c) == Lstat(c) \/ Open(c) \/ Read(c)
QuarantineStep(c) == Identify(c) \/ LinkQuarantine(c) \/ Compare(c) \/ Unlink(c)

Next == \/ \E c \in Readers \cup Installers : ReadStep(c) \/ QuarantineStep(c)
        \/ \E c \in Installers : Install(c)
        \/ \E c \in Evictors : List(c) \/ Check(c) \/ Evict(c)

Spec == Init /\ [][Next]_vars

-----------------------------------------------------------------------------
\* Type invariant.
TypeOK ==
  /\ name \in Inodes \cup {None}
  /\ corrupt \in SUBSET {Old}
  /\ pc \in [Calls -> Ended \cup {"lstat", "open", "read", "identify", "link", "compare",
                                  "unlink", "install", "list", "check", "evict"}]
  /\ seen \in [Calls -> Inodes \cup {None}]
  /\ linked \in [Calls -> Inodes \cup {None}]
  /\ attempt \in [Calls -> 0..Attempts]

\* No answer of a call - bytes, a miss, a completed installation - leaves a corrupt file
\* at the name, whatever other calls quarantine, install or evict meanwhile.
CorruptionIsRepaired ==
  (\E c \in Calls : pc[c] \in {"hit", "miss", "installed"}) => name \notin corrupt

\* No call of prune has got as far as its unlink.
NothingEvicted == \A c \in Evictors : pc[c] \in {"list", "check", "evict"}

\* Where nothing is corrupt and nothing has been evicted no call fails, and once one has
\* installed the artifact it stays: every race of installations has a winner that the
\* losers accept.
RacesAreWon ==
  corrupt = {} /\ NothingEvicted =>
    /\ \A c \in Calls : pc[c] \notin {"unsafe", "exhausted"}
    /\ (\E c \in Calls : pc[c] \in {"hit", "installed"}) => name # None
=============================================================================

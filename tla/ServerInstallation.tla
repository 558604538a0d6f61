-------------------------- MODULE ServerInstallation --------------------------
(***************************************************************************)
(* The installation of the MCP servers by set_up_mcp_servers.py, under the *)
(* lock of the repository: the GitHub server, from its latest release or   *)
(* from what is installed, and the bundle of the ontology server, which    *)
(* ApplicationBundle publishes for it and for others at any time, while    *)
(* sources are edited and releases appear.  How one file is replaced and   *)
(* restored is SetUpTransaction.  A program is named by its release.       *)
(***************************************************************************)
EXTENDS Integers, Sequences

CONSTANTS
  Setups,        \* runs of the setup
  Builds,        \* other runs of the bundle's build
  VersionOf,     \* version of package.json in each state of the sources
  MaxEvents      \* bound: edits, releases and losses in all

VARIABLES
  sources,     \* state of the sources
  latest,      \* latest release on GitHub
  canonical,   \* the files that builds publish
  build,       \* each build, those of setups included
  lock,        \* the setup that holds the lock, or Nobody
  setup,       \* each setup
  installed,   \* the installed files
  damages,     \* losses so far
  torn,        \* history: the last replacement of the files was cut off
  damaged,     \* history: a file has been lost since the last complete setup
  promised     \* history: the newest release that a complete setup has installed

INSTANCE ApplicationBundle WITH Bundlers <- Setups \cup Builds

Nobody == "nobody"
InstallationAssumption ==
  /\ Setups \cap Builds = {} /\ Nobody \notin Setups
  /\ BundleAssumption /\ MaxEvents \in Nat

historyVars == <<torn, damaged, promised>>
worldVars == <<sources, latest, damages>>
installationVars == <<worldVars, canonical, build, lock, setup, installed, historyVars>>

Damaged == -1      \* other bytes than those of any release, or no record
NoRecord == [tag |-> Missing, sha |-> Missing]
Files == <<"github", "githubRecord", "worker", "bundle", "record">>
Nothing == [github |-> Missing, githubRecord |-> NoRecord, worker |-> Missing,
            bundle |-> NoBundle, record |-> NoProduct]
NewSetup == [stage |-> "idle", declared |-> Missing, metadata |-> NoProduct,
             staged |-> Nothing, position |-> 1, before |-> Nothing, wasTorn |-> FALSE]
EndedSetup == [NewSetup EXCEPT !.stage = "ended"]

InstallationInit ==
  /\ BundleInit
  /\ latest = 1 /\ damages = 0 /\ lock = Nobody
  /\ setup = [s \in Setups |-> NewSetup] /\ installed = Nothing
  /\ torn = FALSE /\ damaged = FALSE /\ promised = Missing

-----------------------------------------------------------------------------
(* The world: sources are edited and bundles built, GitHub publishes, and  *)
(* while no setup runs an installed file of the GitHub server is lost.     *)

Happens == (sources - 1) + (latest - 1) + damages < MaxEvents

SourcesAreEdited ==
  /\ Happens /\ EditSources
  /\ UNCHANGED <<latest, damages, lock, setup, installed, historyVars>>

\* The setup that waits for a build that fails stops.
BundleIsBuilt ==
  /\ (\E b \in Builds : BuildBegins(b)) \/ (\E r \in Setups \cup Builds : BuildNext(r))
  /\ UNCHANGED <<latest, damages, lock, setup, installed, historyVars>>

PublishRelease ==
  /\ Happens /\ latest' = latest + 1
  /\ UNCHANGED <<sources, damages, canonical, build, lock, setup, installed, historyVars>>

LoseFile ==
  /\ Happens /\ lock = Nobody /\ damages' = damages + 1
  /\ \/ installed' = [installed EXCEPT !.github = Damaged]
     \/ installed' = [installed EXCEPT !.githubRecord = NoRecord]
  /\ damaged' = TRUE
  /\ UNCHANGED <<sources, latest, canonical, build, lock, setup, torn, promised>>

-----------------------------------------------------------------------------
(* A setup, up to what it has staged and verified.                         *)

SetupStep(s, from, to) ==
  /\ setup[s].stage = from
  /\ setup' = [setup EXCEPT ![s] = to]
  /\ UNCHANGED <<worldVars, canonical, damaged>>
Reads(s, from, to) ==
  /\ SetupStep(s, from, to)
  /\ UNCHANGED <<build, lock, installed, torn, promised>>

\* Variant: the lock excludes nobody.
NoLock == TRUE
\* The lock is not waited for.
LockIsFree == lock = Nobody
Acquire(s) ==
  /\ LockIsFree
  /\ SetupStep(s, "idle", [setup[s] EXCEPT !.stage = "resolve"])
  /\ lock' = s
  /\ UNCHANGED <<build, installed, torn, promised>>

Refused(s) ==
  /\ lock # Nobody
  /\ Reads(s, "idle", EndedSetup)

\* Variant: the record is believed by its tag alone.
BelieveTag == installed.githubRecord.tag = latest
\* An installed program is taken again when its record has the tag of the latest release
\* and the digest of the program.
CurrentInstallation == /\ installed.githubRecord.tag = latest
                       /\ installed.github = installed.githubRecord.sha
StagedGithub(tag, program) ==
  [Nothing EXCEPT !.github = program, !.githubRecord = [tag |-> tag, sha |-> program]]

ResolveRelease(s) ==
  Reads(s, "resolve",
        IF CurrentInstallation
        THEN [setup[s] EXCEPT !.stage = "identity",
                              !.staged = StagedGithub(latest, installed.github)]
        ELSE [setup[s] EXCEPT !.stage = "download", !.staged.githubRecord.tag = latest])

\* The archive has the digest that the manifest of the same release lists, or the setup
\* stops.
Download(s) ==
  LET tag == setup[s].staged.githubRecord.tag IN
  Reads(s, "download",
        [setup[s] EXCEPT !.stage = "identity", !.staged = StagedGithub(tag, tag)])

\* The declared version is read, then the build is started.
ReadIdentity(s) ==
  /\ SetupStep(s, "identity", [setup[s] EXCEPT !.stage = "build",
                                               !.declared = VersionOf[sources]])
  /\ build' = [build EXCEPT ![s].stage = "begun"]
  /\ UNCHANGED <<lock, installed, torn, promised>>

ReadMetadata(s) ==
  /\ build[s].stage = "built"
  /\ Reads(s, "build", [setup[s] EXCEPT !.stage = "bundle",
                                        !.metadata = canonical.metadata])

CheckBundle(s) ==
  /\ canonical.bundle = setup[s].metadata.bundle
  /\ setup[s].metadata.bundle.version = setup[s].declared
  /\ Reads(s, "bundle", [setup[s] EXCEPT !.stage = "worker"])

CheckWorker(s) ==
  /\ canonical.worker = setup[s].metadata.worker
  /\ Reads(s, "worker", [setup[s] EXCEPT !.stage = "copy bundle"])

CopyBundle(s) ==
  Reads(s, "copy bundle", [setup[s] EXCEPT !.stage = "copy worker",
                                           !.staged.bundle = canonical.bundle])

\* Variant: the copy is not compared again.
CopyUnchecked(s) == TRUE
\* What has been copied must be what was validated; the record describes it.
SameWorker(s, copied) == copied = setup[s].metadata.worker
SameBundle(s) == setup[s].staged.bundle = setup[s].metadata.bundle
CopyWorker(s) ==
  /\ SameWorker(s, canonical.worker) /\ SameBundle(s)
  /\ Reads(s, "copy worker",
           [setup[s] EXCEPT !.stage = "verify", !.staged.worker = canonical.worker,
                            !.staged.record = setup[s].metadata])

\* Both programs are started; the ontology server reports the version in its bundle, and
\* that must be the declared one.
Verify(s) ==
  /\ setup[s].staged.bundle.version = VersionOf[sources]
  /\ Reads(s, "verify", [setup[s] EXCEPT !.stage = "activate", !.before = installed,
                                         !.wasTorn = torn])

-----------------------------------------------------------------------------
(* The activation, and the ends of a setup.                                *)

Last(s) == setup[s].position = Len(Files)
Released(s) == lock' = IF lock = s THEN Nobody ELSE lock

Activate(s) ==
  LET f == Files[setup[s].position] IN
  /\ SetupStep(s, "activate", IF Last(s) THEN [setup[s] EXCEPT !.stage = "complete"]
                              ELSE [setup[s] EXCEPT !.position = @ + 1])
  /\ installed' = [installed EXCEPT ![f] = setup[s].staged[f]]
  /\ torn' = ~Last(s)
  /\ UNCHANGED <<build, lock, promised>>

Complete(s) ==
  /\ setup[s].stage = "complete"
  /\ setup' = [setup EXCEPT ![s] = EndedSetup]
  /\ Released(s) /\ damaged' = FALSE
  /\ promised' = IF setup[s].staged.githubRecord.tag > promised
                 THEN setup[s].staged.githubRecord.tag ELSE promised
  /\ UNCHANGED <<worldVars, canonical, build, installed, torn>>

\* A replacement fails: those before it are undone.
Restore(s) ==
  /\ SetupStep(s, "activate", EndedSetup)
  /\ installed' = setup[s].before /\ torn' = setup[s].wasTorn
  /\ Released(s) /\ UNCHANGED <<build, promised>>

\* A check or a command fails, or the process is killed: the kernel releases the lock.
Stops(s) ==
  /\ setup[s].stage \notin {"idle", "ended"}
  /\ SetupStep(s, setup[s].stage, EndedSetup)
  /\ Released(s) /\ UNCHANGED <<build, installed, torn, promised>>

SetupNext(s) ==
  \/ Acquire(s) \/ Refused(s) \/ ResolveRelease(s) \/ Download(s) \/ ReadIdentity(s)
  \/ ReadMetadata(s) \/ CheckBundle(s) \/ CheckWorker(s) \/ CopyBundle(s)
  \/ CopyWorker(s) \/ Verify(s) \/ Activate(s) \/ Complete(s) \/ Restore(s) \/ Stops(s)

InstallationNext ==
  \/ SourcesAreEdited \/ BundleIsBuilt \/ PublishRelease \/ LoseFile
  \/ \E s \in Setups : SetupNext(s)

InstallationSpec == InstallationInit /\ [][InstallationNext]_installationVars

-----------------------------------------------------------------------------
\* Unless an activation was cut off, the record describes the bundle and the worker that are
\* installed, whichever builds ran beside the setup.
InstalledIsOneProduct ==
  ~torn => installed.record = [bundle |-> installed.bundle, worker |-> installed.worker]

\* A record that fits the installed program tells its release, even after a crash in the
\* middle of an activation: this is what a later setup relies on to leave it in place.
RecordCanBeBelieved ==
  installed.githubRecord # NoRecord /\ installed.github = installed.githubRecord.sha
    => installed.github = installed.githubRecord.tag

\* Setups that run at once, or after one another, never leave an older release than one of
\* them has promised, and a complete one makes good whatever was lost.
NothingIsTakenBack ==
  ~torn /\ ~damaged => /\ installed.github >= promised
                       /\ promised # Missing =>
                            installed.githubRecord = [tag |-> installed.github,
                                                      sha |-> installed.github]
InstallationSound == InstalledIsOneProduct /\ RecordCanBeBelieved /\ NothingIsTakenBack
=============================================================================

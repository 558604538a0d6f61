-------------------------- MODULE ApplicationBundle --------------------------
(***************************************************************************)
(* The build of the MCP application bundle by                              *)
(* buildUniversalOntologyMcpApplicationBundle.js.  Several runs of it can  *)
(* go on at once: setups, archive builds, npm pack and a maintainer start  *)
(* it at any time, while the sources are edited.                           *)
(*                                                                         *)
(* Contents are named by what they come from: a runtime worker by the      *)
(* state of the sources, a bundle by that and the version of package.json  *)
(* that was put into it.                                                   *)
(***************************************************************************)
EXTENDS Integers, Sequences

CONSTANTS
  Bundlers,      \* runs of the build
  VersionOf      \* version of package.json in each state of the sources

BundleAssumption == VersionOf \in Seq(Nat \ {0}) /\ VersionOf # <<>>

VARIABLES
  sources,     \* state of the sources
  canonical,   \* the files that builds publish
  build        \* each build

Missing == 0
NoBundle == [code |-> Missing, version |-> Missing]
NoProduct == [bundle |-> NoBundle, worker |-> Missing]
NewBuild == [stage |-> "idle", made |-> NoProduct]

BundleInit ==
  /\ sources = 1
  /\ canonical = [worker |-> Missing, bundle |-> NoBundle, metadata |-> NoProduct]
  /\ build = [r \in Bundlers |-> NewBuild]

EditSources ==
  /\ sources < Len(VersionOf) /\ sources' = sources + 1
  /\ UNCHANGED <<canonical, build>>

-----------------------------------------------------------------------------
(* Everything is made in a directory of its own, then each file replaces   *)
(* the published one, the metadata last.  A build that fails or is killed  *)
(* takes no further step, whatever it has published.  node_bg.wasm, which  *)
(* has the pinned digest or the build fails, is published with the worker  *)
(* and the same in every build; the directory of the build, and entries of *)
(* dist other than these files, which nothing here reads, are removed last.*)

BuildStep(r, from, to) ==
  /\ build[r].stage = from
  /\ build' = [build EXCEPT ![r] = to]
  /\ UNCHANGED sources

BuildBegins(r) ==
  BuildStep(r, "idle", [NewBuild EXCEPT !.stage = "begun"]) /\ UNCHANGED canonical

\* package.json is read before the sources are bundled.
ReadPackage(r) ==
  /\ BuildStep(r, "begun", [build[r] EXCEPT !.stage = "bundling",
                                            !.made.bundle.version = VersionOf[sources]])
  /\ UNCHANGED canonical

BundleApplication(r) ==
  /\ BuildStep(r, "bundling", [build[r] EXCEPT !.stage = "worker",
                                               !.made.bundle.code = sources])
  /\ UNCHANGED canonical

BundleWorker(r) ==
  /\ BuildStep(r, "worker", [build[r] EXCEPT !.stage = "publish worker",
                                             !.made.worker = sources])
  /\ UNCHANGED canonical

PublishWorker(r) ==
  /\ BuildStep(r, "publish worker", [build[r] EXCEPT !.stage = "publish bundle"])
  /\ canonical' = [canonical EXCEPT !.worker = build[r].made.worker]

PublishBundle(r) ==
  /\ BuildStep(r, "publish bundle", [build[r] EXCEPT !.stage = "publish metadata"])
  /\ canonical' = [canonical EXCEPT !.bundle = build[r].made.bundle]

PublishMetadata(r) ==
  /\ BuildStep(r, "publish metadata", [NewBuild EXCEPT !.stage = "built"])
  /\ canonical' = [canonical EXCEPT !.metadata = build[r].made]

BuildNext(r) ==
  \/ ReadPackage(r) \/ BundleApplication(r) \/ BundleWorker(r)
  \/ PublishWorker(r) \/ PublishBundle(r) \/ PublishMetadata(r)
=============================================================================

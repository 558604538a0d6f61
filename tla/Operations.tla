----------------------------- MODULE Operations -----------------------------
(***************************************************************************)
(* The parts that put files in place where others rely on them.  The       *)
(* builds: the full ontologies with their receipt, the query artifacts     *)
(* with their catalog, and the development candidate of the server, which  *)
(* share no file.  And what set_up_mcp_servers.py leaves on a host: the    *)
(* transaction that puts the files in place, beside an editor, and the     *)
(* installation of the servers, beside other setups and builds; the first  *)
(* is the detail of the last step of the second.  And what is configured:  *)
(* the process that is started, and the documents of its hosts.  None      *)
(* shares a variable with another, so a behaviour is any interleaving.     *)
(***************************************************************************)
EXTENDS FullOntologyBuild, QueryArtifactPublication, ReleaseCandidate,
        StdioConfiguration, HostConfigurationMerge

buildsVars == <<fullVars, publicationVars, candidateVars>>

BuildsInit == FullInit /\ PublicationInit /\ CandidateInit
BuildsNext == \/ FullNext /\ UNCHANGED <<publicationVars, candidateVars>>
              \/ PublicationNext /\ UNCHANGED <<fullVars, candidateVars>>
              \/ CandidateNext /\ UNCHANGED <<fullVars, publicationVars>>
BuildsSpec == BuildsInit /\ [][BuildsNext]_buildsVars

\* A receipt describes the files it is there for, what a catalog or a channel refers to is
\* there, and so is what a run of the archive build reports; a candidate that is verified is
\* one product: see FullOntologyBuild, QueryArtifactPublication and ReleaseCandidate.
BuildsSafe == ReceiptIsTrue /\ PublishedIsComplete /\ CandidateIsTrue

-----------------------------------------------------------------------------
CONSTANTS
  Destinations,           \* of a transaction, in the order of their replacement
  Guarded, Before, MaxEdits,
  Setups,
  BundleBuilds,           \* builds of the bundle other than those of setups
  PackageVersions,        \* version of package.json in each state of the sources
  MaxInstallationEvents   \* bound: edits, releases and losses in all

VARIABLES live, observed, aside, prepared, activated, position, stage, kept, conflicts,
          edits, superseded, unseen, abandoned
setUpVars == <<live, observed, aside, prepared, activated, position, stage, kept,
               conflicts, edits, superseded, unseen, abandoned>>
SetUp == INSTANCE SetUpTransaction WITH Targets <- Destinations

VARIABLES sources, latest, canonical, build, lock, setup, installed, damages, torn, damaged,
          promised
installationVars == <<sources, latest, canonical, build, lock, setup, installed, damages,
                      torn, damaged, promised>>
Installation == INSTANCE ServerInstallation
                  WITH Builds <- BundleBuilds, VersionOf <- PackageVersions,
                       MaxEvents <- MaxInstallationEvents

ASSUME HostSetUpAssumption ==
  SetUp!TargetsAssumption /\ Installation!InstallationAssumption

HostSetUpInit == SetUp!SetUpInit /\ Installation!InstallationInit
HostSetUpNext == \/ SetUp!SetUpNext /\ UNCHANGED installationVars
                 \/ Installation!InstallationNext /\ UNCHANGED setUpVars
HostSetUpSpec == HostSetUpInit /\ [][HostSetUpNext]_<<setUpVars, installationVars>>

\* The setup changes all files or none and keeps the edits of others, and what it installs
\* beside others is what its records say: see SetUpTransaction and ServerInstallation.
HostSetUpSafe == SetUp!SetUpTransactional /\ Installation!InstallationSound

-----------------------------------------------------------------------------
ConfigurationsInit == ConfigurationInit /\ MergeInit
ConfigurationsNext == \/ ConfigurationNext /\ UNCHANGED mergeVars
                      \/ MergeNext /\ UNCHANGED configurationVars
ConfigurationsSpec ==
  ConfigurationsInit /\ [][ConfigurationsNext]_<<configurationVars, mergeVars>>

\* No setting is ignored in silence, and what the setup makes of a host's document keeps what
\* is the user's: see StdioConfiguration and HostConfigurationMerge.
ConfigurationsAreFaithful == NoSettingIgnored /\ MergeFaithful
=============================================================================

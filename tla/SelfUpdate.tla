----------------------------- MODULE SelfUpdate -----------------------------
(***************************************************************************)
(* `dafs self-update` (main.rs `self_update`) and the script it runs          *)
(* (scripts/install.sh): ask for the latest release, fetch its tarball and its *)
(* checksum, and put the binary in place of the installed one. Several users   *)
(* or timers may do so at once, releases are made and made again meanwhile,    *)
(* downloads come garbled or not at all, disks are full, and any of the         *)
(* processes may be killed.                                                  *)
(***************************************************************************)
EXTENDS Naturals, Sequences

CONSTANTS
  Updaters,       (* processes that update one binary                       *)
  Garbled,        (* what a download may be instead of the asset             *)
  MaxReleases,    (* bound: versions                                        *)
  MaxBuilds       (* bound: builds, of all versions                         *)

ASSUME UpdateAssumption ==
  {MaxReleases, MaxBuilds} \subseteq Nat \ {0}

VARIABLES
  releases,       (* of each version the builds of its two assets, 0 for none *)
  builds,
  target,         (* the installed binary: of which release and build, and    *)
                  (* whether all of it is there                             *)
  update          (* of each process: where it is, its options, the release    *)
                  (* it has asked for, its files, and what it exited with     *)

updateVars == <<releases, builds, target, update>>

Builds == 0 .. MaxBuilds

(* A release is named by its tag, and the package version is in no tag: tags    *)
(* begin with a v.                                                          *)
Tag(version) == [prefix |-> "v", version |-> version]
CurrentVersion(version) == [prefix |-> "", version |-> version]

UpdateInit ==
  /\ releases = <<[tarball |-> 1, checksum |-> 1]>>
  /\ builds = 1
  /\ target = [version |-> 1, build |-> 1, whole |-> TRUE]
  /\ update = [u \in Updaters |->
                 [pc |-> "idle", checkOnly |-> FALSE, current |-> 1, version |-> 0,
                  tarball |-> 0, checksum |-> 0, staged |-> "none", exit |-> "none"]]

ReleaseState == [tarball : Builds, checksum : Builds]

ScriptState ==
  [pc : {"idle", "resolve", "tarball", "checksum", "verify", "stage", "replace", "exited"},
   checkOnly : BOOLEAN, current : 1 .. MaxReleases, version : 0 .. MaxReleases,
   tarball : Builds \cup {Garbled}, checksum : Builds \cup {Garbled},
   staged : {"none", "part", "whole"}, exit : {"none", "0", "1", "3"}]

UpdateTypeOK ==
  /\ Len(releases) \in 1 .. MaxReleases
  /\ releases \in Seq(ReleaseState)
  /\ builds \in Builds
  /\ target \in [version : 1 .. MaxReleases, build : Builds \cup {Garbled}, whole : BOOLEAN]
  /\ update \in [Updaters -> ScriptState]

-----------------------------------------------------------------------------
(* The releases. One that is made again has its assets replaced one by one.    *)
Release ==
  /\ Len(releases) < MaxReleases
  /\ releases' = Append(releases, [tarball |-> 0, checksum |-> 0])
  /\ UNCHANGED <<builds, target, update>>

UploadTarball ==
  /\ builds < MaxBuilds
  /\ builds' = builds + 1
  /\ \E v \in DOMAIN releases : releases' = [releases EXCEPT ![v].tarball = builds + 1]
  /\ UNCHANGED <<target, update>>

UploadChecksum ==
  /\ \E v \in DOMAIN releases : releases' = [releases EXCEPT ![v].checksum = releases[v].tarball]
  /\ UNCHANGED <<builds, target, update>>

-----------------------------------------------------------------------------
(* self_update: it knows its own version, and runs the script.               *)
RunScript(u) ==
  /\ update[u].pc = "idle"
  /\ target.whole
  /\ \E checkOnly \in BOOLEAN :
       update' = [update EXCEPT ![u].pc = "resolve", ![u].checkOnly = checkOnly,
                                ![u].current = target.version]
  /\ UNCHANGED <<releases, builds, target>>

(* The status of the script is that of self_update, where 3 stands for an       *)
(* update only if that was the question.                                     *)
ScriptEnds(u, status) ==
  update' = [update EXCEPT ![u].pc = "exited",
    ![u].exit = IF status = "3" /\ ~update[u].checkOnly THEN "1" ELSE status]

(* No answer, or none that names a release.                                  *)
ResolveLatest(u) ==
  /\ update[u].pc = "resolve"
  /\ \/ ScriptEnds(u, "1")
     \/ /\ ~update[u].checkOnly
        /\ update' = [update EXCEPT ![u].pc = "tarball", ![u].version = Len(releases)]
  /\ UNCHANGED <<releases, builds, target>>

CheckOnly(u) ==
  /\ update[u].pc = "resolve" /\ update[u].checkOnly
  /\ ScriptEnds(u, IF CurrentVersion(update[u].current) = Tag(Len(releases)) THEN "0" ELSE "3")
  /\ UNCHANGED <<releases, builds, target>>

(* curl, of one asset then the other: set -e ends the script when it fails.    *)
Fetch(u, asset, next) ==
  /\ update[u].pc = asset
  /\ \/ ScriptEnds(u, "1")
     \/ \E got \in {releases[update[u].version][asset], Garbled} \ {0} :
          update' = [update EXCEPT ![u].pc = next, ![u][asset] = got]
  /\ UNCHANGED <<releases, builds, target>>

(* sha256sum -c, and only then tar. The checksum of something else never is     *)
(* that of a garbled tarball.                                                *)
Verify(u) ==
  /\ update[u].pc = "verify"
  /\ IF update[u].tarball = update[u].checksum /\ update[u].tarball # Garbled
     THEN update' = [update EXCEPT ![u].pc = "stage"] ELSE ScriptEnds(u, "1")
  /\ UNCHANGED <<releases, builds, target>>

(* A mistaken variant of Stage, used only by the mutation runs: the binary is   *)
(* copied over the installed one.                                            *)
StageInPlace(u) ==
  /\ update[u].pc = "stage"
  /\ target' = [version |-> update[u].version, build |-> update[u].tarball,
                whole |-> update[u].staged = "part"]
  /\ update' = [update EXCEPT ![u].staged = IF @ = "none" THEN "part" ELSE "whole",
                              ![u].pc = IF update[u].staged = "none" THEN @ ELSE "replace"]
  /\ UNCHANGED <<releases, builds>>

(* cp, which takes a while, under a name of this process next to the target.    *)
Stage(u) ==
  /\ update[u].pc = "stage"
  /\ \/ update' = [update EXCEPT ![u].staged = IF @ = "none" THEN "part" ELSE "whole",
                                 ![u].pc = IF update[u].staged = "none" THEN @ ELSE "replace"]
     \/ ScriptEnds(u, "1")
  /\ UNCHANGED <<releases, builds, target>>

(* mv                                                                       *)
Replace(u) ==
  /\ update[u].pc = "replace"
  /\ target' = [version |-> update[u].version, build |-> update[u].tarball,
                whole |-> update[u].staged = "whole"]
  /\ ScriptEnds(u, "0")
  /\ UNCHANGED <<releases, builds>>

(* A kill, wherever it is; what it has staged stays there.                    *)
KillScript(u) ==
  /\ update[u].pc \notin {"idle", "exited"}
  /\ update' = [update EXCEPT ![u].pc = "exited", ![u].exit = "1"]
  /\ UNCHANGED <<releases, builds, target>>

UpdateNext ==
  \/ Release \/ UploadTarball \/ UploadChecksum
  \/ \E u \in Updaters :
       \/ RunScript(u) \/ ResolveLatest(u) \/ CheckOnly(u)
       \/ Fetch(u, "tarball", "checksum") \/ Fetch(u, "checksum", "verify")
       \/ Verify(u) \/ Stage(u) \/ Replace(u) \/ KillScript(u)

UpdateSpec == UpdateInit /\ [][UpdateNext]_updateVars

-----------------------------------------------------------------------------
(* Whatever is fetched while a release is made or made again, and wherever one  *)
(* of several updates ends, what is installed is whole and a build that its     *)
(* checksum is of (install.sh 123).                                          *)
InstalledWhole == target.whole /\ target.build \in 1 .. builds

UpdateSound == UpdateTypeOK /\ InstalledWhole
=============================================================================

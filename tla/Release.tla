-------------------------------- MODULE Release --------------------------------
(***************************************************************************)
(* The release scripts: build-riqor-package.ts, which both archives run    *)
(* before they pack the package (riqor:pack, build-homebrew-archive.ts),   *)
(* create-release-manifest.ts and verify-release-artifacts.ts.  One script *)
(* runs at a time, may fail or be killed at any step, and works on a       *)
(* source tree that may be edited meanwhile.                               *)
(*                                                                         *)
(* A content is the number of the tree it was made from, and stands for    *)
(* its digest; the runtime's files are one of each step that makes them.   *)
(* Sizes, media types, versions and times are left out.                    *)
(* Bounds: MaxTree edits of the tree, MaxScripts scripts.                  *)
(***************************************************************************)
EXTENDS Naturals, FiniteSets

CONSTANTS
  Gone,
  MaxTree,    \* bound: edits
  MaxScripts  \* bound: scripts that are run

VARIABLES
  tree,       \* the source files
  head,       \* what HEAD holds
  pkg,        \* packages/riqor: dist/cli.mjs, runtime/ and its provenance.json
  artifact,   \* dist/: the archives, each a package
  releaseManifest, \* dist/release-manifest.json
  sums,       \* dist/SHA256SUMS
  script,     \* the script that runs: its name, its step and what it has read
  scripts,    \* how many have begun
  verified,   \* the last report of verify-release-artifacts.ts said ok, and nothing has changed since
  mixed,      \* history: an edit or commit since the package was last reset
  fresh,      \* history: the archives that were built since the last edit or commit
  torn        \* history: release:manifest was ended between its two files

relHistory == <<mixed, fresh, torn>>
relVars == <<tree, head, pkg, artifact, releaseManifest, sums, script, scripts, verified, relHistory>>

RuntimeFiles == {"hooks/main.mjs", "static", "hooks/hooks.json"}
Archives == {"tgz", "homebrew"}

NoRuntime == [f \in RuntimeFiles |-> Gone]
Provenances == [sourceCommit : Nat, files : [RuntimeFiles -> Nat \cup {Gone}]]

ASSUME ReleaseAssumption ==
  /\ MaxTree \in Nat /\ MaxScripts \in Nat
  /\ Gone \notin Nat \cup Provenances

NoPackage == [cli |-> Gone, runtime |-> NoRuntime, provenance |-> Gone]
NoScript == [name |-> "none", step |-> "none", commit |-> 0, read |-> Gone, clean |-> TRUE]

RelInit ==
  /\ tree = 1 /\ head = 1
  /\ pkg = NoPackage
  /\ artifact = [a \in Archives |-> Gone] /\ releaseManifest = Gone /\ sums = Gone
  /\ script = NoScript /\ scripts = 0
  /\ verified = FALSE /\ mixed = FALSE /\ fresh = {} /\ torn = FALSE

InScript(name, step) == script.name = name /\ script.step = step
Building == script.name \in Archives
Goes(step) == script' = [script EXCEPT !.step = step]

BeginScript(name, step) ==
  /\ script = NoScript /\ scripts < MaxScripts
  /\ scripts' = scripts + 1
  /\ script' = [NoScript EXCEPT !.name = name, !.step = step, !.commit = head]

\* buildRiqorPackage: the commit is asked for before anything is read.
BeginBuild(archive) ==
  /\ BeginScript(archive, "dist")
  /\ verified' = FALSE
  /\ UNCHANGED <<tree, head, pkg, artifact, releaseManifest, sums, relHistory>>

\* What a step of the build leaves alone.
RestOfRelease == UNCHANGED <<tree, head, artifact, releaseManifest, sums, scripts, verified>>
OnlyPackage == RestOfRelease /\ UNCHANGED relHistory

ResetDist ==
  /\ Building /\ script.step = "dist"
  /\ pkg' = [pkg EXCEPT !.cli = Gone] /\ Goes("runtime")
  /\ mixed' = FALSE /\ RestOfRelease /\ UNCHANGED <<fresh, torn>>

\* Mutant: the runtime of the last build is written over.
MutResetRuntime ==
  /\ Building /\ script.step = "runtime"
  /\ Goes("cli") /\ UNCHANGED pkg /\ OnlyPackage

ResetRuntime ==
  /\ Building /\ script.step = "runtime"
  /\ pkg' = [pkg EXCEPT !.runtime = NoRuntime, !.provenance = Gone] /\ Goes("cli") /\ OnlyPackage

BuildCli ==
  /\ Building /\ script.step = "cli"
  /\ pkg' = [pkg EXCEPT !.cli = tree] /\ Goes("hooks/main.mjs") /\ OnlyPackage

Make(file, next) ==
  /\ Building /\ script.step = file
  /\ pkg' = [pkg EXCEPT !.runtime[file] = tree] /\ Goes(next) /\ OnlyPackage

BuildHook == Make("hooks/main.mjs", "static")
CopyStatic == Make("static", "hooks/hooks.json")
WriteHooks == Make("hooks/hooks.json", "collect")

CollectFiles ==
  /\ Building /\ script.step = "collect"
  /\ script' = [script EXCEPT !.step = "provenance", !.read = pkg.runtime]
  /\ UNCHANGED pkg /\ OnlyPackage

WriteProvenance ==
  /\ Building /\ script.step = "provenance"
  /\ pkg' = [pkg EXCEPT !.provenance = [sourceCommit |-> script.commit, files |-> script.read]]
  /\ Goes("pack") /\ OnlyPackage

\* The archive is removed and made of the package, by tar or by bun pm pack, whose
\* file is then moved to dist/.
Pack ==
  /\ Building /\ script.step = "pack"
  /\ artifact' = [artifact EXCEPT ![script.name] = pkg]
  /\ fresh' = IF script.clean THEN fresh \cup {script.name} ELSE fresh
  /\ script' = NoScript
  /\ UNCHANGED <<tree, head, pkg, releaseManifest, sums, scripts, verified, mixed, torn>>

\* createReleaseManifest: the archives are read one after the other, and it gives
\* up at one that is not there.
BeginManifest ==
  /\ BeginScript("manifest", "read") /\ verified' = FALSE
  /\ UNCHANGED <<tree, head, pkg, artifact, releaseManifest, sums, relHistory>>

ReadArtifacts ==
  /\ InScript("manifest", "read")
  /\ script' = IF Gone \in {artifact[a] : a \in Archives} THEN NoScript
               ELSE [script EXCEPT !.step = "manifest", !.read = artifact]
  /\ UNCHANGED pkg /\ OnlyPackage

WriteManifestFile ==
  /\ InScript("manifest", "manifest") /\ releaseManifest' = script.read /\ Goes("sums")
  /\ UNCHANGED <<tree, head, pkg, artifact, sums, scripts, verified, relHistory>>

WriteSums ==
  /\ InScript("manifest", "sums") /\ sums' = script.read /\ script' = NoScript /\ torn' = FALSE
  /\ UNCHANGED <<tree, head, pkg, artifact, releaseManifest, scripts, verified, mixed, fresh>>

\* verifyReleaseArtifacts: reads the manifest, then each archive it lists.
BeginVerify ==
  /\ BeginScript("verify", "manifest") /\ verified' = FALSE
  /\ UNCHANGED <<tree, head, pkg, artifact, releaseManifest, sums, relHistory>>

VerifyArtifacts ==
  /\ InScript("verify", "manifest")
  /\ verified' = (releaseManifest # Gone /\ artifact = releaseManifest)
  /\ script' = NoScript
  /\ UNCHANGED <<tree, head, pkg, artifact, releaseManifest, sums, scripts, relHistory>>

\* A script fails or is killed; rm -r has removed any part of the runtime by then, and
\* packing has removed the archive.
ScriptEnds ==
  /\ script # NoScript /\ script' = NoScript
  /\ torn' = (torn \/ InScript("manifest", "sums"))
  /\ IF Building /\ script.step = "runtime"
       THEN \E gone \in SUBSET RuntimeFiles, keeps \in BOOLEAN :
              pkg' = [pkg EXCEPT !.runtime = [f \in RuntimeFiles |-> IF f \in gone THEN Gone ELSE @[f]],
                                 !.provenance = IF keeps THEN @ ELSE Gone]
       ELSE UNCHANGED pkg
  /\ artifact' = IF Building /\ script.step = "pack" THEN [artifact EXCEPT ![script.name] = Gone] ELSE artifact
  /\ UNCHANGED <<tree, head, releaseManifest, sums, scripts, verified, mixed, fresh>>

\* Somebody edits the tree, or commits it.
Edited ==
  /\ mixed' = TRUE /\ fresh' = {}
  /\ script' = IF script = NoScript THEN script ELSE [script EXCEPT !.clean = FALSE]
  /\ UNCHANGED <<pkg, artifact, releaseManifest, sums, scripts, verified, torn>>
EditTree == tree < MaxTree /\ tree' = tree + 1 /\ Edited /\ UNCHANGED head
CommitTree == head # tree /\ head' = tree /\ Edited /\ UNCHANGED tree

RelNext ==
  \/ \E a \in Archives : BeginBuild(a)
  \/ ResetDist \/ ResetRuntime \/ BuildCli \/ BuildHook \/ CopyStatic \/ WriteHooks
  \/ CollectFiles \/ WriteProvenance \/ Pack
  \/ BeginManifest \/ ReadArtifacts \/ WriteManifestFile \/ WriteSums
  \/ BeginVerify \/ VerifyArtifacts
  \/ ScriptEnds \/ EditTree \/ CommitTree

RelSpec == RelInit /\ [][RelNext]_relVars
-----------------------------------------------------------------------------
\* verifyPayloadProvenance: every file is listed with its digest, and no other.
PayloadOk(package) == package.provenance # Gone /\ package.provenance.files = package.runtime

\* All of one tree.
Whole(package) == \A f \in RuntimeFiles : package.runtime[f] = package.cli

\* Wherever a script ends, a payload that its provenance accepts is complete, and of
\* the same build as dist/cli.mjs, which the provenance does not list, if that is
\* there; no older provenance fits what an unfinished build has left.  And when
\* release:verify is content, with no edit or commit since the archives were begun,
\* both hold the same complete package, made of the tree as it is, and SHA256SUMS
\* agrees, although each has been built anew.  They name HEAD: that is what they
\* hold where the tree has no edit that is not committed, which the build does not
\* ask.
ReleaseIsWhole ==
  /\ PayloadOk(pkg) /\ ~mixed =>
       /\ Gone \notin {pkg.runtime[f] : f \in RuntimeFiles}
       /\ pkg.cli # Gone => Whole(pkg)
  /\ verified /\ fresh = Archives =>
       /\ \A a \in Archives : /\ PayloadOk(artifact[a]) /\ Whole(artifact[a])
                            /\ artifact[a].cli = tree /\ artifact[a].provenance.sourceCommit = head
       /\ artifact["tgz"] = artifact["homebrew"]
       /\ releaseManifest = artifact /\ (~torn => sums = releaseManifest)
=============================================================================

----------------------------- MODULE ToolsProofs -----------------------------
(***************************************************************************)
(* Theorems about the tools beside the harness: the heartbeat file of a    *)
(* session, the release scripts, the installer, the classes that watch an  *)
(* agent, the benchmark, and the publication of its evidence.              *)
(***************************************************************************)
EXTENDS Heartbeats, Release, Installer, Watchers, Benchmark, Publication, FiniteSetTheorems, SequenceTheorems, TLAPS

-----------------------------------------------------------------------------
(***************************************************************************)
(* Heartbeats.  While hit is empty, what is on file is what the session    *)
(* has recorded, or nothing after its time, and a lister that is about to  *)
(* remove the path has found a heartbeat that is too old.                  *)
(***************************************************************************)
BeatTypeOK ==
  /\ beatClock \in Nat
  /\ beatFile \in Nat \cup {NoBeat, Torn}
  /\ beater \in [step : {"idle", "fill"}, at : Nat, linked : BOOLEAN]
  /\ lister \in [Listers -> [step : {"idle", "read", "remove"}, now : Nat, read : Nat \cup {NoBeat, Torn}]]
  /\ beatAt \in Nat \cup {NoBeat}
  /\ hit \subseteq {"late", "killed", "torn"}
  /\ \A l \in Listers : lister[l].now <= beatClock

Removing == \E l \in Listers : lister[l].step = "remove"

Outlived == beatClock > beatAt + ttlMs

BeatFileInv ==
  hit = {} =>
    /\ beater.step = "fill" => beater.linked /\ beatFile = Torn /\ ~Removing
    /\ beater.step = "idle" /\ beatAt = NoBeat => beatFile = NoBeat
    /\ beater.step = "idle" /\ beatAt # NoBeat =>
         /\ beatFile = beatAt \/ (beatFile = NoBeat /\ Outlived)
         /\ Removing => Outlived

BeatInv == BeatTypeOK /\ BeatFileInv

\* Types and times survive every step.
LEMMA BeatTypesKept == ASSUME BeatTypeOK, [BeatNext]_beatVars PROVE BeatTypeOK'
<1> USE BeatAssumption DEF BeatTypeOK
<1>1. CASE OpenBeat
  BY <1>1 DEF OpenBeat
<1>2. CASE FillBeat
  BY <1>2 DEF FillBeat, Resting
<1>3. CASE KillBeat
  BY <1>3 DEF KillBeat, Resting
<1>4. CASE BeatTick
  BY <1>4 DEF BeatTick
<1> DEFINE Walks == [step : {"idle", "read", "remove"}, now : Nat, read : Nat \cup {NoBeat, Torn}]
<1>a. ASSUME NEW l \in Listers, NEW x \in Walks, x.now <= beatClock, lister' = [lister EXCEPT ![l] = x],
             beatClock' = beatClock
      PROVE  lister' \in [Listers -> Walks] /\ \A m \in Listers : lister'[m].now <= beatClock'
  <2>1. lister' \in [Listers -> Walks]
    BY <1>a
  <2>2. ASSUME NEW m \in Listers PROVE lister'[m].now <= beatClock'
    BY <1>a
  <2> QED BY <2>1, <2>2
<1>b. Away \in Walks /\ Away.now <= beatClock
  BY DEF Away
<1>5. ASSUME NEW l \in Listers, BeginList(l) PROVE BeatTypeOK'
  <2> DEFINE x == [step |-> "read", now |-> beatClock, read |-> NoBeat]
  <2>1. x \in Walks /\ x.now <= beatClock
    OBVIOUS
  <2>2. lister' = [lister EXCEPT ![l] = x] /\ beatClock' = beatClock
    BY <1>5 DEF BeginList
  <2> HIDE DEF x
  <2>3. lister' \in [Listers -> Walks] /\ \A m \in Listers : lister'[m].now <= beatClock'
    BY <1>a, <2>1, <2>2
  <2> QED BY <1>5, <2>3 DEF BeginList
<1>6. ASSUME NEW l \in Listers, ReadBeat(l) PROVE BeatTypeOK'
  <2> DEFINE x == [lister[l] EXCEPT !.step = "remove", !.read = beatFile]
  <2>1. x \in Walks /\ x.now <= beatClock
    OBVIOUS
  <2>2. lister' = [lister EXCEPT ![l] = x] \/ lister' = [lister EXCEPT ![l] = Away]
    BY <1>6 DEF ReadBeat
  <2>3. beatClock' = beatClock
    BY <1>6 DEF ReadBeat
  <2> HIDE DEF x
  <2>4. lister' \in [Listers -> Walks] /\ \A m \in Listers : lister'[m].now <= beatClock'
    BY <1>a, <1>b, <2>1, <2>2, <2>3
  <2> QED BY <1>6, <2>4 DEF ReadBeat
<1>7. ASSUME NEW l \in Listers, RemoveBeat(l) PROVE BeatTypeOK'
  <2>1. lister' \in [Listers -> Walks] /\ \A m \in Listers : lister'[m].now <= beatClock'
    BY <1>7, <1>a, <1>b DEF RemoveBeat
  <2> QED BY <1>7, <2>1 DEF RemoveBeat
<1>8. CASE UNCHANGED beatVars
  BY <1>8 DEF beatVars
<1> QED BY <1>1, <1>2, <1>3, <1>4, <1>5, <1>6, <1>7, <1>8 DEF BeatNext

\* A lister that finds no file, or an old heartbeat, finds it after its time.
LEMMA ReadOutlived ==
  ASSUME BeatInv, NEW l \in Listers, ReadBeat(l), hit = {}, beater.step = "idle", beatAt # NoBeat,
         Expired(lister[l].now, beatFile)
  PROVE  Outlived
<1> USE BeatAssumption DEF BeatInv, BeatTypeOK, BeatFileInv
<1>1. CASE beatFile = beatAt
  <2>1. beatAt \in Nat /\ lister[l].now \in Nat /\ lister[l].now <= beatClock /\ lister[l].now > beatAt + ttlMs
    BY <1>1 DEF Expired
  <2> QED BY <2>1 DEF Outlived
<1>2. CASE beatFile # beatAt
  BY <1>2
<1> QED BY <1>1, <1>2

\* What is on file between two heartbeats survives every step that leaves hit
\* empty; a heartbeat that is written by itself establishes it anew.
LEMMA BeatFileKept == ASSUME BeatInv, [BeatNext]_beatVars PROVE BeatFileInv'
<1> USE BeatAssumption DEF BeatInv, BeatTypeOK
<1>1. CASE OpenBeat
  <2>1. hit' = {} => hit = {} /\ ~Removing
    BY <1>1 DEF OpenBeat, Removing
  <2> QED BY <1>1, <2>1 DEF OpenBeat, BeatFileInv, Removing
<1>2. CASE FillBeat
  <2> SUFFICES ASSUME hit' = {} PROVE BeatFileInv'
    BY DEF BeatFileInv
  <2>1. beater.linked /\ ~Removing
    BY <1>2 DEF FillBeat, BeatFileInv, Removing
  <2>2. beatFile' = beatAt' /\ beatAt' \in Nat /\ beater'.step = "idle" /\ ~Removing'
    BY <1>2, <2>1 DEF FillBeat, Resting, Removing
  <2> QED BY <2>2 DEF BeatFileInv
<1>3. CASE KillBeat
  BY <1>3 DEF KillBeat, BeatFileInv
<1>4. CASE BeatTick
  <2>1. beatAt \in Nat /\ Outlived => Outlived'
    BY <1>4 DEF BeatTick, Outlived
  <2>2. Removing' <=> Removing
    BY <1>4 DEF BeatTick, Removing
  <2> QED BY <1>4, <2>1, <2>2 DEF BeatTick, BeatFileInv
<1>5. ASSUME NEW l \in Listers, BeginList(l) PROVE BeatFileInv'
  <2>1. Removing' => Removing
    BY <1>5 DEF BeginList, Removing, Away
  <2>2. Outlived' = Outlived
    BY <1>5 DEF BeginList, Outlived
  <2> QED BY <1>5, <2>1, <2>2 DEF BeginList, BeatFileInv
<1>6. ASSUME NEW l \in Listers, ReadBeat(l) PROVE BeatFileInv'
  <2> SUFFICES ASSUME hit' = {} PROVE BeatFileInv'
    BY DEF BeatFileInv
  <2>1. hit = {} /\ beater.step = "idle"
    BY <1>6 DEF ReadBeat, BeatFileInv
  <2>2. Removing' => Removing \/ Expired(lister[l].now, beatFile)
    BY <1>6 DEF ReadBeat, Removing, Away
  <2>3. Outlived' = Outlived /\ beater' = beater /\ beatAt' = beatAt /\ beatFile' = beatFile
    BY <1>6 DEF ReadBeat, Outlived
  <2>4. beatAt # NoBeat /\ Removing' => Outlived
    BY <1>6, <2>1, <2>2, ReadOutlived DEF BeatFileInv
  <2> QED BY <2>1, <2>3, <2>4 DEF BeatFileInv
<1>7. ASSUME NEW l \in Listers, RemoveBeat(l) PROVE BeatFileInv'
  <2> SUFFICES ASSUME hit' = {} PROVE BeatFileInv'
    BY DEF BeatFileInv
  <2>1. hit = {} /\ Removing
    BY <1>7 DEF RemoveBeat, Removing
  <2>2. beater.step = "idle" /\ beater'.step = "idle" /\ (beatAt # NoBeat => Outlived)
    BY <1>7, <2>1 DEF RemoveBeat, BeatFileInv
  <2>3. Outlived' = Outlived /\ beatAt' = beatAt /\ beatFile' = NoBeat
    BY <1>7 DEF RemoveBeat, Outlived
  <2> QED BY <2>2, <2>3 DEF BeatFileInv
<1>8. CASE UNCHANGED beatVars
  BY <1>8 DEF beatVars, BeatFileInv, Removing, Outlived
<1> QED BY <1>1, <1>2, <1>3, <1>4, <1>5, <1>6, <1>7, <1>8 DEF BeatNext

\* All of it together.
THEOREM BeatInvariance == BeatSpec => []BeatInv
<1>1. BeatInit => BeatInv
  BY BeatAssumption DEF BeatInit, BeatInv, BeatTypeOK, BeatFileInv, Resting, Away, Removing, Outlived
<1>2. BeatInv /\ [BeatNext]_beatVars => BeatInv'
  BY BeatTypesKept, BeatFileKept DEF BeatInv
<1> QED BY <1>1, <1>2, PTL DEF BeatSpec

\* Between two heartbeats a session that has sent one within its lifetime is on
\* file with its last one, whoever lists the sessions meanwhile, as long as no
\* lister has seen the file empty, none has removed an old one while the session
\* wrote, and the session was not killed while it wrote.
THEOREM BeatsAreListed == BeatSpec => []FreshIsListed
<1>1. BeatInv => FreshIsListed
  <2> SUFFICES ASSUME BeatInv, hit = {}, beater.step = "idle", beatAt # NoBeat, beatClock <= beatAt + ttlMs
               PROVE  beatFile = beatAt
    BY DEF FreshIsListed
  <2>1. ~Outlived
    BY BeatAssumption DEF Outlived, BeatInv, BeatTypeOK
  <2> QED BY <2>1 DEF BeatInv, BeatFileInv
<1> QED BY <1>1, BeatInvariance, PTL

-----------------------------------------------------------------------------
(***************************************************************************)
(* Release.  Facts of the package hold from step to step of a build, some  *)
(* of them only as long as nobody edits the tree.                          *)
(***************************************************************************)
Contents == Nat \cup {Gone}
Runtimes == [RuntimeFiles -> Contents]
Packages == [cli : Contents, runtime : Runtimes, provenance : Provenances \cup {Gone}]
Listings == [Archives -> Packages \ {Gone}]

\* The steps of a build, from each one on.
FromProvenance == {"provenance", "pack"}
FromCollect == {"collect"} \cup FromProvenance
FromHooks == {"hooks/hooks.json"} \cup FromCollect
FromStatic == {"static"} \cup FromHooks
FromMain == {"hooks/main.mjs"} \cup FromStatic
FromCli == {"cli"} \cup FromMain
FromRuntime == {"runtime"} \cup FromCli
FromDist == {"dist"} \cup FromRuntime

\* The build has made this file of the runtime.
HasMade(f) == \/ f = "hooks/main.mjs" /\ script.step \in FromStatic
              \/ f = "static" /\ script.step \in FromHooks
              \/ f = "hooks/hooks.json" /\ script.step \in FromCollect

RelTypeOK ==
  /\ tree \in Nat /\ head \in Nat /\ pkg \in Packages
  /\ artifact \in [Archives -> Packages \cup {Gone}]
  /\ releaseManifest \in Listings \cup {Gone} /\ sums \in Listings \cup {Gone}
  /\ script \in [name : {"none", "manifest", "verify"} \cup Archives,
                 step : {"none", "read", "manifest", "sums"} \cup FromDist,
                 commit : Nat, read : Runtimes \cup Listings \cup {Gone}, clean : BOOLEAN]
  /\ verified \in BOOLEAN /\ mixed \in BOOLEAN /\ torn \in BOOLEAN /\ fresh \subseteq Archives
  /\ script.name = "none" => script = NoScript
  /\ Building => script.step \in FromDist

\* What is in the package of a build at each of its steps.
BuildInv ==
  Building =>
    /\ script.step = "runtime" => pkg.cli = Gone
    /\ script.step \in FromCli \ {"pack"} => pkg.provenance = Gone
    /\ \A f \in RuntimeFiles : HasMade(f) => pkg.runtime[f] # Gone /\ (~mixed => pkg.runtime[f] = tree)
    /\ ~mixed /\ script.step \in FromMain => pkg.cli = tree
    /\ script.step = "provenance" => script.read = pkg.runtime
    /\ script.step = "pack" => pkg.provenance = [sourceCommit |-> script.commit, files |-> pkg.runtime]
    /\ script.clean => script.commit = head /\ (script.step # "dist" => ~mixed)

\* A package between builds: its provenance is that of a complete runtime, and a
\* runtime that fits it is of one build with the command line, if that is there.
PackageInv ==
  /\ pkg.provenance # Gone => \A f \in RuntimeFiles : pkg.provenance.files[f] # Gone
  /\ PayloadOk(pkg) /\ ~mixed /\ pkg.cli # Gone => Whole(pkg)

\* The package that a build makes of the tree as it is.
TheBuild ==
  [cli |-> tree, runtime |-> [f \in RuntimeFiles |-> tree],
   provenance |-> [sourceCommit |-> head, files |-> [f \in RuntimeFiles |-> tree]]]

ArchiveInv ==
  /\ \A a \in fresh : artifact[a] \in {TheBuild, Gone}
  /\ ~script.clean => fresh = {}

ManifestInv ==
  /\ verified => script.name = "none" /\ releaseManifest # Gone /\ artifact = releaseManifest
  /\ script.name = "manifest" /\ script.step \in {"manifest", "sums"} => script.read \in Listings
  /\ InScript("manifest", "sums") => releaseManifest = script.read
  /\ ~torn /\ ~InScript("manifest", "sums") => sums = releaseManifest

RelInv == RelTypeOK /\ BuildInv /\ PackageInv /\ ArchiveInv /\ ManifestInv

\* Types survive every step.
LEMMA RelTypesKept == ASSUME RelInv, [RelNext]_relVars PROVE RelTypeOK'
<1> USE ReleaseAssumption DEF RelInv, RelTypeOK, Building
<1> DEFINE ScriptType == [name : {"none", "manifest", "verify"} \cup Archives,
                 step : {"none", "read", "manifest", "sums"} \cup FromDist,
                 commit : Nat, read : Runtimes \cup Listings \cup {Gone}, clean : BOOLEAN]
<1>n. NoScript \in ScriptType /\ NoScript.name = "none"
  BY DEF NoScript
<1>1. ASSUME NEW a \in Archives, BeginBuild(a) PROVE RelTypeOK'
  BY <1>1 DEF BeginBuild, BeginScript, relHistory, NoScript, FromDist, Archives
<1>2. CASE ResetDist
  BY <1>2 DEF ResetDist, RestOfRelease, Goes, Packages, Contents, FromDist, FromRuntime, Archives
<1>3. CASE ResetRuntime
  <2>1. NoRuntime \in Runtimes
    BY DEF NoRuntime, Runtimes, Contents
  <2> QED BY <1>3, <2>1 DEF ResetRuntime, OnlyPackage, RestOfRelease, relHistory, Goes, Packages, FromDist, FromRuntime, FromCli, Archives
<1>4. CASE BuildCli
  BY <1>4 DEF BuildCli, OnlyPackage, RestOfRelease, relHistory, Goes, Packages, Contents, FromDist, FromRuntime, FromCli, FromMain, Archives
<1>5. ASSUME NEW f \in RuntimeFiles, NEW next \in FromStatic, Make(f, next) PROVE RelTypeOK'
  <2>1. pkg' \in Packages
    BY <1>5 DEF Make, Packages, Contents, Runtimes
  <2> QED BY <1>5, <2>1 DEF Make, OnlyPackage, RestOfRelease, relHistory, Goes, FromDist, FromRuntime, FromCli, FromMain, FromStatic, FromHooks, FromCollect, FromProvenance, Archives
<1>6. BuildHook \/ CopyStatic \/ WriteHooks => RelTypeOK'
  BY <1>5 DEF BuildHook, CopyStatic, WriteHooks, RuntimeFiles, FromDist, FromRuntime, FromCli, FromMain, FromStatic, FromHooks, FromCollect, FromProvenance, Archives
<1>7. CASE CollectFiles
  BY <1>7 DEF CollectFiles, Packages, OnlyPackage, RestOfRelease, relHistory, FromDist, FromRuntime, FromCli, FromMain, FromStatic, FromHooks, FromCollect, FromProvenance, Archives
<1>8. CASE WriteProvenance
  <2>1. script.read \in Runtimes
    BY <1>8 DEF WriteProvenance, BuildInv, Packages
  <2>2. pkg' \in Packages
    BY <1>8, <2>1 DEF WriteProvenance, Packages, Provenances, Runtimes, Contents
  <2> QED BY <1>8, <2>2 DEF WriteProvenance, OnlyPackage, RestOfRelease, relHistory, Goes, FromDist, FromRuntime, FromCli, FromMain, FromStatic, FromHooks, FromCollect, FromProvenance, Archives
<1>9. CASE Pack
  BY ZenonT(30), <1>9, <1>n DEF Pack, Archives
<1>10. CASE BeginManifest
  BY <1>10 DEF BeginManifest, BeginScript, relHistory, NoScript, Archives
<1>11. CASE ReadArtifacts
  <2>1. Gone \notin {artifact[a] : a \in Archives} => artifact \in Listings
    BY DEF Listings
  <2> QED BY <1>11, <2>1, <1>n DEF ReadArtifacts, InScript, OnlyPackage, RestOfRelease, relHistory, Archives
<1>12. CASE WriteManifestFile
  BY <1>12 DEF WriteManifestFile, InScript, Goes, relHistory, ManifestInv, Archives
<1>13. CASE WriteSums
  BY <1>13, <1>n DEF WriteSums, InScript, ManifestInv, Archives
<1>14. CASE BeginVerify
  BY <1>14 DEF BeginVerify, BeginScript, relHistory, NoScript, Archives
<1>15. CASE VerifyArtifacts
  BY <1>15, <1>n DEF VerifyArtifacts, relHistory, Archives
<1>16. CASE ScriptEnds
  <2>1. pkg' \in Packages
    <3>1. CASE Building /\ script.step = "runtime"
      <4> PICK gone \in SUBSET RuntimeFiles, keeps \in BOOLEAN :
                 pkg' = [pkg EXCEPT !.runtime = [f \in RuntimeFiles |-> IF f \in gone THEN Gone ELSE @[f]],
                                    !.provenance = IF keeps THEN @ ELSE Gone]
        BY <1>16, <3>1 DEF ScriptEnds, Building
      <4>1. [f \in RuntimeFiles |-> IF f \in gone THEN Gone ELSE pkg.runtime[f]] \in Runtimes
        BY DEF Packages, Runtimes, Contents
      <4>2. (IF keeps THEN pkg.provenance ELSE Gone) \in Provenances \cup {Gone}
        BY DEF Packages
      <4> QED BY <4>1, <4>2 DEF Packages
    <3>2. CASE ~(Building /\ script.step = "runtime")
      BY <1>16, <3>2 DEF ScriptEnds, Building
    <3> QED BY <3>1, <3>2
  <2>2. artifact' \in [Archives -> Packages \cup {Gone}]
    BY <1>16 DEF ScriptEnds
  <2> QED BY <1>16, <2>1, <2>2, <1>n DEF ScriptEnds, Archives
<1>17. ASSUME Edited PROVE script' \in ScriptType /\ (script'.name = "none" => script' = NoScript)
                           /\ script'.name = script.name /\ script'.step = script.step
  BY <1>17, <1>n DEF Edited
<1>18. CASE EditTree
  BY <1>17, <1>18 DEF EditTree, Edited
<1>19. CASE CommitTree
  BY <1>17, <1>19 DEF CommitTree, Edited
<1>20. CASE UNCHANGED relVars
  BY <1>20 DEF relVars, relHistory
<1> QED BY <1>1, <1>2, <1>3, <1>4, <1>6, <1>7, <1>8, <1>9, <1>10, <1>11, <1>12, <1>13, <1>14, <1>15, <1>16,
           <1>18, <1>19, <1>20 DEF RelNext

\* What a build has made survives every step: an edit is noticed by mixed and clean.
LEMMA BuildKept == ASSUME RelInv, [RelNext]_relVars PROVE BuildInv'
<1> USE ReleaseAssumption DEF RelInv, RelTypeOK
<1>1. ASSUME NEW a \in Archives, BeginBuild(a) PROVE BuildInv'
  BY <1>1 DEF BeginBuild, BeginScript, relHistory, NoScript, BuildInv, Building, HasMade, FromDist, FromRuntime, FromCli, FromMain, FromStatic, FromHooks, FromCollect, FromProvenance
<1>2. CASE ResetDist
  BY <1>2 DEF ResetDist, RestOfRelease, Goes, BuildInv, Building, HasMade, Packages, FromDist, FromRuntime, FromCli, FromMain, FromStatic, FromHooks, FromCollect, FromProvenance
<1>3. CASE ResetRuntime
  BY <1>3 DEF ResetRuntime, OnlyPackage, RestOfRelease, relHistory, Goes, BuildInv, Building, HasMade, Packages, FromDist, FromRuntime, FromCli, FromMain, FromStatic, FromHooks, FromCollect, FromProvenance
<1>4. CASE BuildCli
  BY <1>4 DEF BuildCli, OnlyPackage, RestOfRelease, relHistory, Goes, BuildInv, Building, HasMade, Packages, FromDist, FromRuntime, FromCli, FromMain, FromStatic, FromHooks, FromCollect, FromProvenance
<1>5. ASSUME NEW f \in RuntimeFiles, NEW next \in {"static", "hooks/hooks.json", "collect"}, Make(f, next),
             \A g \in RuntimeFiles : HasMade(g)' => HasMade(g) \/ g = f
      PROVE  BuildInv'
  <2>1. Building /\ Building' /\ script.step = f /\ script'.step = next /\ script'.clean = script.clean
        /\ script'.commit = script.commit
    BY <1>5 DEF Make, OnlyPackage, RestOfRelease, relHistory, Goes, Building
  <2>2. /\ pkg'.cli = pkg.cli /\ pkg'.provenance = pkg.provenance
        /\ \A g \in RuntimeFiles : pkg'.runtime[g] = IF g = f THEN tree ELSE pkg.runtime[g]
    BY <1>5 DEF Make, Packages, Runtimes
  <2>3. tree' = tree /\ head' = head /\ mixed' = mixed
    BY <1>5 DEF Make, OnlyPackage, RestOfRelease, relHistory
  <2>4. script.step \in FromMain /\ script.step # "provenance" /\ script.step # "pack" /\ tree # Gone
    BY <2>1 DEF RuntimeFiles, FromDist, FromRuntime, FromCli, FromMain, FromStatic, FromHooks, FromCollect, FromProvenance
  <2>5. ASSUME NEW g \in RuntimeFiles, HasMade(g)'
        PROVE  pkg'.runtime[g] # Gone /\ (~mixed' => pkg'.runtime[g] = tree')
    BY <1>5, <2>1, <2>2, <2>3, <2>4, <2>5 DEF BuildInv
  <2> QED BY <2>1, <2>2, <2>3, <2>4, <2>5 DEF BuildInv, FromDist, FromRuntime, FromCli, FromMain, FromStatic, FromHooks, FromCollect, FromProvenance
<1>6. BuildHook \/ CopyStatic \/ WriteHooks => BuildInv'
  <2>1. BuildHook => \A g \in RuntimeFiles : HasMade(g)' => HasMade(g) \/ g = "hooks/main.mjs"
    BY DEF BuildHook, Make, Goes, HasMade, FromDist, FromRuntime, FromCli, FromMain, FromStatic, FromHooks, FromCollect, FromProvenance
  <2>2. CopyStatic => \A g \in RuntimeFiles : HasMade(g)' => HasMade(g) \/ g = "static"
    BY DEF CopyStatic, Make, Goes, HasMade, FromDist, FromRuntime, FromCli, FromMain, FromStatic, FromHooks, FromCollect, FromProvenance
  <2>3. WriteHooks => \A g \in RuntimeFiles : HasMade(g)' => HasMade(g) \/ g = "hooks/hooks.json"
    BY DEF WriteHooks, Make, Goes, HasMade, FromDist, FromRuntime, FromCli, FromMain, FromStatic, FromHooks, FromCollect, FromProvenance
  <2> QED BY <1>5, <2>1, <2>2, <2>3 DEF BuildHook, CopyStatic, WriteHooks, RuntimeFiles
<1>7. CASE CollectFiles
  BY <1>7 DEF CollectFiles, OnlyPackage, RestOfRelease, relHistory, BuildInv, Building, HasMade, FromDist, FromRuntime, FromCli, FromMain, FromStatic, FromHooks, FromCollect, FromProvenance
<1>8. CASE WriteProvenance
  <2>1. /\ pkg'.cli = pkg.cli /\ pkg'.runtime = pkg.runtime
        /\ pkg'.provenance = [sourceCommit |-> script.commit, files |-> script.read]
    BY <1>8 DEF WriteProvenance, Packages
  <2>2. script.read = pkg.runtime
    BY <1>8 DEF WriteProvenance, BuildInv
  <2>3. Building /\ script.step = "provenance" /\ script' = [script EXCEPT !.step = "pack"]
        /\ tree' = tree /\ head' = head /\ mixed' = mixed
    BY <1>8 DEF WriteProvenance, OnlyPackage, RestOfRelease, relHistory, Goes
  <2>4. script'.step = "pack" /\ script'.commit = script.commit /\ script'.clean = script.clean
    BY <2>3
  <2>5. \A f \in RuntimeFiles : HasMade(f)
    BY <2>3 DEF HasMade, RuntimeFiles, FromDist, FromRuntime, FromCli, FromMain, FromStatic, FromHooks, FromCollect, FromProvenance
  <2> QED BY <2>1, <2>2, <2>3, <2>4, <2>5 DEF BuildInv, FromDist, FromRuntime, FromCli, FromMain, FromStatic, FromHooks, FromCollect, FromProvenance
<1>9. CASE Pack \/ BeginManifest \/ ReadArtifacts \/ WriteManifestFile \/ WriteSums \/ BeginVerify \/ VerifyArtifacts
           \/ ScriptEnds
  <2>1. Pack \/ WriteSums \/ VerifyArtifacts \/ ScriptEnds => script' = NoScript
    BY DEF Pack, WriteSums, VerifyArtifacts, ScriptEnds
  <2>2. BeginManifest => script'.name = "manifest"
    BY DEF BeginManifest, BeginScript, NoScript
  <2>3. BeginVerify => script'.name = "verify"
    BY DEF BeginVerify, BeginScript, NoScript
  <2>4. ReadArtifacts => script'.name \in {"none", "manifest"}
    BY DEF ReadArtifacts, InScript, NoScript
  <2>7. WriteManifestFile => script'.name = "manifest"
    BY DEF WriteManifestFile, InScript, Goes
  <2>5. script'.name \in {"none", "manifest", "verify"}
    BY <1>9, <2>1, <2>2, <2>3, <2>4, <2>7 DEF NoScript
  <2>6. ~Building'
    BY <2>5 DEF Building, Archives
  <2> QED BY <2>6 DEF BuildInv
<1>10. CASE EditTree \/ CommitTree
  <2>1. Edited /\ (Building' => Building) /\ (Building => ~script'.clean /\ script'.step = script.step
                                                          /\ script'.commit = script.commit /\ script'.read = script.read)
    BY <1>10 DEF EditTree, CommitTree, Edited, Building, NoScript, Archives
  <2>2. mixed' = TRUE /\ pkg' = pkg
    BY <2>1 DEF Edited
  <2>3. Building => \A f \in RuntimeFiles : HasMade(f)' => HasMade(f)
    BY <2>1 DEF HasMade
  <2> QED BY <2>1, <2>2, <2>3 DEF BuildInv
<1>11. CASE UNCHANGED relVars
  BY <1>11 DEF relVars, relHistory, BuildInv, Building, HasMade
<1> QED BY <1>1, <1>2, <1>3, <1>4, <1>6, <1>7, <1>8, <1>9, <1>10, <1>11 DEF RelNext

\* No provenance of an incomplete runtime is ever written, and only the last step
\* of a build makes one that fits what is there.
LEMMA PackageKept == ASSUME RelInv, [RelNext]_relVars PROVE PackageInv'
<1> USE ReleaseAssumption DEF RelInv, RelTypeOK
<1>0. CASE pkg' = pkg /\ (mixed' = mixed \/ mixed' = TRUE)
  BY <1>0 DEF PackageInv, PayloadOk, Whole
<1>1. CASE ResetDist
  BY <1>1 DEF ResetDist, PackageInv, PayloadOk, Packages
<1>2. CASE ResetRuntime \/ BuildCli \/ BuildHook \/ CopyStatic \/ WriteHooks
  <2>1. ResetRuntime => pkg'.provenance = Gone
    BY DEF ResetRuntime, Packages
  <2>2. BuildCli => pkg'.provenance = Gone
    BY DEF BuildCli, BuildInv, Packages, FromCli
  <2>3. ASSUME NEW f \in RuntimeFiles, NEW next, Make(f, next) PROVE pkg'.provenance = Gone
    <3>1. Building /\ script.step \in FromCli \ {"pack"}
      BY <2>3 DEF Make, RuntimeFiles, FromDist, FromRuntime, FromCli, FromMain, FromStatic, FromHooks, FromCollect, FromProvenance
    <3>2. pkg'.provenance = pkg.provenance
      BY <2>3 DEF Make, Packages
    <3> QED BY <3>1, <3>2 DEF BuildInv
  <2>4. pkg'.provenance = Gone
    BY <1>2, <2>1, <2>2, <2>3 DEF BuildHook, CopyStatic, WriteHooks, RuntimeFiles
  <2> QED BY <2>4 DEF PackageInv, PayloadOk
<1>3. CASE WriteProvenance
  <2>1. /\ pkg'.cli = pkg.cli /\ pkg'.runtime = pkg.runtime
        /\ pkg'.provenance.files = script.read /\ mixed' = mixed
    BY <1>3 DEF WriteProvenance, Packages, OnlyPackage, relHistory
  <2>2. Building /\ script.step = "provenance" /\ script.step \in FromMain
    BY <1>3 DEF WriteProvenance, FromDist, FromRuntime, FromCli, FromMain, FromStatic, FromHooks, FromCollect, FromProvenance
  <2>3. \A f \in RuntimeFiles : HasMade(f)
    BY <2>2 DEF HasMade, RuntimeFiles, FromDist, FromRuntime, FromCli, FromMain, FromStatic, FromHooks, FromCollect, FromProvenance
  <2> QED BY <2>1, <2>2, <2>3 DEF BuildInv, PackageInv, Whole
<1>4. CASE ScriptEnds
  <2>1. CASE Building /\ script.step = "runtime"
    <3> PICK gone \in SUBSET RuntimeFiles, keeps \in BOOLEAN :
               pkg' = [pkg EXCEPT !.runtime = [f \in RuntimeFiles |-> IF f \in gone THEN Gone ELSE @[f]],
                                  !.provenance = IF keeps THEN @ ELSE Gone]
      BY <1>4, <2>1 DEF ScriptEnds, Building
    <3>1. pkg'.cli = pkg.cli /\ pkg'.provenance = IF keeps THEN pkg.provenance ELSE Gone
      BY DEF Packages
    <3>2. pkg.cli = Gone
      BY <2>1 DEF BuildInv
    <3> QED BY <3>1, <3>2 DEF PackageInv
  <2>2. CASE ~(Building /\ script.step = "runtime")
    BY <1>0, <1>4, <2>2 DEF ScriptEnds, Building
  <2> QED BY <2>1, <2>2
<1>5. (\E a \in Archives : BeginBuild(a)) \/ CollectFiles \/ Pack \/ BeginManifest \/ ReadArtifacts \/ WriteManifestFile
      \/ WriteSums \/ BeginVerify \/ VerifyArtifacts \/ EditTree \/ CommitTree \/ UNCHANGED relVars
      => pkg' = pkg /\ (mixed' = mixed \/ mixed' = TRUE)
  BY DEF BeginBuild, CollectFiles, Pack, BeginManifest, ReadArtifacts, WriteManifestFile, WriteSums, BeginVerify,
         VerifyArtifacts, EditTree, CommitTree, Edited, OnlyPackage, relHistory, relVars
<1> QED BY <1>0, <1>1, <1>2, <1>3, <1>4, <1>5 DEF RelNext

\* At its last step a build that nobody has disturbed has made the package of the
\* tree as it is.
LEMMA CleanBuild == ASSUME RelInv, Building, script.step = "pack", script.clean PROVE pkg = TheBuild
<1> USE DEF RelInv, RelTypeOK
<1>1. ~mixed /\ script.commit = head
  BY DEF BuildInv
<1>2. \A f \in RuntimeFiles : HasMade(f)
  BY DEF HasMade, RuntimeFiles, FromStatic, FromHooks, FromCollect, FromProvenance
<1>3. pkg.cli = tree /\ \A f \in RuntimeFiles : pkg.runtime[f] = tree
  BY <1>1, <1>2 DEF BuildInv, FromMain, FromStatic, FromHooks, FromCollect, FromProvenance
<1>4. pkg.runtime = [f \in RuntimeFiles |-> tree]
  BY <1>3 DEF Packages, Runtimes
<1>5. pkg.provenance = [sourceCommit |-> head, files |-> [f \in RuntimeFiles |-> tree]]
  BY <1>1, <1>4 DEF BuildInv
<1>6. pkg = [cli |-> pkg.cli, runtime |-> pkg.runtime, provenance |-> pkg.provenance]
  BY DEF Packages
<1> QED BY <1>3, <1>4, <1>5, <1>6 DEF TheBuild

\* Fresh archives hold that package, until somebody edits the tree.
LEMMA ArchivesKept == ASSUME RelInv, [RelNext]_relVars PROVE ArchiveInv'
<1> USE DEF RelInv, RelTypeOK
<1>1. CASE Pack
  <2>1. TheBuild' = TheBuild /\ script'.clean /\ script.name \in Archives /\ Building /\ script.step = "pack"
    BY <1>1 DEF Pack, TheBuild, NoScript, Building
  <2>2. CASE script.clean
    <3>1. pkg = TheBuild
      BY <2>1, <2>2, CleanBuild
    <3> QED BY <1>1, <2>1, <2>2, <3>1 DEF Pack, ArchiveInv
  <2>3. CASE ~script.clean
    BY <1>1, <2>1, <2>3 DEF Pack, ArchiveInv
  <2> QED BY <2>2, <2>3
<1>2. CASE ScriptEnds
  <2>1. TheBuild' = TheBuild /\ script'.clean /\ fresh' = fresh
    BY <1>2 DEF ScriptEnds, TheBuild, NoScript
  <2>2. artifact' = artifact \/ \E a \in Archives : artifact' = [artifact EXCEPT ![a] = Gone]
    BY <1>2 DEF ScriptEnds, Building
  <2> QED BY <2>1, <2>2 DEF ArchiveInv
<1>3. CASE EditTree \/ CommitTree
  BY <1>3 DEF EditTree, CommitTree, Edited, ArchiveInv
<1>4. ASSUME NEW a \in Archives, BeginBuild(a) PROVE ArchiveInv'
  BY <1>4 DEF BeginBuild, BeginScript, relHistory, NoScript, ArchiveInv, TheBuild
<1>5. CASE BeginManifest \/ BeginVerify
  BY <1>5 DEF BeginManifest, BeginVerify, BeginScript, relHistory, NoScript, ArchiveInv, TheBuild
<1>6. CASE ResetDist \/ ResetRuntime \/ BuildCli \/ BuildHook \/ CopyStatic \/ WriteHooks \/ WriteProvenance \/ CollectFiles
           \/ WriteManifestFile
  <2>1. script'.clean = script.clean
    BY <1>6 DEF ResetDist, ResetRuntime, BuildCli, BuildHook, CopyStatic, WriteHooks, Make, WriteProvenance, CollectFiles,
                WriteManifestFile, Goes
  <2>2. UNCHANGED <<tree, head, artifact, fresh>>
    BY <1>6 DEF ResetDist, ResetRuntime, BuildCli, BuildHook, CopyStatic, WriteHooks, Make, WriteProvenance, CollectFiles,
                WriteManifestFile, OnlyPackage, RestOfRelease, relHistory
  <2> QED BY <2>1, <2>2 DEF ArchiveInv, TheBuild
<1>7. CASE ReadArtifacts \/ WriteSums \/ VerifyArtifacts
  <2>1. script' = NoScript \/ script' = [script EXCEPT !.step = "manifest", !.read = artifact]
    BY <1>7 DEF ReadArtifacts, WriteSums, VerifyArtifacts
  <2>2. UNCHANGED <<tree, head, artifact, fresh>>
    BY <1>7 DEF ReadArtifacts, WriteSums, VerifyArtifacts, OnlyPackage, RestOfRelease, relHistory
  <2>3. NoScript.clean = TRUE
    BY DEF NoScript
  <2>4. script'.clean = script.clean \/ script'.clean = TRUE
    BY <2>1, <2>3
  <2> QED BY <2>2, <2>4 DEF ArchiveInv, TheBuild
<1>8. CASE UNCHANGED relVars
  BY <1>8 DEF relVars, relHistory, ArchiveInv, TheBuild
<1> QED BY <1>1, <1>2, <1>3, <1>4, <1>5, <1>6, <1>7, <1>8 DEF RelNext

\* The manifest, SHA256SUMS and a verification that was content speak of the
\* archives that are there.
LEMMA ManifestKept == ASSUME RelInv, [RelNext]_relVars PROVE ManifestInv'
<1> USE DEF RelInv, RelTypeOK
<1>1. ASSUME NEW a \in Archives, BeginBuild(a) PROVE ManifestInv'
  BY <1>1 DEF BeginBuild, BeginScript, relHistory, NoScript, ManifestInv, InScript, Archives
<1>2. CASE BeginManifest \/ BeginVerify
  <2>1. /\ ~verified' /\ script = NoScript
        /\ script'.step = "read" \/ script'.name = "verify"
    BY <1>2 DEF BeginManifest, BeginVerify, BeginScript, NoScript
  <2>2. UNCHANGED <<releaseManifest, sums, torn>>
    BY <1>2 DEF BeginManifest, BeginVerify, relHistory
  <2> QED BY <2>1, <2>2 DEF NoScript, ManifestInv, InScript
<1>3. CASE Building /\ Building' /\ OnlyPackage
  BY <1>3 DEF OnlyPackage, RestOfRelease, relHistory, ManifestInv, InScript, Building, Archives
<1>4. CASE ResetDist
  BY <1>4 DEF ResetDist, RestOfRelease, Goes, ManifestInv, InScript, Building, Archives
<1>5. ResetRuntime \/ BuildCli \/ BuildHook \/ CopyStatic \/ WriteHooks \/ WriteProvenance \/ CollectFiles
      => Building /\ Building' /\ OnlyPackage
  BY DEF ResetRuntime, BuildCli, BuildHook, CopyStatic, WriteHooks, Make, WriteProvenance, CollectFiles, Goes, Building
<1>6. CASE Pack
  BY <1>6 DEF Pack, NoScript, ManifestInv, InScript, Building, Archives
<1>7. CASE ReadArtifacts
  <2>1. Gone \notin {artifact[a] : a \in Archives} => artifact \in Listings
    BY DEF Listings
  <2> QED BY <1>7, <2>1 DEF ReadArtifacts, InScript, OnlyPackage, RestOfRelease, relHistory, NoScript, ManifestInv
<1>8. CASE WriteManifestFile
  BY <1>8 DEF WriteManifestFile, InScript, Goes, relHistory, ManifestInv
<1>9. CASE WriteSums
  BY <1>9 DEF WriteSums, InScript, NoScript, ManifestInv
<1>10. CASE VerifyArtifacts
  BY <1>10 DEF VerifyArtifacts, InScript, NoScript, relHistory, ManifestInv
<1>11. CASE ScriptEnds
  <2>1. (script.name # "none" /\ artifact' = artifact) \/ Building
    BY <1>11 DEF ScriptEnds
  <2> QED BY <1>11, <2>1 DEF ScriptEnds, InScript, NoScript, ManifestInv, Building, Archives
<1>12. CASE EditTree \/ CommitTree
  BY <1>12 DEF EditTree, CommitTree, Edited, InScript, NoScript, ManifestInv
<1>13. CASE UNCHANGED relVars
  BY <1>13 DEF relVars, relHistory, ManifestInv, InScript
<1> QED BY <1>1, <1>2, <1>3, <1>4, <1>5, <1>6, <1>7, <1>8, <1>9, <1>10, <1>11, <1>12, <1>13 DEF RelNext

\* All of it together.
THEOREM ReleaseInvariance == RelSpec => []RelInv
<1>1. RelInit => RelInv
  <2> SUFFICES ASSUME RelInit PROVE RelInv
    OBVIOUS
  <2>1. NoPackage \in Packages
    BY DEF NoPackage, NoRuntime, Packages, Runtimes, Contents
  <2>2. /\ script.name = "none" /\ script.step = "none" /\ script.clean
        /\ script.commit = 0 /\ script.read = Gone /\ script = NoScript
    BY DEF RelInit, NoScript
  <2>3. script \in [name : {"none", "manifest", "verify"} \cup Archives,
                   step : {"none", "read", "manifest", "sums"} \cup FromDist,
                   commit : Nat, read : Runtimes \cup Listings \cup {Gone}, clean : BOOLEAN]
    BY <2>2 DEF NoScript
  <2>6. artifact \in [Archives -> Packages \cup {Gone}]
    BY DEF RelInit
  <2>7. ~Building
    BY <2>2 DEF Building, Archives
  <2>8. RelTypeOK
    BY <2>1, <2>2, <2>3, <2>6, <2>7 DEF RelInit, RelTypeOK
  <2>4. BuildInv /\ ArchiveInv /\ ManifestInv
    BY <2>2 DEF RelInit, BuildInv, ArchiveInv, ManifestInv, Building, InScript, Archives
  <2>5. PackageInv
    BY DEF RelInit, NoPackage, PackageInv, PayloadOk
  <2> QED BY <2>4, <2>5, <2>8 DEF RelInv
<1>2. RelInv /\ [RelNext]_relVars => RelInv'
  BY RelTypesKept, BuildKept, PackageKept, ArchivesKept, ManifestKept DEF RelInv
<1> QED BY <1>1, <1>2, PTL DEF RelSpec

\* A payload that its provenance accepts is complete wherever a script was ended,
\* and of one build with the command line; and archives that were verified, and not
\* edited under, name the commit and are the same complete package, made of the
\* tree: of that commit therefore, if nothing was left uncommitted.
THEOREM ReleasesAreWhole == RelSpec => []ReleaseIsWhole
<1>1. RelInv => ReleaseIsWhole
  <2> SUFFICES ASSUME RelInv PROVE ReleaseIsWhole
    OBVIOUS
  <2> USE ReleaseAssumption DEF RelInv, RelTypeOK
  <2>1. ASSUME PayloadOk(pkg), ~mixed
        PROVE  Gone \notin {pkg.runtime[f] : f \in RuntimeFiles} /\ (pkg.cli # Gone => Whole(pkg))
    BY <2>1 DEF PackageInv, PayloadOk
  <2>2. ASSUME verified, fresh = Archives
        PROVE  /\ \A a \in Archives : /\ PayloadOk(artifact[a]) /\ Whole(artifact[a])
                                      /\ artifact[a].cli = tree /\ artifact[a].provenance.sourceCommit = head
               /\ artifact["tgz"] = artifact["homebrew"]
               /\ releaseManifest = artifact /\ (~torn => sums = releaseManifest)
    <3>1. releaseManifest = artifact /\ artifact \in Listings /\ script.name = "none"
      BY <2>2 DEF ManifestInv
    <3>2. \A a \in Archives : artifact[a] = TheBuild
      BY <2>2, <3>1 DEF ArchiveInv, Listings
    <3>3. PayloadOk(TheBuild) /\ Whole(TheBuild) /\ TheBuild.cli = tree /\ TheBuild.provenance.sourceCommit = head
      <4>1. TheBuild.provenance \in Provenances
        BY DEF TheBuild, Provenances
      <4>2. TheBuild.provenance # Gone
        BY <4>1
      <4> QED BY <4>2 DEF TheBuild, PayloadOk, Whole
    <3>4. ~torn => sums = releaseManifest
      BY <3>1 DEF ManifestInv, InScript
    <3> QED BY <3>1, <3>2, <3>3, <3>4 DEF Archives
  <2> QED BY <2>1, <2>2 DEF ReleaseIsWhole
<1> QED BY <1>1, ReleaseInvariance, PTL

-----------------------------------------------------------------------------
(***************************************************************************)
(* Installer.  What an operation has done so far, by its step.             *)
(***************************************************************************)
Kinds == {"absent", "legacy-managed", "foreign", "riqor-managed", "riqor-alias"}
ProfileKinds == {"absent", "foreign", "riqor-managed"}
Surfaces == {"bins", "shell", "agents", "plugin"}

\* The steps of install and of uninstall, from each one on.
FromDoctor == {"doctor"}
FromManifest == {"manifest"} \cup FromDoctor
FromPlugin == {"plugin"} \cup FromManifest
FromAgents == {"agents"} \cup FromPlugin
FromShell == {"shell"} \cup FromAgents
FromBins == {"bins"} \cup FromShell
FromLink == {"link"} \cup FromBins
InstallSteps == {"payload", "rename"} \cup FromLink
UntilPlugin == {"agents", "plugin"}
UntilShell == UntilPlugin \cup {"shell"}
UntilBins == UntilShell \cup {"bins"}
UntilCurrent == UntilBins \cup {"current"}
UntilPayloads == UntilCurrent \cup {"payloads"}
UninstallSteps == UntilPayloads \cup {"manifest"}

Ops == [kind : {"none", "install", "uninstall"}, step : {"none"} \cup InstallSteps \cup UninstallSteps,
        v : Versions \cup {Nothing}, surfaces : SUBSET Surfaces, ok : BOOLEAN, skipped : BOOLEAN]
Reports == [kind : {"none", "install", "uninstall"}, ok : BOOLEAN, v : Versions \cup {Nothing},
            surfaces : SUBSET Surfaces, skipped : BOOLEAN]

PathsOK == paths \in [Bins \cup Profile -> Kinds] /\ \A p \in Profile : paths[p] \in ProfileKinds

StoreOK ==
  /\ payload \in [Versions -> SUBSET Parts]
  /\ current \in Versions \cup {"foreign", Nothing} /\ shell \in BOOLEAN
  /\ plugin \in Versions \cup {Nothing} /\ record \in (SUBSET Surfaces) \cup {Nothing} /\ codex \in BOOLEAN

OpOK ==
  /\ op \in Ops /\ report \in Reports
  /\ op.kind = "none" => op = NoOp
  /\ op.kind = "install" => op.v \in Versions /\ op.step \in InstallSteps
  /\ op.kind = "uninstall" => op.step \in UninstallSteps
  /\ op.kind # "none" => report.kind = "none"

InstTypeOK == PathsOK /\ StoreOK /\ OpOK

InstallInv ==
  op.kind = "install" =>
    /\ op.step \in FromLink => payload[op.v] = Parts
    /\ op.step \in FromBins => current = op.v
    /\ op.step \in FromShell => /\ "bins" \in op.surfaces
                                /\ \A p \in Bins : paths[p] \in {"riqor-managed", "riqor-alias"}
    /\ op.ok /\ op.step \in FromAgents => shell /\ "shell" \in op.surfaces
    /\ op.ok /\ op.step \in FromPlugin => "agents" \in op.surfaces /\ \A p \in Profile : paths[p] = "riqor-managed"
    /\ op.ok /\ op.step \in FromManifest => (codex => plugin = op.v /\ "plugin" \in op.surfaces)
    /\ op.step \in FromDoctor => record = op.surfaces

\* What has been removed so far.
UninstallInv ==
  op.kind = "uninstall" =>
    /\ op.ok /\ op.step # "agents" /\ "agents" \in op.surfaces => \A p \in Profile : paths[p] = "absent"
    /\ op.ok /\ op.step \notin UntilPlugin /\ "plugin" \in op.surfaces => plugin = Nothing
    /\ op.ok /\ op.step \notin UntilShell /\ shell => op.skipped
    /\ op.ok /\ op.step \notin UntilBins => \A p \in Bins : paths[p] = "absent"
    /\ op.ok /\ op.step \notin UntilCurrent => current = Nothing
    /\ op.step \notin UntilPayloads => \A v \in Versions : "package.json" \notin payload[v]

CurrentInv ==
  /\ CurrentIsWhole
  /\ op.kind = "uninstall" /\ op.step \notin UntilCurrent => current \notin Versions

InstInv == InstTypeOK /\ CurrentInv /\ InstallInv /\ UninstallInv /\ InstallOkWorks /\ RecordedIsRemoved

\* The steps by their names.
LEMMA InstallerSteps ==
  /\ FromDoctor = {"doctor"} /\ FromManifest = {"manifest", "doctor"}
  /\ FromPlugin = {"plugin", "manifest", "doctor"} /\ FromAgents = {"agents", "plugin", "manifest", "doctor"}
  /\ FromShell = {"shell", "agents", "plugin", "manifest", "doctor"}
  /\ FromBins = {"bins", "shell", "agents", "plugin", "manifest", "doctor"}
  /\ FromLink = {"link", "bins", "shell", "agents", "plugin", "manifest", "doctor"}
  /\ InstallSteps = {"payload", "rename", "link", "bins", "shell", "agents", "plugin", "manifest", "doctor"}
  /\ UntilPlugin = {"agents", "plugin"} /\ UntilShell = {"agents", "plugin", "shell"}
  /\ UntilBins = {"agents", "plugin", "shell", "bins"} /\ UntilCurrent = {"agents", "plugin", "shell", "bins", "current"}
  /\ UntilPayloads = {"agents", "plugin", "shell", "bins", "current", "payloads"}
  /\ UninstallSteps = {"agents", "plugin", "shell", "bins", "current", "payloads", "manifest"}
BY DEF InstallSteps, UninstallSteps, FromLink, FromBins, FromShell, FromAgents, FromPlugin, FromManifest, FromDoctor, UntilPlugin, UntilShell, UntilBins, UntilCurrent, UntilPayloads

\* What a step makes of the operation: its step, and perhaps a failure or a surface.
LEMMA OpMoves ==
  ASSUME OpOK, NEW s, s \in IF op.kind = "install" THEN InstallSteps ELSE UninstallSteps, op.kind # "none",
         report' = report, Then(s) \/ Bad(s) \/ Skips(s) \/ \E x \in Surfaces : With(s, x)
  PROVE  /\ OpOK' /\ op'.kind = op.kind /\ op'.step = s /\ op'.v = op.v /\ op.surfaces \subseteq op'.surfaces
         /\ op'.ok => op.ok /\ ~Bad(s)
         /\ op.skipped \/ Skips(s) <=> op'.skipped
         /\ (\E x \in Surfaces : With(s, x)) \/ op'.surfaces = op.surfaces
         /\ \A x \in Surfaces : With(s, x) => x \in op'.surfaces
<1> USE DEF OpOK
<1>1. op.kind \in {"install", "uninstall"}
  BY DEF Ops
<1>2. Bad(s) => op'.ok = FALSE
  BY DEF Bad, Ops
<1>3. ASSUME NEW x \in Surfaces, With(s, x) PROVE x \in op'.surfaces
  <2>1. op'.surfaces = op.surfaces \cup {x}
    BY <1>3 DEF With, Ops
  <2> QED BY <2>1
<1>s. Skips(s) => op'.skipped = TRUE /\ op'.ok = op.ok
  BY DEF Skips, Ops
<1>4. CASE Then(s)
  <2>1. op'.ok = op.ok /\ op'.skipped = op.skipped /\ op.skipped \in BOOLEAN
    BY <1>4 DEF Then, Ops
  <2> QED BY <1>1, <1>2, <1>3, <1>4, <1>s, <2>1 DEF Then, Ops
<1>5. CASE Bad(s)
  <2>1. op'.ok = FALSE /\ op'.skipped = op.skipped /\ op.skipped \in BOOLEAN
    BY <1>5 DEF Bad, Ops
  <2> QED BY <1>1, <1>2, <1>3, <1>5, <1>s, <2>1 DEF Bad, Ops
<1>6. ASSUME NEW x \in Surfaces, With(s, x)
      PROVE  /\ OpOK' /\ op'.kind = op.kind /\ op'.step = s /\ op'.v = op.v /\ op.surfaces \subseteq op'.surfaces
             /\ op'.ok => op.ok /\ ~Bad(s)
             /\ op.skipped \/ Skips(s) <=> op'.skipped
  <2>1. op'.ok = op.ok /\ op'.skipped = op.skipped /\ op.skipped \in BOOLEAN
    BY <1>6 DEF With, Ops
  <2> QED BY <1>1, <1>2, <1>6, <1>s, <2>1 DEF With, Ops
<1>7. CASE Skips(s)
  <2>1. op'.ok = op.ok /\ op'.skipped = TRUE
    BY <1>s, <1>7
  <2> QED BY <1>1, <1>2, <1>3, <1>7, <2>1 DEF Skips, Ops
<1> QED BY <1>3, <1>4, <1>5, <1>6, <1>7

\* An operation ends.
LEMMA OpEnds ==
  ASSUME OpOK, op.kind # "none", NEW ok \in BOOLEAN, Ends(ok)
  PROVE  /\ OpOK' /\ op'.kind = "none" /\ report'.kind = op.kind /\ report'.ok = ok /\ report'.v = op.v
         /\ report'.surfaces = op.surfaces /\ report'.skipped = op.skipped
BY DEF OpOK, Ends, Ops, Reports, NoOp

\* Nothing is under way, and there is no report.
LEMMA OpGone == ASSUME op' = NoOp, report' = NoReport PROVE OpOK' /\ op'.kind = "none" /\ report'.kind = "none"
BY DEF OpOK, NoOp, NoReport, Ops, Reports

\* One path changes.
LEMMA PathChanges ==
  ASSUME PathsOK, NEW p \in Bins \cup Profile, NEW k \in Kinds, p \in Profile => k \in ProfileKinds,
         paths' = [paths EXCEPT ![p] = k]
  PROVE  PathsOK'
BY DEF PathsOK

\* Types survive every step.
LEMMA OpTypesKept == ASSUME InstTypeOK, [InstNext]_instVars PROVE OpOK'
<1> USE InstallerAssumption, InstallerSteps DEF InstTypeOK
<1>0. Surfaces = {"bins", "shell", "agents", "plugin"}
  BY DEF Surfaces
<1>1. ASSUME NEW v \in Versions, BeginInstall(v) PROVE OpOK'
  <2>1. CASE \A p \in Bins : CanReplace(p)
    <3>1. op' = [kind |-> "install", step |-> "payload", v |-> v, surfaces |-> {}, ok |-> TRUE, skipped |-> FALSE] /\ report' = NoReport
      BY <1>1, <2>1 DEF BeginInstall, NoOp
    <3> QED BY <3>1 DEF OpOK, Ops, Reports, NoReport
  <2>2. CASE ~\A p \in Bins : CanReplace(p)
    BY ZenonT(30), <1>1, <2>2 DEF BeginInstall, OpOK, Ops, Reports, NoOp, NoReport
  <2> QED BY <2>1, <2>2
<1>2. CASE RemovePayload \/ RenamePayload \/ LinkCurrent
  BY <1>2, OpMoves DEF RemovePayload, RenamePayload, LinkCurrent, In, Rest
<1>3. CASE WriteBins
  <2>1. report' = report /\ op.kind = "install" /\ (op' = op \/ With("shell", "bins"))
    BY <1>3 DEF WriteBins, In, Rest
  <2> QED BY <2>1, <1>0, OpMoves DEF OpOK
<1>4. CASE InstallShell
  BY <1>4, <1>0, OpMoves DEF InstallShell, In, Rest
<1>5. CASE InstallAgents
  <2>1. report' = report /\ op.kind = "install" /\ (op' = op \/ Bad("plugin") \/ With("plugin", "agents"))
    BY <1>5 DEF InstallAgents, In, Rest
  <2> QED BY <2>1, <1>0, OpMoves DEF OpOK
<1>6. CASE InstallPlugin
  BY <1>6, <1>0, OpMoves DEF InstallPlugin, In, Rest
<1>7. CASE WriteManifest
  BY <1>7, OpMoves DEF WriteManifest, In, Rest
<1>8. CASE InstallEnds \/ UninstallEnds
  <2>1. (op.ok /\ PackageOk) \in BOOLEAN /\ op.ok \in BOOLEAN
    BY DEF OpOK, Ops
  <2> QED BY <1>8, <2>1, OpEnds DEF InstallEnds, UninstallEnds, In
<1>9. CASE BeginUninstall
  <2>1. op' = [kind |-> "uninstall", step |-> "agents", v |-> Nothing,
               surfaces |-> IF record = Nothing THEN {} ELSE record, ok |-> TRUE, skipped |-> FALSE]
    BY <1>9 DEF BeginUninstall, NoOp
  <2>2. report' = [kind |-> "none", ok |-> FALSE, v |-> Nothing, surfaces |-> {}, skipped |-> FALSE]
    BY <1>9 DEF BeginUninstall, NoReport
  <2>3. (IF record = Nothing THEN {} ELSE record) \in SUBSET Surfaces
    <3>1. record \in SUBSET Surfaces \/ record = Nothing
      BY DEF StoreOK
    <3> QED BY <3>1
  <2> QED BY <2>1, <2>2, <2>3 DEF OpOK, Ops, Reports
<1>10. CASE RemoveAgents
  BY <1>10, OpMoves DEF RemoveAgents, In, Rest
<1>11. CASE RemovePlugin
  BY <1>11, OpMoves DEF RemovePlugin, In, Rest
<1>12. CASE RemoveShell
  BY <1>12, OpMoves DEF RemoveShell, In, Rest
<1>13. CASE RemoveBins
  <2>1. report' = report /\ op.kind = "uninstall" /\ (op' = op \/ Bad("current") \/ Then("current"))
    BY <1>13 DEF RemoveBins, In, Rest
  <2> QED BY <2>1, OpMoves DEF OpOK
<1>14. CASE RemoveCurrent \/ RemovePayloads
  BY <1>14, OpMoves DEF RemoveCurrent, RemovePayloads, In, Rest
<1>15. CASE Kill
  BY <1>15, OpGone DEF Kill
<1>16. CASE UserActs
  BY <1>16, OpGone DEF UserActs
<1>17. CASE UNCHANGED instVars
  BY <1>17 DEF instVars, OpOK
<1> QED BY <1>1, <1>2, <1>3, <1>4, <1>5, <1>6, <1>7, <1>8, <1>9, <1>10, <1>11, <1>12, <1>13, <1>14, <1>15, <1>16,
           <1>17 DEF InstNext

\* The installation and its links keep their types.
LEMMA PathsKept == ASSUME InstTypeOK, [InstNext]_instVars PROVE PathsOK'
<1> USE DEF InstTypeOK
<1>0. Bins \cap Profile = {} /\ Primary \in Bins /\ "agents" \in Profile /\ "profile" \in Profile
  BY DEF Bins, Aliases, Primary, Profile
<1>1. CASE UNCHANGED paths
  BY <1>1 DEF PathsOK
<1>2. CASE WriteBins
  <2> DEFINE kind(p) == IF p = Primary THEN "riqor-managed" ELSE "riqor-alias"
             todo == {p \in Bins : paths[p] # kind(p)}
             q == IF Primary \in todo THEN Primary ELSE CHOOSE a \in todo : TRUE
  <2>1. (todo = {} /\ UNCHANGED paths) \/ (todo # {} /\ paths' = [paths EXCEPT ![q] = kind(q)])
    BY <1>2, Zenon DEF WriteBins
  <2>2. todo # {} => q \in Bins
    OBVIOUS
  <2>3. kind(q) \in Kinds
    BY DEF Kinds
  <2> HIDE DEF kind, todo, q
  <2> QED BY <1>0, <1>1, <2>1, <2>2, <2>3, PathChanges
<1>3. CASE InstallAgents
  <2>1. UNCHANGED paths \/ \E p \in {"agents", "profile"} : paths' = [paths EXCEPT ![p] = "riqor-managed"]
    BY <1>3 DEF InstallAgents
  <2> QED BY <1>0, <1>1, <2>1, PathChanges DEF Kinds, ProfileKinds
<1>4. CASE RemoveAgents
  BY <1>4 DEF RemoveAgents, PathsOK, Kinds, ProfileKinds
<1>5. CASE RemoveBins
  <2>1. UNCHANGED paths \/ \E p \in Bins : paths' = [paths EXCEPT ![p] = "absent"]
    BY <1>5 DEF RemoveBins
  <2> QED BY <1>0, <1>1, <2>1, PathChanges DEF Kinds
<1>6. CASE Kill
  <2>1. UNCHANGED paths \/ \E p \in Bins \cup Profile, k \in {"absent", "foreign"} : paths' = [paths EXCEPT ![p] = k]
    BY <1>6 DEF Kill, Remains
  <2> QED BY <1>1, <2>1, PathChanges DEF Kinds, ProfileKinds
<1>7. CASE UserActs
  <2>1. UNCHANGED paths \/ \E p \in Bins \cup Profile, k \in {"absent", "foreign"} : paths' = [paths EXCEPT ![p] = k]
    BY <1>7 DEF UserActs
  <2> QED BY <1>1, <2>1, PathChanges DEF Kinds, ProfileKinds
<1>8. (\E v \in Versions : BeginInstall(v)) \/ RemovePayload \/ RenamePayload \/ LinkCurrent \/ InstallShell
      \/ InstallPlugin \/ WriteManifest \/ InstallEnds \/ BeginUninstall \/ RemovePlugin \/ RemoveShell \/ RemoveCurrent
      \/ RemovePayloads \/ UninstallEnds \/ UNCHANGED instVars
      => UNCHANGED paths
  BY DEF BeginInstall, RemovePayload, RenamePayload, LinkCurrent, InstallShell, InstallPlugin, WriteManifest, InstallEnds,
         BeginUninstall, RemovePlugin, RemoveShell, RemoveCurrent, RemovePayloads, UninstallEnds, instVars
<1> QED BY <1>1, <1>2, <1>3, <1>4, <1>5, <1>6, <1>7, <1>8 DEF InstNext

\* So does the store.
LEMMA StoreKept == ASSUME InstTypeOK, [InstNext]_instVars PROVE StoreOK'
<1> USE InstallerAssumption DEF InstTypeOK, StoreOK
<1>0. op.kind = "install" => op.v \in Versions
  BY DEF OpOK
<1>1. CASE RemovePayload \/ RenamePayload
  BY <1>0, <1>1 DEF RemovePayload, RenamePayload, Rest, In
<1>2. CASE LinkCurrent
  BY <1>0, <1>2 DEF LinkCurrent, Rest, In
<1>3. CASE InstallShell \/ RemoveShell
  BY <1>3 DEF InstallShell, RemoveShell, Rest
<1>4. CASE InstallPlugin
  BY <1>0, <1>4 DEF InstallPlugin, RunPluginScript, SourceMatches, Rest, In
<1>5. CASE WriteManifest
  BY <1>5 DEF WriteManifest, Rest, OpOK, Ops
<1>6. CASE UninstallEnds
  <2>1. UNCHANGED <<payload, current, shell, plugin, codex>> /\ record' = Nothing
    BY <1>6 DEF UninstallEnds
  <2> QED BY <2>1
<1>7. CASE RemovePlugin
  BY <1>7 DEF RemovePlugin, Rest
<1>8. CASE RemoveCurrent
  BY <1>8 DEF RemoveCurrent, Rest
<1>9. CASE RemovePayloads
  BY <1>9 DEF RemovePayloads, Rest
<1>10. CASE Kill
  <2>1. UNCHANGED <<current, shell, plugin, codex>> /\ record' \in {record, {}}
    BY <1>10 DEF Kill
  <2>2. payload' = payload \/ \E v \in Versions : \E rest \in SUBSET payload[v] : payload' = [payload EXCEPT ![v] = rest]
    BY <1>0, <1>10 DEF Kill, In
  <2> QED BY <2>1, <2>2
<1>11. CASE UserActs
  BY <1>11 DEF UserActs
<1>12. (\E v \in Versions : BeginInstall(v)) \/ WriteBins \/ InstallAgents \/ InstallEnds \/ BeginUninstall \/ RemoveAgents
       \/ RemoveBins \/ UNCHANGED instVars
       => UNCHANGED <<payload, current, shell, plugin, record, codex>>
  BY DEF BeginInstall, WriteBins, InstallAgents, InstallEnds, BeginUninstall, RemoveAgents, RemoveBins, Rest, instVars
<1>13. CASE UNCHANGED <<payload, current, shell, plugin, record, codex>>
  BY <1>13
<1> QED BY <1>1, <1>2, <1>3, <1>4, <1>5, <1>6, <1>7, <1>8, <1>9, <1>10, <1>11, <1>12, <1>13 DEF InstNext

\* What an install has done so far survives its steps.
LEMMA InstallKept == ASSUME InstTypeOK, InstallInv, [InstNext]_instVars PROVE InstallInv'
<1> SUFFICES ASSUME op'.kind = "install" PROVE InstallInv'
  BY DEF InstallInv
<1> USE InstallerSteps DEF InstTypeOK, In, Rest, History
<1>0. Surfaces = {"bins", "shell", "agents", "plugin"}
  BY DEF Surfaces
<1>1. ASSUME NEW v \in Versions, BeginInstall(v) PROVE InstallInv'
  BY <1>1 DEF BeginInstall, NoOp, InstallInv
<1>2. CASE RemovePayload
  <2>1. op'.step = "rename"
    BY <1>2, OpMoves DEF RemovePayload
  <2> QED BY <2>1 DEF InstallInv
<1>3. CASE RenamePayload
  <2>1. op'.step = "link" /\ op'.v = op.v /\ op.v \in Versions
    BY <1>3, OpMoves DEF RenamePayload, OpOK
  <2> QED BY <1>3, <2>1 DEF InstallInv, RenamePayload, StoreOK
<1>4. CASE LinkCurrent
  <2>1. op'.step = "bins" /\ op'.v = op.v
    BY <1>4, OpMoves DEF LinkCurrent
  <2> QED BY <1>4, <2>1 DEF InstallInv, LinkCurrent
<1>5. CASE WriteBins
  <2>1. CASE UNCHANGED op
    BY <1>5, <2>1 DEF InstallInv, WriteBins
  <2>2. CASE ~UNCHANGED op
    <3>1. With("shell", "bins") /\ UNCHANGED paths
          /\ \A p \in Bins : paths[p] = IF p = Primary THEN "riqor-managed" ELSE "riqor-alias"
      BY <1>5, <2>2 DEF WriteBins
    <3>2. op'.step = "shell" /\ op'.v = op.v /\ "bins" \in op'.surfaces
      BY <1>0, <1>5, <3>1, OpMoves DEF WriteBins
    <3> QED BY <1>5, <3>1, <3>2 DEF InstallInv, WriteBins
  <2> QED BY <2>1, <2>2
<1>6. CASE InstallShell
  <2>1. /\ op'.step = "agents" /\ op'.v = op.v /\ op.surfaces \subseteq op'.surfaces
        /\ op'.ok => op.ok /\ shell' /\ "shell" \in op'.surfaces
    BY <1>0, <1>6, OpMoves DEF InstallShell
  <2> QED BY <1>6, <2>1 DEF InstallInv, InstallShell
<1>7. CASE InstallAgents
  <2>1. CASE UNCHANGED op
    <3>1. op.step = "agents" /\ \A p \in Bins : paths'[p] = paths[p]
      BY <1>7, <2>1 DEF InstallAgents, PathsOK, Bins, Aliases, Primary
    <3> QED BY <1>7, <2>1, <3>1 DEF InstallInv, InstallAgents
  <2>2. CASE ~UNCHANGED op
    <3>1. UNCHANGED paths /\ (Bad("plugin") \/ (With("plugin", "agents") /\ \A p \in Profile : paths[p] = "riqor-managed"))
      BY <1>7, <2>2 DEF InstallAgents, Profile
    <3>2. /\ op'.step = "plugin" /\ op'.v = op.v /\ op.surfaces \subseteq op'.surfaces
          /\ op'.ok => op.ok /\ "agents" \in op'.surfaces /\ \A p \in Profile : paths[p] = "riqor-managed"
      BY <1>0, <1>7, <3>1, OpMoves DEF InstallAgents
    <3> QED BY <1>7, <3>1, <3>2 DEF InstallInv, InstallAgents
  <2> QED BY <2>1, <2>2
<1>8. CASE InstallPlugin
  <2>1. /\ op'.step = "manifest" /\ op'.v = op.v /\ op.surfaces \subseteq op'.surfaces
        /\ op'.ok => op.ok /\ (codex => plugin' = op.v /\ "plugin" \in op'.surfaces)
    BY <1>0, <1>8, OpMoves DEF InstallPlugin, RunPluginScript
  <2> QED BY <1>8, <2>1 DEF InstallInv, InstallPlugin
<1>9. CASE WriteManifest
  <2>1. op'.step = "doctor" /\ op'.v = op.v /\ op'.surfaces = op.surfaces /\ op'.ok = op.ok
    BY <1>9, OpMoves DEF WriteManifest, Then, OpOK, Ops
  <2> QED BY <1>9, <2>1 DEF InstallInv, WriteManifest
<1>10. CASE InstallEnds \/ UninstallEnds
  BY <1>10 DEF InstallEnds, UninstallEnds, Ends, NoOp
<1>11. CASE BeginUninstall
  BY <1>11 DEF BeginUninstall, NoOp
<1>12. CASE RemoveAgents \/ RemovePlugin \/ RemoveShell \/ RemoveBins \/ RemoveCurrent \/ RemovePayloads
  <2>1. op.kind = "uninstall"
    BY <1>12 DEF RemoveAgents, RemovePlugin, RemoveShell, RemoveBins, RemoveCurrent, RemovePayloads
  <2>2. op' = op \/ \E s \in UninstallSteps : Then(s) \/ Bad(s) \/ Skips(s)
    BY <1>12 DEF RemoveAgents, RemovePlugin, RemoveShell, RemoveBins, RemoveCurrent, RemovePayloads
  <2>3. report' = report
    BY <1>12 DEF RemoveAgents, RemovePlugin, RemoveShell, RemoveBins, RemoveCurrent, RemovePayloads
  <2> QED BY <2>1, <2>2, <2>3, OpMoves
<1>13. CASE Kill
  BY <1>13 DEF Kill, NoOp
<1>14. CASE UserActs
  BY <1>14 DEF UserActs, NoOp
<1>15. CASE UNCHANGED instVars
  BY <1>15 DEF instVars, InstallInv
<1> QED BY <1>1, <1>2, <1>3, <1>4, <1>5, <1>6, <1>7, <1>8, <1>9, <1>10, <1>11, <1>12, <1>13, <1>14, <1>15 DEF InstNext

\* What an uninstall has removed stays removed.
LEMMA UninstallKept ==
  ASSUME InstTypeOK, UninstallInv, [InstNext]_instVars PROVE UninstallInv'
<1> SUFFICES ASSUME op'.kind = "uninstall" PROVE UninstallInv'
  BY DEF UninstallInv
<1> USE InstallerSteps DEF InstTypeOK, In, Rest, History
<1>0. Surfaces = {"bins", "shell", "agents", "plugin"}
  BY DEF Surfaces
<1>1. CASE BeginUninstall
  <2>1. op'.step = "agents"
    BY <1>1 DEF BeginUninstall, NoOp
  <2> QED BY <2>1 DEF UninstallInv
<1>2. CASE RemoveAgents
  <2>1. op'.step = "plugin" /\ (op'.ok => op.ok /\ ~Bad("plugin")) /\ op'.surfaces = op.surfaces
    BY <1>2, OpMoves DEF RemoveAgents, Then, Bad, OpOK, Ops
  <2>2. op'.ok /\ "agents" \in op.surfaces => \A p \in Profile : paths'[p] = "absent"
    <3> SUFFICES ASSUME op'.ok, "agents" \in op.surfaces, NEW p \in Profile PROVE paths'[p] = "absent"
      OBVIOUS
    <3>1. paths' = [q \in DOMAIN paths |-> IF q \in Profile /\ paths[q] # "foreign" THEN "absent" ELSE paths[q]]
      BY <1>2 DEF RemoveAgents
    <3>2. p \in DOMAIN paths
      BY DEF PathsOK
    <3>3. paths[p] # "foreign"
      BY <1>2, <2>1 DEF RemoveAgents
    <3> QED BY <3>1, <3>2, <3>3
  <2> QED BY <2>1, <2>2 DEF UninstallInv
<1>3. CASE RemovePlugin
  <2>1. op'.step = "shell" /\ (op'.ok => op.ok /\ ~Bad("shell")) /\ op'.surfaces = op.surfaces
    BY <1>3, OpMoves DEF RemovePlugin, Then, Bad, OpOK, Ops
  <2>2. op'.ok /\ "plugin" \in op.surfaces => plugin' = Nothing
    BY <1>3, <2>1 DEF RemovePlugin
  <2> QED BY <1>3, <2>1, <2>2 DEF RemovePlugin, UninstallInv
<1>4. CASE RemoveShell
  <2>1. /\ op'.step = "bins" /\ (op'.ok => op.ok /\ ~Bad("bins")) /\ op'.surfaces = op.surfaces
        /\ Skips("bins") => op'.skipped
    BY <1>4, OpMoves DEF RemoveShell, Then, Bad, Skips, OpOK, Ops
  <2>2. op'.ok /\ shell' => op'.skipped
    BY <1>4, <2>1 DEF RemoveShell
  <2> QED BY <1>4, <2>1, <2>2 DEF RemoveShell, UninstallInv
<1>5. CASE RemoveBins
  <2>1. CASE UNCHANGED op
    <3>1. op.step = "bins" /\ \A p \in Profile : paths'[p] = paths[p]
      BY <1>5, <2>1 DEF RemoveBins, PathsOK, Bins, Aliases, Primary, Profile
    <3> QED BY <1>5, <2>1, <3>1 DEF RemoveBins, UninstallInv
  <2>2. CASE ~UNCHANGED op
    <3>1. UNCHANGED paths /\ (Bad("current") \/ (Then("current") /\ \A p \in Bins : paths[p] = "absent"))
      BY <1>5, <2>2 DEF RemoveBins
    <3>2. /\ op'.step = "current" /\ (op'.ok => op.ok /\ \A p \in Bins : paths[p] = "absent")
          /\ op'.surfaces = op.surfaces /\ op'.skipped = op.skipped
      BY <1>5, <3>1, OpMoves DEF RemoveBins, Then, Bad, OpOK, Ops
    <3> QED BY <1>5, <3>1, <3>2 DEF RemoveBins, UninstallInv
  <2> QED BY <2>1, <2>2
<1>6. CASE RemoveCurrent
  <2>1. /\ op'.step = "payloads" /\ (op'.ok => op.ok /\ ~Bad("payloads"))
        /\ op'.surfaces = op.surfaces /\ op'.skipped = op.skipped
    BY <1>6, OpMoves DEF RemoveCurrent, Then, Bad, OpOK, Ops
  <2> QED BY <1>6, <2>1 DEF RemoveCurrent, UninstallInv
<1>7. CASE RemovePayloads
  <2>1. op'.step = "manifest" /\ (op'.ok => op.ok) /\ op'.surfaces = op.surfaces /\ op'.skipped = op.skipped
    BY <1>7, OpMoves DEF RemovePayloads, Then, OpOK, Ops
  <2>2. \A v \in Versions : "package.json" \notin payload'[v]
    BY <1>7 DEF RemovePayloads
  <2> QED BY <1>7, <2>1, <2>2 DEF RemovePayloads, UninstallInv
<1>8. CASE InstallEnds \/ UninstallEnds
  BY <1>8 DEF InstallEnds, UninstallEnds, Ends, NoOp
<1>9. ASSUME NEW v \in Versions, BeginInstall(v) PROVE FALSE
  <2>1. op' = [kind |-> "install", step |-> "payload", v |-> v, surfaces |-> {}, ok |-> TRUE, skipped |-> FALSE] \/ op' = NoOp
    BY <1>9 DEF BeginInstall, NoOp
  <2> QED BY <2>1 DEF NoOp
<1>10. CASE RemovePayload \/ RenamePayload \/ LinkCurrent \/ WriteBins \/ InstallShell \/ InstallAgents \/ InstallPlugin
            \/ WriteManifest
  <2>1. op.kind = "install" /\ report' = report
    BY <1>10 DEF RemovePayload, RenamePayload, LinkCurrent, WriteBins, InstallShell, InstallAgents, InstallPlugin, WriteManifest
  <2>2. op' = op \/ \E s \in InstallSteps : Then(s) \/ Bad(s) \/ \E x \in Surfaces : With(s, x)
    BY <1>10 DEF RemovePayload, RenamePayload, LinkCurrent, WriteBins, InstallShell, InstallAgents, InstallPlugin,
                 WriteManifest, Surfaces
  <2> QED BY <2>1, <2>2, OpMoves
<1>11. CASE Kill
  BY <1>11 DEF Kill, NoOp
<1>12. CASE UserActs
  BY <1>12 DEF UserActs, NoOp
<1>13. CASE UNCHANGED instVars
  BY <1>13 DEF instVars, UninstallInv
<1> QED BY <1>1, <1>2, <1>3, <1>4, <1>5, <1>6, <1>7, <1>8, <1>9, <1>10, <1>11, <1>12, <1>13 DEF InstNext

\* Where current leads to stays whole, or is known to be broken.
LEMMA CurrentKept == ASSUME InstTypeOK, InstallInv, CurrentInv, [InstNext]_instVars PROVE CurrentInv'
<1> USE InstallerSteps DEF InstTypeOK, In, Rest, History
<1>0. op.kind = "install" => op.v \in Versions
  BY DEF OpOK
<1>a. CASE UNCHANGED <<payload, current, broken>> /\ (op'.kind = "uninstall" => op' = op \/ op'.step \in UntilCurrent)
  BY <1>a DEF CurrentInv, CurrentIsWhole
<1>1. ASSUME NEW v \in Versions, BeginInstall(v) PROVE CurrentInv'
  <2>1. op' = [kind |-> "install", step |-> "payload", v |-> v, surfaces |-> {}, ok |-> TRUE, skipped |-> FALSE] \/ op' = NoOp
    BY <1>1 DEF BeginInstall, NoOp
  <2>2. op'.kind # "uninstall"
    BY <2>1 DEF NoOp
  <2> QED BY <1>1, <1>a, <2>2 DEF BeginInstall
<1>2. CASE RemovePayload
  <2>1. op'.kind = "install"
    BY <1>2, OpMoves DEF RemovePayload
  <2> QED BY <1>0, <1>2, <2>1 DEF RemovePayload, CurrentInv, CurrentIsWhole, StoreOK
<1>3. CASE RenamePayload
  <2>1. op'.kind = "install"
    BY <1>3, OpMoves DEF RenamePayload
  <2> QED BY <1>0, <1>3, <2>1 DEF RenamePayload, CurrentInv, CurrentIsWhole, StoreOK
<1>4. CASE LinkCurrent
  <2>1. op'.kind = "install"
    BY <1>4, OpMoves DEF LinkCurrent
  <2>2. payload[op.v] = Parts
    BY <1>4 DEF LinkCurrent, InstallInv
  <2> QED BY <1>4, <2>1, <2>2 DEF LinkCurrent, CurrentInv, CurrentIsWhole
<1>5. CASE WriteBins \/ InstallShell \/ InstallAgents \/ InstallPlugin \/ WriteManifest
  <2>1. op.kind = "install" /\ report' = report /\ UNCHANGED <<payload, current, broken>>
    BY <1>5 DEF WriteBins, InstallShell, InstallAgents, InstallPlugin, WriteManifest
  <2>2. op' = op \/ \E s \in InstallSteps : Then(s) \/ Bad(s) \/ \E x \in Surfaces : With(s, x)
    BY <1>5 DEF WriteBins, InstallShell, InstallAgents, InstallPlugin, WriteManifest, Surfaces
  <2>3. op'.kind = "install"
    BY <2>1, <2>2, OpMoves
  <2> QED BY <1>a, <2>1, <2>3
<1>6. CASE InstallEnds \/ UninstallEnds
  <2>1. op'.kind = "none"
    BY <1>6 DEF InstallEnds, UninstallEnds, Ends, NoOp
  <2> QED BY <1>6, <1>a, <2>1 DEF InstallEnds, UninstallEnds
<1>7. CASE BeginUninstall
  <2>1. op'.step = "agents"
    BY <1>7 DEF BeginUninstall, NoOp
  <2> QED BY <1>7, <1>a, <2>1 DEF BeginUninstall
<1>8. CASE RemoveAgents \/ RemovePlugin \/ RemoveShell \/ RemoveBins
  <2>1. op.kind = "uninstall" /\ report' = report /\ UNCHANGED <<payload, current, broken>>
    BY <1>8 DEF RemoveAgents, RemovePlugin, RemoveShell, RemoveBins
  <2>2. op' = op \/ \E s \in UntilCurrent : Then(s) \/ Bad(s) \/ Skips(s)
    BY <1>8 DEF RemoveAgents, RemovePlugin, RemoveShell, RemoveBins
  <2>3. op' = op \/ op'.step \in UntilCurrent
    BY <2>1, <2>2, OpMoves
  <2> QED BY <1>a, <2>1, <2>3
<1>9. CASE RemoveCurrent
  <2>1. current' \notin Versions
    BY <1>9, InstallerAssumption DEF RemoveCurrent
  <2> QED BY <2>1 DEF CurrentInv, CurrentIsWhole
<1>10. CASE RemovePayloads
  <2>1. current' \notin Versions
    BY <1>10 DEF RemovePayloads, CurrentInv
  <2> QED BY <2>1 DEF CurrentInv, CurrentIsWhole
<1>11. CASE Kill
  <2>1. op'.kind = "none" /\ current' = current
    BY <1>11 DEF Kill, NoOp
  <2>2. CASE UNCHANGED <<payload, broken>>
    BY <1>a, <2>1, <2>2
  <2>3. CASE /\ In("install", "payload")
             /\ \E rest \in SUBSET payload[op.v] : payload' = [payload EXCEPT ![op.v] = rest]
             /\ broken' = broken \cup {op.v}
    BY <1>0, <2>1, <2>3 DEF CurrentInv, CurrentIsWhole, StoreOK
  <2>4. CASE In("uninstall", "payloads")
    <3>1. current' \notin Versions
      BY <2>1, <2>4 DEF CurrentInv
    <3> QED BY <2>1, <3>1 DEF CurrentInv, CurrentIsWhole
  <2> QED BY <1>11, <2>2, <2>3, <2>4 DEF Kill
<1>12. CASE UserActs
  <2>1. op'.kind = "none" /\ UNCHANGED <<payload, broken>> /\ current' \in {current, "foreign"}
    BY <1>12 DEF UserActs, NoOp
  <2> QED BY <2>1, InstallerAssumption DEF CurrentInv, CurrentIsWhole
<1>13. CASE UNCHANGED instVars
  BY <1>13, <1>a DEF instVars
<1> QED BY <1>1, <1>2, <1>3, <1>4, <1>5, <1>6, <1>7, <1>8, <1>9, <1>10, <1>11, <1>12, <1>13 DEF InstNext

\* A report is made of what its operation has done, and stands until the next
\* operation or change.
LEMMA ReportsKept == ASSUME InstInv, [InstNext]_instVars PROVE InstallOkWorks' /\ RecordedIsRemoved'
<1> USE InstallerSteps DEF InstInv, InstTypeOK, In, Rest, History
<1>0. CASE report'.kind = "none"
  BY <1>0 DEF InstallOkWorks, RecordedIsRemoved
<1>1. CASE InstallEnds
  <2>1. op.ok \in BOOLEAN /\ report'.kind = "install" /\ report'.v = op.v /\ (report'.ok => op.ok /\ PackageOk)
    BY <1>1 DEF InstallEnds, Ends, OpOK, Ops, Reports
  <2>2. \A p \in Profile : paths[p] = "riqor-managed" => paths[p] \in {"riqor-managed", "riqor-alias"}
    OBVIOUS
  <2>3. report'.ok => InstallOkWorks'
    BY <1>1, <2>1, <2>2 DEF InstallEnds, InstallInv, InstallOkWorks, PackageOk
  <2> QED BY <2>1, <2>3 DEF InstallOkWorks, RecordedIsRemoved
<1>2. CASE UninstallEnds
  <2>1. /\ report'.kind = "uninstall" /\ report'.surfaces = op.surfaces /\ report'.skipped = op.skipped
        /\ report'.ok => op.ok
    BY <1>2 DEF UninstallEnds, Ends, OpOK, Ops, Reports
  <2>2. report'.ok => RecordedIsRemoved'
    BY <1>2, <2>1 DEF UninstallEnds, UninstallInv, RecordedIsRemoved
  <2> QED BY <2>1, <2>2 DEF InstallOkWorks, RecordedIsRemoved
<1>3. ASSUME NEW v \in Versions, BeginInstall(v) PROVE report'.kind = "none" \/ (report'.kind = "install" /\ ~report'.ok)
  BY <1>3 DEF BeginInstall, NoReport
<1>4. CASE BeginUninstall \/ Kill \/ UserActs
  BY <1>0, <1>4 DEF BeginUninstall, Kill, UserActs, NoReport
<1>5. CASE RemovePayload \/ RenamePayload \/ LinkCurrent \/ WriteBins \/ InstallShell \/ InstallAgents \/ InstallPlugin
           \/ WriteManifest \/ RemoveAgents \/ RemovePlugin \/ RemoveShell \/ RemoveBins \/ RemoveCurrent \/ RemovePayloads
  <2>1. op.kind # "none" /\ report' = report
    BY <1>5 DEF RemovePayload, RenamePayload, LinkCurrent, WriteBins, InstallShell, InstallAgents, InstallPlugin,
       WriteManifest, RemoveAgents, RemovePlugin, RemoveShell, RemoveBins, RemoveCurrent, RemovePayloads
  <2> QED BY <1>0, <2>1 DEF OpOK
<1>6. CASE UNCHANGED instVars
  BY <1>6 DEF instVars, InstallOkWorks, RecordedIsRemoved
<1>7. CASE \E v \in Versions : BeginInstall(v)
  BY <1>3, <1>7 DEF InstallOkWorks, RecordedIsRemoved
<1> QED BY <1>1, <1>2, <1>4, <1>5, <1>6, <1>7 DEF InstNext

\* All of it together.
THEOREM InstallerInvariance == InstSpec => []InstInv
<1>1. InstInit => InstInv
  <2> SUFFICES ASSUME InstInit PROVE InstInv
    OBVIOUS
  <2>1. op.kind = "none" /\ report.kind = "none" /\ op = NoOp /\ report = NoReport
    BY DEF InstInit, NoOp, NoReport
  <2>2. OpOK
    BY <2>1 DEF OpOK, Ops, Reports, NoOp, NoReport
  <2>3. PathsOK
    BY DEF InstInit, PathsOK, Kinds, ProfileKinds, Profile
  <2>4. StoreOK
    BY DEF InstInit, StoreOK
  <2>5. CurrentInv
    BY <2>1, InstallerAssumption DEF InstInit, CurrentInv, CurrentIsWhole
  <2> QED BY <2>1, <2>2, <2>3, <2>4, <2>5
          DEF InstInv, InstTypeOK, InstallInv, UninstallInv, InstallOkWorks, RecordedIsRemoved
<1>2. InstInv /\ [InstNext]_instVars => InstInv'
  BY OpTypesKept, PathsKept, StoreKept, CurrentKept, InstallKept, UninstallKept, ReportsKept DEF InstInv, InstTypeOK
<1> QED BY <1>1, <1>2, PTL DEF InstSpec

\* An install that reports success has repaired whatever was left by the ones
\* before it, killed or not.
THEOREM InstallReports == InstSpec => []InstallOkWorks
<1>1. InstInv => InstallOkWorks
  BY DEF InstInv
<1> QED BY <1>1, InstallerInvariance, PTL

\* As long as current leads to a version, that version is whole, or its own
\* replacement has begun and not ended.
THEOREM CurrentStaysWhole == InstSpec => []CurrentIsWhole
<1>1. InstInv => CurrentIsWhole
  BY DEF InstInv, CurrentInv
<1> QED BY <1>1, InstallerInvariance, PTL

\* Whatever was killed or failed before, an uninstall that reports success has removed
\* the command, the link, the payloads and all that the manifest recorded, and the
\* shell integration unless current led to no script that removes it.
THEOREM UninstallReports == InstSpec => []RecordedIsRemoved
<1>1. InstInv => RecordedIsRemoved
  BY DEF InstInv
<1> QED BY <1>1, InstallerInvariance, PTL

-----------------------------------------------------------------------------
(***************************************************************************)
(* The lifecycle of an agent.  Every call of transition but the innermost  *)
(* waits for a listener that calls from within, so that what it has still  *)
(* to tell concerns none of the listeners before that one.                 *)
(***************************************************************************)
AgentStates == DOMAIN TRANSITION_MAP

\* The listeners up to the first that calls from within.
Early == {l \in Listeners : \A r \in Reentrant : l <= r}

LifeTypeOK ==
  /\ currentState \in AgentStates /\ told \in [Listeners -> AgentStates]
  /\ calls \in Seq([new : AgentStates, next : Nat \ {0}])

OuterInv == \A k \in 1..Len(calls) - 1 : calls[k].next - 1 \in Reentrant

\* An early listener has been told, or the innermost call is going to tell it.
EarlyInv ==
  \A l \in Early :
    IF calls = <<>> THEN told[l] = currentState
    ELSE IF Last(calls).next <= l THEN Last(calls).new = currentState ELSE told[l] = currentState

LifeInv == LifeTypeOK /\ OuterInv /\ EarlyInv

\* Every arrow of TRANSITION_MAP leads to a state.
LEMMA NextStates == ASSUME currentState \in AgentStates, NEW t \in TRANSITION_MAP[currentState] PROVE t[2] \in AgentStates
<1>1. AgentStates = {"IDLE", "TURNING", "MUTATING", "CHECKPOINT_DUE", "VERIFYING", "STOPPED"}
  BY DEF AgentStates, TRANSITION_MAP
<1> QED BY <1>1 DEF TRANSITION_MAP

\* A call of transition, from outside or from a listener.
LEMMA CallKeeps ==
  ASSUME LifeInv, NEW t \in TRANSITION_MAP[currentState], Transition(t[2]), told' = told,
         calls # <<>> => Last(calls).next - 1 \in Reentrant
  PROVE  LifeInv'
<1> USE WatchersAssumption DEF LifeInv, LifeTypeOK
<1> DEFINE call == [new |-> t[2], next |-> 1]
<1>1. t[2] \in AgentStates /\ call \in [new : AgentStates, next : Nat \ {0}]
  BY NextStates
<1>2. calls' = Append(calls, call) /\ currentState' = t[2]
  BY DEF Transition
<1>3. call.new = t[2] /\ call.next = 1
  OBVIOUS
<1> HIDE DEF call
<1>4. LifeTypeOK'
  BY <1>1, <1>2
<1>5. OuterInv'
  <2> SUFFICES ASSUME NEW k \in 1..Len(calls') - 1 PROVE calls'[k].next - 1 \in Reentrant
    BY DEF OuterInv
  <2>1. k \in 1..Len(calls) /\ calls'[k] = calls[k]
    BY <1>2
  <2>2. CASE k = Len(calls)
    BY <2>1, <2>2 DEF Last
  <2>3. CASE k # Len(calls)
    BY <2>1, <2>3 DEF OuterInv
  <2> QED BY <2>2, <2>3
<1>6. calls' # <<>> /\ Last(calls') = call
  BY <1>1, <1>2 DEF Last
<1>7. EarlyInv'
  <2>1. Cardinality(Listeners) \in Nat
    BY FS_CardinalityType
  <2>2. \A l \in Listeners : 1 <= l
    BY <2>1
  <2>3. \A l \in Early : 1 <= l
    BY <2>2 DEF Early
  <2> QED BY <1>2, <1>3, <1>6, <2>3 DEF EarlyInv
<1> QED BY <1>4, <1>5, <1>7

\* Telling a listener, or returning.
LEMMA TellKeeps == ASSUME LifeInv, Tell PROVE LifeInv'
<1> USE WatchersAssumption DEF LifeInv, LifeTypeOK
<1> DEFINE n == Len(calls)
           Calls == [new : AgentStates, next : Nat \ {0}]
<1> HIDE DEF Calls
<1>0. calls \in Seq(Calls) /\ calls # <<>> /\ currentState' = currentState
  BY DEF Tell, Calls
<1>1. n \in Nat \ {0} /\ Last(calls) = calls[n] /\ calls[n] \in Calls
  BY <1>0 DEF Last
<1>2. Front(calls) \in Seq(Calls) /\ Len(Front(calls)) = n - 1 /\ \A k \in 1..n - 1 : Front(calls)[k] = calls[k]
  <2>1. Front(calls) = SubSeq(calls, 1, n - 1)
    BY DEF Front
  <2>2. n - 1 \in Int /\ 1 \in Int /\ \A k \in 1..n - 1 : calls[k] \in Calls
    BY <1>0, <1>1
  <2> DEFINE s == SubSeq(calls, 1, n - 1)
  <2>3. /\ s \in Seq(Calls) /\ Len(s) = IF 1 <= n - 1 THEN n - 1 - 1 + 1 ELSE 0
        /\ \A k \in 1..n - 1 - 1 + 1 : s[k] = calls[1 + k - 1]
    BY <2>2, SubSeqProperties
  <2> HIDE DEF s, n
  <2>4. 1..n - 1 - 1 + 1 = 1..n - 1 /\ (IF 1 <= n - 1 THEN n - 1 - 1 + 1 ELSE 0) = n - 1
        /\ \A k \in 1..n - 1 : 1 + k - 1 = k
    BY <1>1
  <2> QED BY <2>1, <2>3, <2>4 DEF s
<1>9. calls[n].new \in AgentStates /\ calls[n].next \in Nat \ {0}
  BY <1>1 DEF Calls
<1>3. Early \subseteq Listeners /\ \A l \in Early : l \in Nat \ {0} /\ \A r \in Reentrant : l <= r
  BY DEF Early
<1>4. CASE Last(calls).next \notin Listeners
  <2>1. calls' = Front(calls) /\ told' = told
    BY <1>4 DEF Tell
  <2>2. LifeTypeOK'
    BY <1>0, <1>2, <2>1 DEF Calls
  <2>6. OuterInv'
    <3> HIDE DEF LifeTypeOK
    <3> SUFFICES ASSUME NEW k \in 1..Len(calls') - 1 PROVE calls'[k].next - 1 \in Reentrant
      BY DEF OuterInv
    <3>1. k \in 1..n - 1 /\ calls'[k] = calls[k]
      BY <1>1, <1>2, <2>1
    <3> QED BY <3>1 DEF OuterInv
  <2>3. \A l \in Early : told[l] = currentState
    <3> SUFFICES ASSUME NEW l \in Early PROVE told[l] = currentState
      OBVIOUS
    <3>1. l \in Listeners /\ calls[n].next \notin Listeners /\ Listeners = 1..Cardinality(Listeners)
          /\ Cardinality(Listeners) \in Nat
      BY <1>1, <1>3, <1>4, FS_CardinalityType
    <3>2. ~(Last(calls).next <= l)
      BY <1>1, <1>9, <3>1
    <3> QED BY <1>0, <3>2 DEF EarlyInv
  <2>4. calls' # <<>> => Last(calls') = calls[n - 1] /\ calls[n - 1].next - 1 \in Reentrant
    BY <1>1, <1>2, <2>1 DEF Last, OuterInv
  <2>5. EarlyInv'
    <3>0. Early' = Early /\ told' = told /\ currentState' = currentState
      BY <1>0, <2>1 DEF Early
    <3> SUFFICES ASSUME NEW l \in Early, calls' # <<>> PROVE ~(Last(calls').next <= l)
      BY <2>3, <3>0 DEF EarlyInv
    <3>1. n - 1 \in 1..n
      BY <1>1, <1>2, <2>1
    <3>3. calls[n - 1] \in Calls
      BY <1>0, <3>1
    <3>2. calls[n - 1].next \in Nat /\ l \in Nat /\ l <= calls[n - 1].next - 1
      BY <1>3, <2>4, <3>3 DEF Calls
    <3> QED BY <2>4, <3>2
  <2> QED BY <2>2, <2>5, <2>6
<1>5. CASE Last(calls).next \in Listeners
  <2> DEFINE call == [calls[n] EXCEPT !.next = @ + 1]
  <2>1. calls' = Append(Front(calls), call) /\ told' = [told EXCEPT ![calls[n].next] = calls[n].new]
    BY <1>1, <1>5 DEF Tell
  <2>2. call \in Calls /\ call.new = calls[n].new /\ call.next = calls[n].next + 1
    BY <1>1 DEF Calls
  <2> HIDE DEF call
  <2>3. LifeTypeOK'
    <3>1. calls' \in Seq(Calls)
      BY <1>2, <2>1, <2>2
    <3>2. told' \in [Listeners -> AgentStates]
      BY <1>9, <2>1
    <3> QED BY <1>0, <3>1, <3>2 DEF Calls
  <2>4. Len(calls') = n /\ Last(calls') = call /\ calls' # <<>> /\ \A k \in 1..n - 1 : calls'[k] = calls[k]
    BY <1>1, <1>2, <2>1, <2>2 DEF Last
  <2>5. OuterInv'
    BY <2>4 DEF OuterInv
  <2>6. EarlyInv'
    <3> SUFFICES ASSUME NEW l \in Early
                 PROVE  IF call.next <= l THEN call.new = currentState ELSE told'[l] = currentState
      BY <1>0, <2>4 DEF EarlyInv, Early
    <3>1. calls[n].next \in Nat /\ l \in Nat /\ l \in Listeners
      BY <1>3, <1>9
    <3>2. IF calls[n].next <= l THEN calls[n].new = currentState ELSE told[l] = currentState
      BY <1>1 DEF EarlyInv
    <3>3. CASE l = calls[n].next
      BY <2>1, <2>2, <3>1, <3>2, <3>3
    <3>4. CASE l # calls[n].next
      BY <2>1, <2>2, <3>1, <3>2, <3>4
    <3> QED BY <3>3, <3>4
  <2> QED BY <2>3, <2>5, <2>6
<1> QED BY <1>4, <1>5

\* All of it together.
THEOREM LifeInvariance == LifeSpec => []LifeInv
<1>1. WatchersInit => LifeInv
  BY DEF WatchersInit, LifeInv, LifeTypeOK, OuterInv, EarlyInv, AgentStates, TRANSITION_MAP, Early
<1>2. LifeInv /\ [LifeNext]_lifeVars => LifeInv'
  <2> SUFFICES ASSUME LifeInv, [LifeNext]_lifeVars PROVE LifeInv'
    OBVIOUS
  <2>1. CASE FromOutside
    BY <2>1, CallKeeps DEF FromOutside
  <2>2. CASE FromListener
    BY <2>2, CallKeeps DEF FromListener
  <2>3. CASE UNCHANGED lifeVars
    BY <2>3 DEF lifeVars, LifeInv, LifeTypeOK, OuterInv, EarlyInv, Last
  <2> QED BY <2>1, <2>2, <2>3, TellKeeps DEF LifeNext
<1> QED BY <1>1, <1>2, PTL DEF LifeSpec

\* When no call of transition is under way, the listeners up to the first that calls
\* from within know the state of the agent, however deep the calls were nested.
THEOREM EarlyListenersKnow == LifeSpec => []ListenersKnow
<1>1. LifeInv => ListenersKnow
  BY DEF LifeInv, EarlyInv, Early, ListenersKnow
<1> QED BY <1>1, LifeInvariance, PTL

-----------------------------------------------------------------------------
(***************************************************************************)
(* The watchdog's counts and the engine's best.  A count is the length of  *)
(* the longest tail of the last turns that is alike, of which as many are  *)
(* kept as the threshold.                                                  *)
(***************************************************************************)
Turns == [command : Commands, success : BOOLEAN, error : Errors \cup {NoError}]

\* The longest tail of s that is in S has n elements.
RunOf(n, s, S) ==
  /\ n \in 0..Len(s)
  /\ \A k \in 0..n - 1 : s[Len(s) - k] \in S
  /\ n < Len(s) => s[Len(s) - n] \notin S

\* The last turns, when one more comes.
Window(s, t) == IF Len(Append(s, t)) > maxRepeatThreshold THEN Tail(Append(s, t)) ELSE Append(s, t)

SameCommand(command) == {t \in Turns : t.command = command}
FailedWith(error) == {t \in Turns : ~t.success /\ t.error = error}

SeenOK ==
  /\ seen \in Seq(Turns) /\ Len(seen) <= maxRepeatThreshold
  /\ seen = <<>> => watch.repeat = 0 /\ watch.failing = 0
  /\ seen # <<>> => watch.command = seen[Len(seen)].command /\ watch.error = seen[Len(seen)].error

WatchInv ==
  /\ SeenOK
  /\ RunOf(watch.repeat, seen, SameCommand(watch.command))
  /\ RunOf(watch.failing, seen, FailedWith(watch.error))
  /\ watch.reason = IF watch.repeat >= maxRepeatThreshold THEN "repeated_command"
                    ELSE IF watch.failing >= maxRepeatThreshold THEN "looping_failure" ELSE "none"

Beats(a, b) == IF research.direction = "MINIMIZE" THEN a < b ELSE a > b

ResearchInv ==
  /\ measured \in Seq(Measures)
  /\ research \in [direction : {"MINIMIZE", "MAXIMIZE"}, baseline : Measures, best : Measures, winner : Nat,
                   kept : BOOLEAN, sign : Int]
  /\ ~Beats(research.baseline, research.best)
  /\ \A k \in DOMAIN measured : ~Beats(measured[k], research.best)
  /\ research.winner = 0 => research.best = research.baseline
  /\ research.winner # 0 =>
       /\ research.winner \in DOMAIN measured /\ measured[research.winner] = research.best
       /\ Beats(research.best, research.baseline)
       /\ \A j \in 1..research.winner - 1 : measured[j] # research.best
  /\ research.kept /\ research.baseline >= 0 =>
       \/ research.sign = 1
       \/ research.sign = 0 /\ Resolution * Abs(research.best - research.baseline) < research.baseline

CountsInv == WatchInv /\ ResearchInv

\* What the window holds after a turn.
LEMMA WindowHolds ==
  ASSUME NEW s \in Seq(Turns), Len(s) <= maxRepeatThreshold, NEW t \in Turns
  PROVE  /\ Window(s, t) \in Seq(Turns) /\ Len(Window(s, t)) <= maxRepeatThreshold /\ Window(s, t) # <<>>
         /\ Len(Window(s, t)) = IF Len(s) < maxRepeatThreshold THEN Len(s) + 1 ELSE maxRepeatThreshold
         /\ Window(s, t)[Len(Window(s, t))] = t
         /\ \A k \in 1..Len(Window(s, t)) - 1 : Window(s, t)[Len(Window(s, t)) - k] = s[Len(s) - (k - 1)]
<1> USE WatchersAssumption
<1> DEFINE all == Append(s, t)
<1>1. /\ all \in Seq(Turns) /\ Len(all) = Len(s) + 1 /\ all[Len(all)] = t /\ all # <<>>
      /\ \A k \in 1..Len(s) : all[k] = s[k]
  OBVIOUS
<1>2. Len(s) \in Nat /\ Len(all) \in Nat
  OBVIOUS
<1> HIDE DEF all
<1>3. CASE Len(all) > maxRepeatThreshold
  <2>1. Window(s, t) = Tail(all) /\ Len(s) = maxRepeatThreshold
    BY <1>1, <1>2, <1>3 DEF Window, all
  <2>2. /\ Tail(all) \in Seq(Turns) /\ Len(Tail(all)) = Len(all) - 1
        /\ \A k \in 1..Len(Tail(all)) : Tail(all)[k] = all[k + 1]
    BY <1>1, HeadTailProperties
  <2> QED BY <1>1, <1>2, <2>1, <2>2
<1>4. CASE ~(Len(all) > maxRepeatThreshold)
  <2>1. Window(s, t) = all
    BY <1>4 DEF Window, all
  <2> QED BY <1>1, <1>2, <1>4, <2>1
<1> QED BY <1>3, <1>4

\* A turn that is alike makes the run longer, as far as the window goes.
LEMMA RunGrows ==
  ASSUME NEW s \in Seq(Turns), Len(s) <= maxRepeatThreshold, NEW t \in Turns, NEW S, NEW n, RunOf(n, s, S), t \in S
  PROVE  RunOf(Capped(n + 1), Window(s, t), S)
<1> DEFINE w == Window(s, t)
           m == Capped(n + 1)
<1>1. /\ w \in Seq(Turns) /\ Len(w) = (IF Len(s) < maxRepeatThreshold THEN Len(s) + 1 ELSE maxRepeatThreshold)
      /\ w[Len(w)] = t /\ \A k \in 1..Len(w) - 1 : w[Len(w) - k] = s[Len(s) - (k - 1)]
  BY WindowHolds
<1>2. Len(s) \in Nat /\ n \in 0..Len(s) /\ maxRepeatThreshold \in Nat \ {0} /\ Len(w) \in Nat
  BY <1>1, WatchersAssumption DEF RunOf
<1>3. m = IF n + 1 > maxRepeatThreshold THEN maxRepeatThreshold ELSE n + 1
  BY DEF Capped
<1> HIDE DEF w, m
<1>4. m \in 0..Len(w)
  BY <1>1, <1>2, <1>3
<1>5. ASSUME NEW k \in 0..m - 1 PROVE w[Len(w) - k] \in S
  <2>1. CASE k = 0
    BY <1>1, <1>2, <2>1
  <2>2. CASE k # 0
    <3>1. k \in 1..Len(w) - 1 /\ k - 1 \in 0..n - 1
      BY <1>1, <1>2, <1>3, <2>2
    <3> QED BY <1>1, <3>1 DEF RunOf
  <2> QED BY <2>1, <2>2
<1>6. ASSUME m < Len(w) PROVE w[Len(w) - m] \notin S
  <2>1. m = n + 1 /\ n < Len(s) /\ m \in 1..Len(w) - 1 /\ m - 1 = n
    BY <1>1, <1>2, <1>3, <1>6
  <2> QED BY <1>1, <2>1 DEF RunOf
<1> QED BY <1>4, <1>5, <1>6 DEF RunOf, w, m

\* One that is not ends it.
LEMMA RunEndsHere ==
  ASSUME NEW s \in Seq(Turns), Len(s) <= maxRepeatThreshold, NEW t \in Turns, NEW S, t \notin S
  PROVE  RunOf(0, Window(s, t), S)
<1>1. Window(s, t) \in Seq(Turns) /\ Window(s, t)[Len(Window(s, t))] = t
  BY WindowHolds
<1> QED BY <1>1 DEF RunOf

\* A run as long as the threshold is the whole window.
LEMMA RunIsAll ==
  ASSUME NEW s \in Seq(Turns), Len(s) <= maxRepeatThreshold, NEW S, NEW n, RunOf(n, s, S)
  PROVE  n >= maxRepeatThreshold <=> Len(s) = maxRepeatThreshold /\ \A k \in DOMAIN s : s[k] \in S
<1>1. Len(s) \in Nat /\ n \in 0..Len(s) /\ maxRepeatThreshold \in Nat \ {0} /\ DOMAIN s = 1..Len(s)
  BY WatchersAssumption DEF RunOf
<1>2. ASSUME n >= maxRepeatThreshold PROVE Len(s) = maxRepeatThreshold /\ \A k \in DOMAIN s : s[k] \in S
  <2>0. n \in Nat /\ n <= Len(s) /\ Len(s) \in Nat /\ maxRepeatThreshold \in Nat
    BY <1>1
  <2>1. n = Len(s) /\ Len(s) = maxRepeatThreshold
    BY <1>2, <2>0
  <2>2. ASSUME NEW k \in DOMAIN s PROVE s[k] \in S
    <3>1. Len(s) - k \in 0..n - 1 /\ Len(s) - (Len(s) - k) = k
      BY <1>1, <2>1
    <3> QED BY <3>1 DEF RunOf
  <2> QED BY <2>1, <2>2
<1>3. ASSUME Len(s) = maxRepeatThreshold, \A k \in DOMAIN s : s[k] \in S PROVE n >= maxRepeatThreshold
  <2> SUFFICES ASSUME n < Len(s) PROVE FALSE
    BY <1>1, <1>3
  <2>1. Len(s) - n \in DOMAIN s
    BY <1>1
  <2> QED BY <1>3, <2>1 DEF RunOf
<1> QED BY <1>2, <1>3

\* The watchdog counts and decides.
LEMMA TurnKeeps ==
  ASSUME WatchInv, NEW command \in Commands, NEW success \in BOOLEAN, NEW error \in Errors \cup {NoError},
         Turn(command, success, error)
  PROVE  WatchInv'
<1> USE DEF WatchInv, SeenOK
<1> DEFINE t == [command |-> command, success |-> success, error |-> error]
           repeat == Capped(IF seen # <<>> /\ watch.command = command THEN watch.repeat + 1 ELSE 1)
           failing == Capped(Failing(success, error))
<1>1. t \in Turns /\ t.command = command /\ t.success = success /\ t.error = error
  BY DEF Turns
<1>2. /\ seen' = Window(seen, t)
      /\ watch' = [command |-> command, error |-> error, repeat |-> repeat, failing |-> failing,
                   reason |-> IF repeat >= maxRepeatThreshold THEN "repeated_command"
                              ELSE IF failing >= maxRepeatThreshold THEN "looping_failure" ELSE "none"]
  BY DEF Turn, Window
<1>3. /\ watch'.command = command /\ watch'.error = error /\ watch'.repeat = repeat /\ watch'.failing = failing
      /\ watch'.reason = IF repeat >= maxRepeatThreshold THEN "repeated_command"
                         ELSE IF failing >= maxRepeatThreshold THEN "looping_failure" ELSE "none"
  BY <1>2
<1> HIDE DEF t, repeat, failing
<1>4. SeenOK'
  BY <1>1, <1>2, <1>3, WindowHolds
<1>5. \E n \in Nat : repeat = Capped(n + 1) /\ RunOf(n, seen, SameCommand(command))
  <2>1. CASE seen # <<>> /\ watch.command = command
    <3>1. repeat = Capped(watch.repeat + 1)
      BY <2>1 DEF repeat
    <3>2. watch.repeat \in Nat
      BY DEF RunOf
    <3> QED BY <2>1, <3>1, <3>2
  <2>2. CASE ~(seen # <<>> /\ watch.command = command)
    <3>1. RunOf(0, seen, SameCommand(command))
      BY <2>2 DEF RunOf, SameCommand
    <3>2. repeat = Capped(0 + 1)
      BY <2>2 DEF repeat
    <3> QED BY <3>1, <3>2
  <2> QED BY <2>1, <2>2
<1>6. RunOf(repeat, seen', SameCommand(command))
  <2>1. t \in SameCommand(command)
    BY <1>1 DEF SameCommand
  <2> QED BY <1>1, <1>2, <1>5, <2>1, RunGrows
<1>7. RunOf(failing, seen', FailedWith(error))
  <2>1. CASE success
    <3>1. failing = 0
      BY <2>1, WatchersAssumption DEF failing, Failing, Capped
    <3>2. t \notin FailedWith(error)
      BY <1>1, <2>1 DEF FailedWith
    <3> QED BY <1>1, <1>2, <3>1, <3>2, RunEndsHere
  <2>2. CASE ~success
    <3>1. t \in FailedWith(error)
      BY <1>1, <2>2 DEF FailedWith
    <3>2. CASE seen # <<>> /\ watch.error = error
      <4>1. failing = Capped(watch.failing + 1)
        BY <2>2, <3>2 DEF failing, Failing
      <4> QED BY <1>1, <1>2, <3>1, <3>2, <4>1, RunGrows
    <3>3. CASE ~(seen # <<>> /\ watch.error = error)
      <4>1. RunOf(0, seen, FailedWith(error))
        BY <3>3 DEF RunOf, FailedWith
      <4>2. failing = Capped(0 + 1)
        BY <2>2, <3>3 DEF failing, Failing
      <4> QED BY <1>1, <1>2, <3>1, <4>1, <4>2, RunGrows
    <3> QED BY <3>2, <3>3
  <2> QED BY <2>1, <2>2
<1>8. SameCommand(command) = SameCommand(watch.command)' /\ FailedWith(error) = FailedWith(watch.error)'
  BY <1>3
<1> QED BY <1>3, <1>4, <1>6, <1>7, <1>8

\* The engine keeps the first of the best.
LEMMA CandidateKeeps ==
  ASSUME ResearchInv, NEW value \in Measures, evaluateCandidate(value) PROVE ResearchInv'
<1> USE WatchersAssumption DEF ResearchInv
<1> DEFINE kept == Beats(value, research.best)
           gain == IF research.direction = "MINIMIZE" THEN research.baseline - value ELSE value - research.baseline
<1>1. /\ research' = [research EXCEPT !.best = IF kept THEN value ELSE @,
                                      !.winner = IF kept THEN Len(measured) + 1 ELSE @,
                                      !.kept = kept, !.sign = ReportedSign(gain, research.baseline)]
      /\ measured' = Append(measured, value)
  BY DEF evaluateCandidate, Beats
<1>2. /\ research'.direction = research.direction /\ research'.baseline = research.baseline
      /\ research'.best = IF kept THEN value ELSE research.best
      /\ research'.winner = IF kept THEN Len(measured) + 1 ELSE research.winner
      /\ research'.kept = kept /\ research'.sign = ReportedSign(gain, research.baseline)
  BY <1>1
<1>3. /\ measured' \in Seq(Measures) /\ Len(measured') = Len(measured) + 1 /\ Len(measured) \in Nat
      /\ measured'[Len(measured) + 1] = value /\ \A k \in 1..Len(measured) : measured'[k] = measured[k]
      /\ DOMAIN measured' = 1..Len(measured) + 1 /\ DOMAIN measured = 1..Len(measured)
  BY <1>1
<1>4. /\ value \in Int /\ research.best \in Int /\ research.baseline \in Int
      /\ \A k \in 1..Len(measured) : measured[k] \in Int
  BY ElementOfSeq
<1>5. \A a, b : Beats(a, b)' <=> Beats(a, b)
  BY <1>2 DEF Beats
<1> HIDE DEF kept, gain
<1>6. research' \in [direction : {"MINIMIZE", "MAXIMIZE"}, baseline : Measures, best : Measures, winner : Nat,
                    kept : BOOLEAN, sign : Int]
  <2>1. kept \in BOOLEAN
    <3>1. CASE research.direction = "MINIMIZE"
      BY <3>1 DEF kept, Beats
    <3>2. CASE research.direction # "MINIMIZE"
      BY <3>2 DEF kept, Beats
    <3> QED BY <3>1, <3>2
  <2> DEFINE sign == ReportedSign(gain, research.baseline)
  <2>2. sign \in Int
    BY DEF ReportedSign
  <2> HIDE DEF sign
  <2>3. research' = [research EXCEPT !.best = IF kept THEN value ELSE @,
                                     !.winner = IF kept THEN Len(measured) + 1 ELSE @,
                                     !.kept = kept, !.sign = sign]
    BY <1>1 DEF sign
  <2>4. (IF kept THEN value ELSE research.best) \in Measures
        /\ (IF kept THEN Len(measured) + 1 ELSE research.winner) \in Nat
    BY <1>3
  <2> QED BY <2>1, <2>2, <2>3, <2>4
<1>7. CASE kept
  <2>1. ~Beats(research'.baseline, research'.best) /\ Beats(research'.best, research'.baseline)
    BY <1>2, <1>4, <1>7 DEF kept, Beats
  <2>2. \A k \in DOMAIN measured' : ~Beats(measured'[k], research'.best)
    BY SMTT(20), <1>2, <1>3, <1>4, <1>7 DEF kept, Beats
  <2>3. \A j \in 1..research'.winner - 1 : measured'[j] # research'.best
    BY <1>2, <1>3, <1>4, <1>7 DEF kept, Beats
  <2>4. research'.winner # 0 /\ research'.winner \in DOMAIN measured' /\ measured'[research'.winner] = research'.best
    BY <1>2, <1>3, <1>7
  <2>5. research'.baseline >= 0 =>
          \/ research'.sign = 1
          \/ research'.sign = 0 /\ Resolution * Abs(research'.best - research'.baseline) < research'.baseline
    <3>1. gain \in Int /\ gain > 0 /\ Abs(value - research.baseline) = gain /\ Abs(gain) = gain
      BY <1>4, <1>7 DEF kept, gain, Beats, Abs
    <3>2. CASE research.baseline >= 0 /\ Resolution * gain < research.baseline
      BY <1>2, <1>4, <1>7, <3>1, <3>2
           DEF ReportedSign, Abs
    <3>3. CASE research.baseline >= 0 /\ ~(Resolution * gain < research.baseline)
      <4>1. Abs(research.baseline) = research.baseline
        BY <1>4, <3>3 DEF Abs
      <4> QED BY <1>2, <1>4, <3>1, <3>3, <4>1 DEF ReportedSign
    <3> QED BY <1>2, <1>4, <3>2, <3>3
  <2> QED BY <1>2, <1>3, <1>5, <1>6, <2>1, <2>2, <2>3, <2>4, <2>5
<1>8. CASE ~kept
  <2>1. research'.best = research.best /\ research'.winner = research.winner /\ research'.kept = FALSE
    BY <1>2, <1>8
  <2>2. \A k \in DOMAIN measured' : ~Beats(measured'[k], research'.best)
    BY <1>3, <1>8, <2>1 DEF kept
  <2> QED BY <1>2, <1>3, <1>5, <1>6, <2>1, <2>2
<1> QED BY <1>7, <1>8

\* All of it together.
THEOREM CountsInvariance == CountsSpec => []CountsInv
<1> USE WatchersAssumption
<1>1. WatchersInit => CountsInv
  <2> SUFFICES ASSUME WatchersInit PROVE CountsInv
    OBVIOUS
  <2>1. WatchInv
    BY DEF WatchersInit, WatchInv, SeenOK, RunOf
  <2>2. /\ research \in [direction : {"MINIMIZE", "MAXIMIZE"}, baseline : Measures, best : Measures, winner : Nat,
                         kept : BOOLEAN, sign : Int]
        /\ research.best = research.baseline /\ research.winner = 0 /\ research.kept = FALSE /\ measured = <<>>
    <3>1. research \in [direction : {"MINIMIZE", "MAXIMIZE"}, baseline : Measures, best : Measures, winner : {0},
                        kept : {FALSE}, sign : {0}]
          /\ research.best = research.baseline /\ measured = <<>>
      BY DEF WatchersInit
    <3>2. /\ research = [direction |-> research.direction, baseline |-> research.baseline, best |-> research.best,
                         winner |-> research.winner, kept |-> research.kept, sign |-> research.sign]
          /\ research.direction \in {"MINIMIZE", "MAXIMIZE"} /\ research.baseline \in Measures
          /\ research.best \in Measures /\ research.winner \in {0}
      BY <3>1
    <3>3. research.kept \in {FALSE} /\ research.sign \in {0}
      BY <3>1, Zenon
    <3>4. research.winner \in Nat /\ research.winner = 0 /\ research.kept = FALSE
          /\ research.kept \in BOOLEAN /\ research.sign \in Int
      <4>1. research.winner \in Nat /\ research.winner = 0
        BY <3>2
      <4>2. research.kept = FALSE
        BY <3>3, Zenon
      <4>3. research.kept \in BOOLEAN
        BY <3>3, Zenon
      <4>4. research.sign \in Int
        BY <3>3
      <4> QED BY <4>1, <4>2, <4>3, <4>4, Zenon
    <3> QED BY <3>1, <3>2, <3>4, Zenon
  <2>4. research.baseline \in Int
    BY <2>2
  <2>3. ResearchInv
    BY <2>2, <2>4 DEF ResearchInv, Beats
  <2> QED BY <2>1, <2>3 DEF CountsInv
<1>2. CountsInv /\ [CountsNext]_<<watchVars, researchVars>> => CountsInv'
  <2> SUFFICES ASSUME CountsInv, [CountsNext]_<<watchVars, researchVars>> PROVE CountsInv'
    OBVIOUS
  <2>1. UNCHANGED watchVars => WatchInv'
    BY DEF CountsInv, watchVars, WatchInv, SeenOK, RunOf
  <2>2. UNCHANGED researchVars => ResearchInv'
    BY DEF CountsInv, researchVars, ResearchInv, Beats, Abs
  <2>3. WatchNext => WatchInv'
    BY TurnKeeps DEF WatchNext, CountsInv
  <2>4. ResearchNext => ResearchInv'
    BY CandidateKeeps DEF ResearchNext, CountsInv
  <2> QED BY <2>1, <2>2, <2>3, <2>4 DEF CountsNext, CountsInv
<1> QED BY <1>1, <1>2, PTL DEF CountsSpec

\* The watchdog fires on a threshold of equal commands, or of failures with one
\* error and no success in between, and on nothing else; the winner is the first
\* of the best experiments, if one is better than the baseline; and what is kept
\* is not reported as a change for the worse, where the baseline is not negative.
THEOREM CountsHold == CountsSpec => []CountsAreExact
<1>1. CountsInv => CountsAreExact
  <2> SUFFICES ASSUME CountsInv PROVE CountsAreExact
    OBVIOUS
  <2> USE DEF CountsInv, WatchInv, SeenOK
  <2> DEFINE AllRepeat == Len(seen) = maxRepeatThreshold /\ \A k \in DOMAIN seen : seen[k].command = watch.command
             AllFail == Len(seen) = maxRepeatThreshold
                        /\ \A k \in DOMAIN seen : ~seen[k].success /\ seen[k].error = watch.error
  <2>0. \A k \in DOMAIN seen : seen[k] \in Turns
    BY ElementOfSeq
  <2>1. watch.repeat >= maxRepeatThreshold <=> AllRepeat
    <3>1. \A k \in DOMAIN seen : seen[k] \in SameCommand(watch.command) <=> seen[k].command = watch.command
      BY <2>0 DEF SameCommand
    <3> QED BY <3>1, RunIsAll
  <2>2. watch.failing >= maxRepeatThreshold <=> AllFail
    <3>1. \A k \in DOMAIN seen : seen[k] \in FailedWith(watch.error) <=> ~seen[k].success /\ seen[k].error = watch.error
      BY <2>0 DEF FailedWith
    <3> QED BY <3>1, RunIsAll
  <2> DEFINE beats(a, b) == IF research.direction = "MINIMIZE" THEN a < b ELSE a > b
             best == {k \in DOMAIN measured : /\ beats(measured[k], research.baseline)
                                              /\ \A j \in DOMAIN measured : ~beats(measured[j], measured[k])
                                              /\ \A j \in 1..k - 1 : measured[j] # measured[k]}
  <2>3. best = {research.winner} \ {0}
    <3> USE DEF ResearchInv, Beats
    <3>0. /\ \A k \in DOMAIN measured : measured[k] \in Int
          /\ research.best \in Int /\ research.baseline \in Int /\ DOMAIN measured \subseteq Nat \ {0}
      <4>1. measured \in Seq(Measures) /\ DOMAIN measured = 1..Len(measured) /\ Len(measured) \in Nat
        OBVIOUS
      <4>2. \A k \in DOMAIN measured : measured[k] \in Measures
        BY <4>1, ElementOfSeq
      <4>3. research.best \in Measures /\ research.baseline \in Measures
        OBVIOUS
      <4>4. \A k \in DOMAIN measured : measured[k] \in Int
        BY <4>2, WatchersAssumption, Zenon DEF WatchersAssumption
      <4>5. research.best \in Int /\ research.baseline \in Int
        BY <4>3, WatchersAssumption, Zenon DEF WatchersAssumption
      <4>6. DOMAIN measured \subseteq Nat \ {0}
        <5> HIDE DEF ResearchInv
        <5> QED BY <4>1
      <4> QED BY <4>4, <4>5, <4>6, Zenon
    <3>1. CASE research.winner = 0
      <4>1. \A k \in DOMAIN measured : ~beats(measured[k], research.baseline)
        BY <3>1
      <4>2. best = {}
        BY <4>1
      <4> QED BY <3>1, <4>2
    <3>2. CASE research.winner # 0
      <4>1. research.winner \in best
        BY <3>0, <3>2
      <4>2. ASSUME NEW k \in best PROVE k = research.winner
        <5>1. k \in DOMAIN measured /\ measured[k] = research.best
          BY <3>0, <3>2
        <5>2. ~(k < research.winner)
          BY <3>0, <3>2, <5>1
        <5>3. ~(research.winner < k)
          BY <3>0, <3>2, <5>1
        <5> QED BY <3>0, <3>2, <5>1, <5>2, <5>3
      <4> QED BY <3>2, <4>1, <4>2
    <3> QED BY <3>1, <3>2
  <2>4. research.kept /\ research.baseline >= 0 =>
          \/ research.sign = 1
          \/ research.sign = 0 /\ Resolution * Abs(research.best - research.baseline) < research.baseline
    BY DEF ResearchInv
  <2>5. watch.reason = "repeated_command" <=> AllRepeat
    BY <2>1
  <2>6. watch.reason = "looping_failure" <=> ~AllRepeat /\ AllFail
    BY <2>1, <2>2
  <2> QED BY <2>3, <2>4, <2>5, <2>6 DEF CountsAreExact
<1> QED BY <1>1, CountsInvariance, PTL

-----------------------------------------------------------------------------
(***************************************************************************)
(* The benchmark.  What a worker has taken from the queue it holds until   *)
(* the result is in or it has rejected; an agent runs while a worker waits *)
(* for it.  The queue is the end of the scenarios, so that what has been   *)
(* taken is known from its length alone.                                   *)
(***************************************************************************)
Taken == 1..Cardinality(ScenarioIds) - Len(queue)
Held(s) == \E w \in Workers : work[w].id = s

WorkInv ==
  /\ \A w \in Workers : work[w].id = NoScenario <=> work[w].at \in {"idle", "resolved", "rejected"}
  /\ \A v, w \in Workers : work[v].id = work[w].id /\ work[v].id # NoScenario => v = w
  /\ \A w \in Workers : work[w].id # NoScenario => work[w].id \in Taken
  /\ \A w \in Workers : work[w].at = "resolved" => queue = <<>>
  /\ outcome # "none" => Settled
  /\ outcome = "published" => ~Failed
  /\ runRoot <=> outcome = "none"

QueueInv ==
  /\ Len(queue) <= Cardinality(ScenarioIds)
  /\ \A i \in DOMAIN queue : queue[i] = Cardinality(ScenarioIds) - Len(queue) + i
  /\ \A i \in DOMAIN completed : completed[i].id \in Taken /\ ~Held(completed[i].id)
  /\ \A i, j \in DOMAIN completed : completed[i].id = completed[j].id => i = j
  /\ ~Failed => \A s \in Taken : Held(s) \/ \E i \in DOMAIN completed : completed[i].id = s

\* Without a worker that waits for it an agent is killed for good, but for what a
\* listing missed; a result that is in is of an agent that nothing changes any more.
AgentInv ==
  /\ \A s \in ScenarioIds : agent[s].procs \subseteq {"late"} \/ \E w \in Workers : Has(w, s, "agent")
  /\ \A s \in ScenarioIds : agent[s].timedOut /\ ~agent[s].killed => \E w \in Workers : Has(w, s, "agent")
  /\ \A s \in ScenarioIds, w \in Workers : agent[s].timedOut /\ Has(w, s, "checks") => agent[s].exit # 0
  /\ \A i \in DOMAIN completed : agent[completed[i].id].timedOut => ~completed[i].passed

BenchInv == BenchTypeOK /\ WorkInv /\ QueueInv /\ AgentInv

\* The number of scenarios.
LEMMA ScenarioCount ==
  /\ Cardinality(ScenarioIds) \in Nat
  /\ \A s : s \in ScenarioIds <=> s \in Nat /\ 1 <= s /\ s <= Cardinality(ScenarioIds)
<1>1. Cardinality(ScenarioIds) \in Nat
  BY BenchmarkAssumption, FS_CardinalityType
<1>2. \A s : s \in 1..Cardinality(ScenarioIds) <=> s \in Nat /\ 1 <= s /\ s <= Cardinality(ScenarioIds)
  BY <1>1
<1> QED BY <1>1, <1>2, BenchmarkAssumption, Zenon

\* A run begins with all the scenarios in the queue.
LEMMA BenchInitInv == BenchInit => BenchInv
<1> SUFFICES ASSUME BenchInit PROVE BenchInv
  OBVIOUS
<1> USE BenchmarkAssumption, ScenarioCount DEF BenchInit, Idle, NoAgent, Running, Processes
<1>1. queue \in Seq(ScenarioIds) /\ Len(queue) = Cardinality(ScenarioIds) /\ \A i \in DOMAIN queue : queue[i] = i
  OBVIOUS
<1>2. BenchTypeOK
  BY <1>1 DEF BenchTypeOK
<1>3. WorkInv
  BY DEF WorkInv
<1>4. QueueInv
  BY <1>1 DEF QueueInv, Taken, Held
<1>5. AgentInv
  BY DEF AgentInv, Has
<1> QED BY <1>2, <1>3, <1>4, <1>5 DEF BenchInv

Trees == [procs : SUBSET Processes, pipe : SUBSET Processes,
          exit : {0, 1, 124}, timedOut : BOOLEAN, killed : BOOLEAN]

\* The steps of the agents, of the timers and of the listings, which are about one
\* agent.
AgentStep(s) ==
  \/ Fork(s) \/ Exits(s) \/ TimesOut(s) \/ ListsForKill(s) \/ ForceKill(s)
  \/ \E w \in Workers : ListsWhatIsLeft(w, s)

Waited(s) == \E w \in Workers : Has(w, s, "agent")

\* What such a step may change: only an agent that is waited for is told anything,
\* and of another one nothing starts but what was missed.
LEMMA AgentSteps ==
  ASSUME BenchTypeOK, NEW s \in ScenarioIds, AgentStep(s),
         agent[s].timedOut /\ ~agent[s].killed => Waited(s)
  PROVE  /\ UNCHANGED <<modes, queue, work, completed, capsule, runRoot, outcome>>
         /\ killing' \in ScenarioIds \cup {NoScenario}
         /\ agent' \in [ScenarioIds -> Trees]
         /\ \A t \in ScenarioIds : t # s => agent'[t] = agent[t]
         /\ Waited(s) \/ (agent[s].procs \subseteq {"late"} => agent'[s].procs \subseteq {"late"})
         /\ agent[s].procs \subseteq {"late"} => agent'[s].exit = agent[s].exit
         /\ Waited(s) \/ (agent'[s].timedOut => agent[s].timedOut)
         /\ agent'[s].timedOut /\ ~agent'[s].killed => Waited(s)
<1>0. agent \in [ScenarioIds -> Trees] /\ agent[s] \in Trees /\ killing \in ScenarioIds \cup {NoScenario}
  BY DEF BenchTypeOK, Trees
<1>1. CASE Fork(s)
  <2> DEFINE new == IF killing = s \/ agent[s].procs = {"late"} THEN "late" ELSE "child"
  <2>1. PICK pipe \in {{}, IF agent[s].pipe = {} THEN {} ELSE {new}} :
          agent' = [agent EXCEPT ![s].procs = @ \cup {new}, ![s].pipe = @ \cup pipe]
    BY <1>1 DEF Fork
  <2>2. UNCHANGED <<killing, modes, queue, work, completed, capsule, runRoot, outcome>> /\ agent[s].procs # {}
    BY <1>1 DEF Fork
  <2>3. new \in Processes /\ (agent[s].procs \subseteq {"late"} => new = "late")
    BY <2>2 DEF Processes
  <2> DEFINE procs == agent[s].procs \cup {new}
             pipes == agent[s].pipe \cup pipe
  <2>4. procs \in SUBSET Processes /\ pipes \in SUBSET Processes
    BY <1>0, <2>3 DEF Trees
  <2>5. agent' = [agent EXCEPT ![s] = [agent[s] EXCEPT !.procs = procs, !.pipe = pipes]]
    BY <2>1
  <2>6. agent[s].procs \subseteq {"late"} => procs \subseteq {"late"}
    BY <2>3
  <2> HIDE DEF procs, pipes, new
  <2>7. [agent[s] EXCEPT !.procs = procs, !.pipe = pipes] \in Trees
    BY <1>0, <2>4 DEF Trees
  <2>8. /\ agent' \in [ScenarioIds -> Trees] /\ \A t \in ScenarioIds : t # s => agent'[t] = agent[t]
        /\ agent'[s].procs = procs /\ agent'[s].exit = agent[s].exit
        /\ agent'[s].timedOut = agent[s].timedOut /\ agent'[s].killed = agent[s].killed
    BY <1>0, <2>5, <2>7 DEF Trees
  <2> QED BY <1>0, <2>2, <2>6, <2>8
<1>2. CASE Exits(s)
  <2>1. PICK p \in agent[s].procs, code \in {0, 1} :
          agent' = [agent EXCEPT ![s].procs = @ \ {p}, ![s].pipe = @ \ {p},
                                 ![s].exit = IF p = "codex" THEN code ELSE @]
    BY Zenon, <1>2 DEF Exits
  <2>2. UNCHANGED <<killing, modes, queue, work, completed, capsule, runRoot, outcome>>
    BY <1>2 DEF Exits
  <2> DEFINE procs == agent[s].procs \ {p}
             pipe == agent[s].pipe \ {p}
             exit == IF p = "codex" THEN code ELSE agent[s].exit
  <2>3. procs \in SUBSET Processes /\ pipe \in SUBSET Processes /\ exit \in {0, 1, 124}
    BY <1>0 DEF Trees
  <2>4. agent[s].procs \subseteq {"late"} => procs \subseteq {"late"} /\ exit = agent[s].exit
    OBVIOUS
  <2>5. agent' = [agent EXCEPT ![s].procs = procs, ![s].pipe = pipe, ![s].exit = exit]
    BY <2>1
  <2> HIDE DEF procs, pipe, exit
  <2>6. agent' = [agent EXCEPT ![s] = [agent[s] EXCEPT !.procs = procs, !.pipe = pipe, !.exit = exit]]
    BY <2>5
  <2>7. [agent[s] EXCEPT !.procs = procs, !.pipe = pipe, !.exit = exit] \in Trees
    BY <1>0, <2>3 DEF Trees
  <2>8. /\ agent' \in [ScenarioIds -> Trees] /\ \A t \in ScenarioIds : t # s => agent'[t] = agent[t]
        /\ agent'[s].procs = procs /\ agent'[s].exit = exit
        /\ agent'[s].timedOut = agent[s].timedOut /\ agent'[s].killed = agent[s].killed
    BY <1>0, <2>6, <2>7 DEF Trees
  <2> QED BY <1>0, <2>2, <2>4, <2>8
<1>3. CASE TimesOut(s)
  <2>1. Waited(s) /\ UNCHANGED <<killing, modes, queue, work, completed, capsule, runRoot, outcome>>
    BY <1>3 DEF TimesOut, Waited
  <2>2. PICK rest \in SUBSET agent[s].procs, code \in {0, 1} :
          agent' = [agent EXCEPT ![s].procs = rest, ![s].pipe = @ \cap rest, ![s].timedOut = TRUE,
                                 ![s].exit = IF "codex" \in agent[s].procs \ rest THEN code ELSE @]
    BY Zenon, <1>3 DEF TimesOut
  <2> DEFINE pipe == agent[s].pipe \cap rest
             exit == IF "codex" \in agent[s].procs \ rest THEN code ELSE agent[s].exit
  <2>3. rest \in SUBSET Processes /\ pipe \in SUBSET Processes /\ exit \in {0, 1, 124}
    BY <1>0 DEF Trees
  <2>4. agent[s].procs \subseteq {"late"} => exit = agent[s].exit
    OBVIOUS
  <2>5. agent' = [agent EXCEPT ![s].procs = rest, ![s].pipe = pipe, ![s].timedOut = TRUE, ![s].exit = exit]
    BY <2>2
  <2> HIDE DEF pipe, exit
  <2>6. agent' = [agent EXCEPT ![s] = [agent[s] EXCEPT !.procs = rest, !.pipe = pipe, !.timedOut = TRUE, !.exit = exit]]
    BY <2>5
  <2>7. [agent[s] EXCEPT !.procs = rest, !.pipe = pipe, !.timedOut = TRUE, !.exit = exit] \in Trees
    BY <1>0, <2>3 DEF Trees
  <2>8. /\ agent' \in [ScenarioIds -> Trees] /\ \A t \in ScenarioIds : t # s => agent'[t] = agent[t]
        /\ agent'[s].exit = exit
    BY <1>0, <2>6, <2>7 DEF Trees
  <2> QED BY <1>0, <2>1, <2>4, <2>8
<1>4. CASE ListsForKill(s) \/ \E w \in Workers : ListsWhatIsLeft(w, s)
  <2>1. Waited(s) /\ UNCHANGED <<modes, queue, work, completed, capsule, runRoot, outcome>> /\ Lists(s)
    BY <1>4 DEF ListsForKill, ListsWhatIsLeft, Waited
  <2> DEFINE procs == Known(agent[s].procs)
             pipe == Known(agent[s].pipe)
  <2>2. procs \in SUBSET Processes /\ pipe \in SUBSET Processes
    BY <1>0 DEF Known, Processes, Trees
  <2>3. agent' = [agent EXCEPT ![s].procs = procs, ![s].pipe = pipe] /\ killing' = s
    BY <2>1 DEF Lists
  <2> HIDE DEF procs, pipe
  <2>4. agent' = [agent EXCEPT ![s] = [agent[s] EXCEPT !.procs = procs, !.pipe = pipe]]
    BY <2>3
  <2>5. [agent[s] EXCEPT !.procs = procs, !.pipe = pipe] \in Trees
    BY <1>0, <2>2 DEF Trees
  <2>6. /\ agent' \in [ScenarioIds -> Trees] /\ \A t \in ScenarioIds : t # s => agent'[t] = agent[t]
        /\ agent'[s].exit = agent[s].exit
    BY <1>0, <2>4, <2>5 DEF Trees
  <2> QED BY <2>1, <2>3, <2>6
<1>5. CASE ForceKill(s)
  <2>1. Waited(s) /\ killing' = NoScenario /\ UNCHANGED <<modes, queue, work, completed, capsule, runRoot, outcome>>
    BY <1>5 DEF ForceKill
  <2> DEFINE procs == agent[s].procs \cap {"late"}
             pipe == agent[s].pipe \cap {"late"}
             exit == IF "codex" \in agent[s].procs THEN 1 ELSE agent[s].exit
  <2>2. procs \in SUBSET Processes /\ pipe \in SUBSET Processes /\ exit \in {0, 1, 124}
    BY <1>0 DEF Trees
  <2>3. agent[s].procs \subseteq {"late"} => exit = agent[s].exit
    OBVIOUS
  <2>4. agent' = [agent EXCEPT ![s].procs = procs, ![s].pipe = pipe, ![s].killed = TRUE, ![s].exit = exit]
    BY <1>5 DEF ForceKill
  <2> HIDE DEF procs, pipe, exit
  <2>5. agent' = [agent EXCEPT ![s] = [agent[s] EXCEPT !.procs = procs, !.pipe = pipe, !.killed = TRUE, !.exit = exit]]
    BY <2>4
  <2>6. [agent[s] EXCEPT !.procs = procs, !.pipe = pipe, !.killed = TRUE, !.exit = exit] \in Trees
    BY <1>0, <2>2 DEF Trees
  <2>7. /\ agent' \in [ScenarioIds -> Trees] /\ \A t \in ScenarioIds : t # s => agent'[t] = agent[t]
        /\ agent'[s].exit = exit
    BY <1>0, <2>5, <2>6 DEF Trees
  <2> QED BY <2>1, <2>3, <2>7
<1> QED BY <1>1, <1>2, <1>3, <1>4, <1>5 DEF AgentStep

\* A result that is in is of a scenario.
LEMMA CompletedIds == ASSUME BenchTypeOK PROVE \A i \in DOMAIN completed : completed[i].id \in ScenarioIds
<1>1. completed \in Seq([id : ScenarioIds, passed : BOOLEAN]) /\ DOMAIN completed = 1..Len(completed)
  BY DEF BenchTypeOK
<1>2. \A i \in DOMAIN completed : completed[i] \in [id : ScenarioIds, passed : BOOLEAN]
  BY <1>1, ElementOfSeq
<1> QED BY <1>2

\* They keep the invariant: what they change is an agent a worker waits for.
LEMMA AgentStepKeeps == ASSUME BenchInv, NEW s \in ScenarioIds, AgentStep(s) PROVE BenchInv'
<1> USE DEF BenchInv
<1>0. agent[s].timedOut /\ ~agent[s].killed => Waited(s)
  BY DEF AgentInv, Waited
<1>1. /\ UNCHANGED <<modes, queue, work, completed, capsule, runRoot, outcome>>
      /\ killing' \in ScenarioIds \cup {NoScenario}
      /\ agent' \in [ScenarioIds -> Trees]
      /\ \A t \in ScenarioIds : t # s => agent'[t] = agent[t]
      /\ Waited(s) \/ (agent[s].procs \subseteq {"late"} => agent'[s].procs \subseteq {"late"})
      /\ agent[s].procs \subseteq {"late"} => agent'[s].exit = agent[s].exit
      /\ Waited(s) \/ (agent'[s].timedOut => agent[s].timedOut)
      /\ agent'[s].timedOut /\ ~agent'[s].killed => Waited(s)
  BY <1>0, AgentSteps
<1>2. BenchTypeOK'
  BY <1>1 DEF BenchTypeOK, Trees
<1>3. WorkInv' /\ QueueInv'
  BY <1>1 DEF WorkInv, QueueInv, Settled, Failed, Held, Taken
<1>4. ASSUME NEW w \in Workers, Has(w, s, "agent"), NEW v \in Workers, work[v].id = s PROVE v = w
  <2>1. work[w].id = s /\ s # NoScenario
    BY <1>4, BenchmarkAssumption DEF Has
  <2> QED BY <1>4, <2>1 DEF WorkInv
<1>5. AgentInv'
  <2>1. \A t \in ScenarioIds : Waited(t)' <=> Waited(t)
    BY <1>1 DEF Waited, Has
  <2>2. \A t \in ScenarioIds : /\ agent'[t].procs \subseteq {"late"} \/ Waited(t)'
                               /\ agent'[t].timedOut /\ ~agent'[t].killed => Waited(t)'
    <3>1. \A t \in ScenarioIds : /\ agent[t].procs \subseteq {"late"} \/ Waited(t)
                                 /\ agent[t].timedOut /\ ~agent[t].killed => Waited(t)
      BY DEF AgentInv, Waited
    <3> QED BY <1>1, <2>1, <3>1
  <2>3. ASSUME NEW t \in ScenarioIds, NEW w \in Workers, agent'[t].timedOut, Has(w, t, "checks")'
        PROVE  agent'[t].exit # 0
    <3>1. Has(w, t, "checks") /\ work[w].at = "checks" /\ work[w].id = t
      BY <1>1, <2>3 DEF Has
    <3>2. CASE t = s
      <4>1. ~Waited(s)
        BY <1>4, <3>1, <3>2 DEF Waited, Has
      <4>2. agent[s].procs \subseteq {"late"}
        BY <4>1 DEF AgentInv, Waited
      <4> QED BY <1>1, <2>3, <3>1, <3>2, <4>1, <4>2 DEF AgentInv
    <3>3. CASE t # s
      BY <1>1, <2>3, <3>1, <3>3 DEF AgentInv
    <3> QED BY <3>2, <3>3
  <2>4. ASSUME NEW i \in DOMAIN completed, agent'[completed[i].id].timedOut PROVE ~completed[i].passed
    <3>1. completed[i].id \in ScenarioIds
      BY CompletedIds
    <3>2. ~Waited(completed[i].id)
      BY DEF QueueInv, Held, Waited, Has
    <3> QED BY <1>1, <2>4, <3>1, <3>2 DEF AgentInv
  <2> QED BY <1>1, <2>2, <2>3, <2>4 DEF AgentInv, Waited
<1> QED BY <1>2, <1>3, <1>5

\* A worker that moves leaves the others where they are.
LEMMA MovesOne ==
  ASSUME BenchTypeOK, NEW w \in Workers, NEW s, NEW at, Moves(w, s, at)
  PROVE  work' = [v \in Workers |-> IF v = w THEN [at |-> at, id |-> s] ELSE work[v]]
BY DEF BenchTypeOK, Moves

\* What is left of a queue that is the end of the scenarios is one as well.
LEMMA QueueTail ==
  ASSUME BenchTypeOK, QueueInv, queue # <<>>, queue' = Tail(queue)
  PROVE  /\ queue' \in Seq(ScenarioIds) /\ Len(queue') = Len(queue) - 1 /\ Len(queue) \in Nat \ {0}
         /\ Len(queue') <= Cardinality(ScenarioIds)
         /\ \A i \in DOMAIN queue' : queue'[i] = Cardinality(ScenarioIds) - Len(queue') + i
         /\ Head(queue) = Cardinality(ScenarioIds) - Len(queue') /\ Head(queue) \in ScenarioIds
         /\ Taken' = Taken \cup {Head(queue)} /\ Head(queue) \notin Taken
<1>0. queue \in Seq(ScenarioIds)
  BY DEF BenchTypeOK
<1>1. /\ queue' \in Seq(ScenarioIds) /\ Len(queue') = Len(queue) - 1 /\ Len(queue) \in Nat \ {0}
      /\ \A i \in 1..Len(queue') : queue'[i] = queue[i + 1]
      /\ Head(queue) = queue[1]
  BY <1>0, HeadTailProperties
<1>2. DOMAIN queue = 1..Len(queue) /\ DOMAIN queue' = 1..Len(queue')
  BY <1>0, <1>1
<1>3. /\ Len(queue) <= Cardinality(ScenarioIds)
      /\ \A i \in DOMAIN queue : queue[i] = Cardinality(ScenarioIds) - Len(queue) + i
  BY DEF QueueInv
<1>4. ASSUME NEW i \in DOMAIN queue' PROVE queue'[i] = Cardinality(ScenarioIds) - Len(queue') + i
  <2>1. i \in Nat /\ i + 1 \in DOMAIN queue /\ queue'[i] = queue[i + 1]
    BY <1>1, <1>2
  <2>2. queue[i + 1] = Cardinality(ScenarioIds) - Len(queue) + (i + 1)
    BY <1>3, <2>1
  <2> QED BY <1>1, <2>1, <2>2, ScenarioCount
<1>5. Head(queue) = Cardinality(ScenarioIds) - Len(queue')
  <2>1. 1 \in DOMAIN queue
    BY <1>1, <1>2
  <2>2. queue[1] = Cardinality(ScenarioIds) - Len(queue) + 1
    BY <1>3, <2>1
  <2> QED BY <1>1, <2>2, ScenarioCount
<1>6. Head(queue) \in ScenarioIds
  BY <1>0, HeadTailProperties
<1>7. Taken' = Taken \cup {Head(queue)} /\ Head(queue) \notin Taken
  BY <1>1, <1>3, <1>5, ScenarioCount DEF Taken
<1> QED BY <1>1, <1>3, <1>4, <1>5, <1>6, <1>7, ScenarioCount

\* A worker takes the next scenario, or ends.
LEMMA TakeNextKeeps == ASSUME BenchInv, NEW w \in Workers, TakeNext(w) PROVE BenchInv'
<1> USE BenchmarkAssumption DEF BenchInv
<1>0. /\ work[w].at = "idle" /\ UNCHANGED <<killing, modes, completed, agent, capsule, runRoot, outcome>>
      /\ work[w].id = NoScenario /\ ~Settled /\ outcome = "none"
  <2>1. work[w].at = "idle" /\ UNCHANGED <<killing, modes, completed, agent, capsule, runRoot, outcome>>
    BY DEF TakeNext
  <2> QED BY <2>1 DEF WorkInv, Settled
<1>1. CASE queue = <<>>
  <2>1. work' = [v \in Workers |-> IF v = w THEN [at |-> "resolved", id |-> NoScenario] ELSE work[v]] /\ queue' = queue
    BY <1>1, MovesOne DEF TakeNext
  <2>2. BenchTypeOK'
    BY <1>0, <2>1 DEF BenchTypeOK
  <2>3. WorkInv'
    BY <1>0, <1>1, <2>1 DEF WorkInv, Settled, Failed, Taken
  <2>4. QueueInv'
    BY <1>0, <2>1 DEF QueueInv, Failed, Taken, Held
  <2>5. AgentInv'
    BY <1>0, <2>1 DEF AgentInv, Has
  <2> QED BY <2>2, <2>3, <2>4, <2>5
<1>2. CASE queue # <<>>
  <2>1. /\ queue' = Tail(queue) /\ Len(queue') = Len(queue) - 1
        /\ queue' \in Seq(ScenarioIds)
        /\ Len(queue') <= Cardinality(ScenarioIds)
        /\ \A i \in DOMAIN queue' : queue'[i] = Cardinality(ScenarioIds) - Len(queue') + i
        /\ Head(queue) \in ScenarioIds /\ Head(queue) # NoScenario
        /\ Taken' = Taken \cup {Head(queue)} /\ Head(queue) \notin Taken
    BY <1>2, QueueTail DEF TakeNext
  <2>2. PICK at \in {"spawn", "capsule", "rejected"}, s \in ScenarioIds \cup {NoScenario} :
          /\ work' = [v \in Workers |-> IF v = w THEN [at |-> at, id |-> s] ELSE work[v]]
          /\ s = IF at = "rejected" THEN NoScenario ELSE Head(queue)
    <3>1. Moves(w, Head(queue), "spawn") \/ Moves(w, Head(queue), "capsule") \/ Moves(w, NoScenario, "rejected")
      BY <1>2 DEF TakeNext, Rejects
    <3> QED BY <2>1, <3>1, MovesOne
  <2>3. BenchTypeOK'
    BY <1>0, <2>1, <2>2 DEF BenchTypeOK
  <2>4. WorkInv'
    BY <1>0, <1>2, <2>1, <2>2 DEF WorkInv, Settled, Failed
  <2>5. QueueInv'
    <3>1. \A i \in DOMAIN completed : completed[i].id \in Taken' /\ ~Held(completed[i].id)'
      BY <1>0, <2>1, <2>2, CompletedIds DEF QueueInv, Held
    <3>2. ASSUME ~Failed', NEW t \in Taken' PROVE Held(t)' \/ \E i \in DOMAIN completed : completed[i].id = t
      <4>1. ~Failed /\ s = Head(queue) /\ work'[w].id = s
        BY <1>0, <2>2, <3>2 DEF Failed
      <4>2. CASE t = s
        BY <4>1, <4>2 DEF Held
      <4>3. CASE t # s
        <5>1. t \in Taken /\ t # NoScenario
          BY <2>1, <3>2, <4>1, <4>3, ScenarioCount DEF Taken
        <5>2. CASE \E i \in DOMAIN completed : completed[i].id = t
          BY <5>2
        <5>3. CASE Held(t)
          BY <1>0, <2>2, <5>1, <5>3 DEF Held
        <5> QED BY <4>1, <5>1, <5>2, <5>3 DEF QueueInv
      <4> QED BY <4>2, <4>3
    <3> QED BY <1>0, <2>1, <3>1, <3>2 DEF QueueInv
  <2>6. AgentInv'
    BY <1>0, <2>2 DEF AgentInv, Has
  <2> QED BY <2>3, <2>4, <2>5, <2>6
<1> QED BY <1>1, <1>2

\* A worker that keeps its scenario, or drops it and rejects, while the agents stay
\* as they are.
LEMMA HolderMoves ==
  ASSUME BenchInv, NEW w \in Workers, NEW s \in ScenarioIds, work[w].id = s,
         NEW at \in {"capsule", "spawn", "agent", "checks", "rejected"},
         Moves(w, IF at = "rejected" THEN NoScenario ELSE s, at),
         UNCHANGED <<modes, queue, completed, runRoot, outcome>>,
         capsule' \in [ScenarioIds -> {"none", "there", "destroyed"}],
         killing' \in ScenarioIds \cup {NoScenario}
  PROVE  WorkInv' /\ QueueInv' /\ (agent' = agent => BenchTypeOK')
<1> USE BenchmarkAssumption DEF BenchInv
<1> DEFINE new == IF at = "rejected" THEN NoScenario ELSE s
<1>1. work' = [v \in Workers |-> IF v = w THEN [at |-> at, id |-> new] ELSE work[v]]
  BY MovesOne
<1>2. outcome = "none" /\ s # NoScenario
  BY DEF WorkInv, Settled
<1>3. WorkInv'
  BY <1>1, <1>2 DEF WorkInv, Settled, Failed, Taken
<1>4. QueueInv'
  <2>1. \A i \in DOMAIN completed : completed[i].id \in Taken' /\ ~Held(completed[i].id)'
    BY <1>1, CompletedIds DEF QueueInv, Held, Taken
  <2>2. ASSUME ~Failed', NEW t \in Taken' PROVE Held(t)' \/ \E i \in DOMAIN completed : completed[i].id = t
    <3>1. ~Failed /\ at # "rejected" /\ t \in Taken
      BY <1>1, <2>2 DEF Failed, WorkInv, Taken
    <3>2. Held(t) => Held(t)'
      BY <1>1, <3>1 DEF Held
    <3> QED BY <3>1, <3>2 DEF QueueInv
  <2> QED BY <2>1, <2>2 DEF QueueInv
<1>5. agent' = agent => BenchTypeOK'
  BY <1>1 DEF BenchTypeOK
<1> QED BY <1>3, <1>4, <1>5

\* The steps before the agent and beside it.
LEMMA MakeCapsuleKeeps ==
  ASSUME BenchInv, NEW w \in Workers, NEW s \in ScenarioIds, MakeCapsule(w, s) PROVE BenchInv'
<1> USE BenchmarkAssumption DEF BenchInv
<1>1. /\ work[w].id = s /\ work[w].at = "capsule"
      /\ UNCHANGED <<killing, modes, queue, completed, agent, runRoot, outcome>>
      /\ killing' \in ScenarioIds \cup {NoScenario}
      /\ capsule' \in [ScenarioIds -> {"none", "there", "destroyed"}]
  <2>1. capsule \in [ScenarioIds -> {"none", "there", "destroyed"}]
    BY DEF BenchTypeOK
  <2>2. capsule' = [capsule EXCEPT ![s] = "there"] \/ capsule' = capsule
    BY DEF MakeCapsule
  <2>3. killing \in ScenarioIds \cup {NoScenario}
    BY DEF BenchTypeOK
  <2>4. UNCHANGED <<killing, modes, queue, completed, agent, runRoot, outcome>> /\ work[w] = [at |-> "capsule", id |-> s]
    BY DEF MakeCapsule, Has
  <2> QED BY <2>1, <2>2, <2>3, <2>4
<1>2. PICK at \in {"spawn", "rejected"} : Moves(w, IF at = "rejected" THEN NoScenario ELSE s, at)
  BY DEF MakeCapsule, Rejects
<1>3. WorkInv' /\ QueueInv' /\ BenchTypeOK'
  BY <1>1, <1>2, HolderMoves
<1>4. work' = [v \in Workers |-> IF v = w THEN [at |-> at, id |-> IF at = "rejected" THEN NoScenario ELSE s] ELSE work[v]]
  BY <1>2, MovesOne
<1>5. AgentInv'
  BY <1>1, <1>4 DEF AgentInv, Has
<1> QED BY <1>3, <1>5

\* An agent is started by the worker that waits for it, or the worker rejects.
LEMMA SpawnKeeps ==
  ASSUME BenchInv, NEW w \in Workers, NEW s \in ScenarioIds, Spawn(w, s) PROVE BenchInv'
<1> USE BenchmarkAssumption DEF BenchInv
<1>1. /\ work[w].id = s /\ work[w].at = "spawn"
      /\ UNCHANGED <<killing, modes, queue, completed, runRoot, outcome>>
      /\ killing' \in ScenarioIds \cup {NoScenario}
      /\ capsule' \in [ScenarioIds -> {"none", "there", "destroyed"}]
  BY DEF Spawn, Has, BenchTypeOK
<1>2. CASE Moves(w, s, "agent") /\ agent' = [agent EXCEPT ![s] = NewAgent]
  <2>1. WorkInv' /\ QueueInv'
    BY <1>1, <1>2, HolderMoves
  <2>2. work' = [v \in Workers |-> IF v = w THEN [at |-> "agent", id |-> s] ELSE work[v]]
    BY <1>2, MovesOne
  <2>3. NewAgent \in Trees
    BY DEF NewAgent, Running, Trees, Processes
  <2>4. BenchTypeOK'
    BY <1>1, <1>2, <2>2, <2>3 DEF BenchTypeOK, Trees
  <2>5. agent'[s].timedOut = FALSE /\ \A t \in ScenarioIds : t # s => agent'[t] = agent[t]
    BY <1>2 DEF BenchTypeOK, NewAgent, Running
  <2>6. \A i \in DOMAIN completed : completed[i].id # s /\ completed[i].id \in ScenarioIds
    BY <1>1, CompletedIds DEF QueueInv, Held
  <2>7. AgentInv'
    BY <1>1, <2>2, <2>5, <2>6 DEF AgentInv, Has
  <2> QED BY <2>1, <2>4, <2>7
<1>3. CASE Rejects(w) /\ agent' = agent
  <2>1. Moves(w, NoScenario, "rejected")
    BY <1>3 DEF Rejects
  <2>2. WorkInv' /\ QueueInv' /\ BenchTypeOK'
    BY <1>1, <1>3, <2>1, HolderMoves
  <2>3. work' = [v \in Workers |-> IF v = w THEN [at |-> "rejected", id |-> NoScenario] ELSE work[v]]
    BY <2>1, MovesOne
  <2>4. AgentInv'
    BY <1>1, <1>3, <2>3 DEF AgentInv, Has
  <2> QED BY <2>2, <2>4
<1> QED BY <1>2, <1>3 DEF Spawn

\* A capsule is removed by the worker that holds its scenario.
LEMMA DropCapsuleKeeps ==
  ASSUME BenchInv, NEW w \in Workers, NEW s \in ScenarioIds, DropCapsule(w, s) PROVE BenchInv'
<1> USE DEF BenchInv
<1>1. UNCHANGED <<killing, modes, queue, work, completed, agent, runRoot, outcome>>
      /\ capsule' = [capsule EXCEPT ![s] = "destroyed"]
  BY DEF DropCapsule
<1>2. BenchTypeOK'
  BY <1>1 DEF BenchTypeOK
<1>3. WorkInv' /\ QueueInv' /\ AgentInv'
  BY <1>1 DEF WorkInv, QueueInv, AgentInv, Settled, Failed, Taken, Held, Has
<1> QED BY <1>2, <1>3

\* An agent that has timed out was killed, and returns 124.
LEMMA ReturnsKeeps ==
  ASSUME BenchInv, NEW w \in Workers, NEW s \in ScenarioIds, Returns(w, s) PROVE BenchInv'
<1> USE BenchmarkAssumption DEF BenchInv
<1>1. /\ work[w].id = s /\ work[w].at = "agent"
      /\ UNCHANGED <<modes, queue, completed, capsule, runRoot, outcome>>
      /\ killing' \in ScenarioIds \cup {NoScenario}
      /\ agent[s].timedOut => agent[s].killed
      /\ capsule' \in [ScenarioIds -> {"none", "there", "destroyed"}]
      /\ Moves(w, s, "checks")
  BY DEF Returns, Ended, Has, BenchTypeOK
<1>2. WorkInv' /\ QueueInv'
  BY <1>1, HolderMoves
<1>3. work' = [v \in Workers |-> IF v = w THEN [at |-> "checks", id |-> s] ELSE work[v]]
  BY <1>1, MovesOne
<1> DEFINE procs == agent[s].procs \cap {"late"}
           code == completionExitCode(agent[s].exit, agent[s].timedOut)
<1>4. code \in {0, 1, 124} /\ (agent[s].timedOut => code # 0)
  BY DEF completionExitCode, BenchTypeOK
<1>5. agent' = [agent EXCEPT ![s].procs = procs, ![s].exit = code] /\ procs \subseteq {"late"}
      /\ procs \in SUBSET Processes
  BY DEF Returns, Processes
<1> HIDE DEF code, procs
<1>6. /\ agent' \in [ScenarioIds -> Trees] /\ agent'[s].procs = procs /\ agent'[s].exit = code
      /\ agent'[s].timedOut = agent[s].timedOut /\ agent'[s].killed = agent[s].killed /\ \A t \in ScenarioIds : t # s => agent'[t] = agent[t]
  <2>1. agent \in [ScenarioIds -> Trees] /\ agent[s] \in Trees
    BY DEF BenchTypeOK, Trees
  <2>2. agent' = [agent EXCEPT ![s] = [agent[s] EXCEPT !.procs = procs, !.exit = code]]
    BY <1>5, <2>1
  <2>3. [agent[s] EXCEPT !.procs = procs, !.exit = code] \in Trees
    BY <1>4, <1>5, <2>1 DEF Trees
  <2>4. agent' \in [ScenarioIds -> Trees]
    BY <2>1, <2>2, <2>3
  <2>5. agent'[s].procs = procs /\ agent'[s].exit = code
        /\ agent'[s].timedOut = agent[s].timedOut /\ agent'[s].killed = agent[s].killed
    BY <2>1, <2>2 DEF Trees
  <2> QED BY <2>1, <2>2, <2>4, <2>5
<1>7. BenchTypeOK'
  BY <1>1, <1>3, <1>6 DEF BenchTypeOK, Trees
<1>8. \A i \in DOMAIN completed : completed[i].id # s /\ completed[i].id \in ScenarioIds
  BY <1>1, CompletedIds DEF QueueInv, Held
<1>9. AgentInv'
  BY <1>1, <1>3, <1>4, <1>5, <1>6, <1>8 DEF AgentInv, Has
<1> QED BY <1>2, <1>7, <1>9

\* A result comes in, of which the agent has returned, or the worker rejects.
LEMMA CheckKeeps ==
  ASSUME BenchInv, NEW w \in Workers, NEW s \in ScenarioIds, Check(w, s) PROVE BenchInv'
<1> USE BenchmarkAssumption DEF BenchInv
<1>1. /\ work[w].id = s /\ work[w].at = "checks" /\ Has(w, s, "checks")
      /\ UNCHANGED <<killing, modes, queue, agent, capsule, runRoot, outcome>>
      /\ killing' \in ScenarioIds \cup {NoScenario}
      /\ capsule' \in [ScenarioIds -> {"none", "there", "destroyed"}]
  BY DEF Check, Has, BenchTypeOK
<1>2. CASE Rejects(w) /\ UNCHANGED completed
  <2>1. Moves(w, NoScenario, "rejected")
    BY <1>2 DEF Rejects
  <2>2. WorkInv' /\ QueueInv' /\ BenchTypeOK'
    BY <1>1, <1>2, <2>1, HolderMoves
  <2>3. work' = [v \in Workers |-> IF v = w THEN [at |-> "rejected", id |-> NoScenario] ELSE work[v]]
    BY <2>1, MovesOne
  <2>4. AgentInv'
    BY <1>1, <1>2, <2>3 DEF AgentInv, Has
  <2> QED BY <2>2, <2>4
<1>3. ASSUME NEW checksPass \in BOOLEAN, Moves(w, NoScenario, "idle"),
             completed' = Append(completed, [id |-> s, passed |-> checksPass /\ agent[s].exit = 0])
      PROVE  BenchInv'
  <2> DEFINE passed == checksPass /\ agent[s].exit = 0
             result == [id |-> s, passed |-> passed]
  <2>1. passed \in BOOLEAN /\ (agent[s].timedOut => ~passed)
    BY <1>1 DEF AgentInv
  <2> HIDE DEF passed
  <2>2. result \in [id : ScenarioIds, passed : BOOLEAN] /\ result.id = s /\ result.passed = passed
    BY <2>1
  <2>3. completed' = Append(completed, result)
    BY <1>3 DEF passed
  <2> HIDE DEF result
  <2>4. completed \in Seq([id : ScenarioIds, passed : BOOLEAN])
    BY DEF BenchTypeOK
  <2>5. /\ completed' \in Seq([id : ScenarioIds, passed : BOOLEAN])
        /\ Len(completed) \in Nat
        /\ DOMAIN completed = 1..Len(completed) /\ DOMAIN completed' = 1..Len(completed) + 1
        /\ completed'[Len(completed) + 1] = result
        /\ \A i \in DOMAIN completed : completed'[i] = completed[i]
    BY <2>2, <2>3, <2>4
  <2>6. work' = [v \in Workers |-> IF v = w THEN [at |-> "idle", id |-> NoScenario] ELSE work[v]]
    BY <1>3, MovesOne
  <2>7. outcome = "none" /\ s # NoScenario /\ s \in Taken /\ Taken' = Taken
    BY <1>1 DEF WorkInv, Settled, Taken
  <2>8. BenchTypeOK'
    BY <1>1, <2>5, <2>6 DEF BenchTypeOK
  <2>9. WorkInv'
    BY <1>1, <2>6, <2>7 DEF WorkInv, Settled, Failed
  <2>10. \A i \in DOMAIN completed : completed[i].id # s
    BY <1>1 DEF QueueInv, Held
  <2>11. QueueInv'
    <3>1. \A t : Held(t)' => Held(t) \/ t = NoScenario
      BY <2>6 DEF Held
    <3>2. ASSUME NEW v \in Workers, work'[v].id = s PROVE FALSE
      BY <1>1, <2>6, <2>7, <3>2 DEF WorkInv
    <3>3. ~Held(s)'
      BY <3>2 DEF Held
    <3>4. ASSUME NEW i \in DOMAIN completed' PROVE completed'[i].id \in Taken' /\ ~Held(completed[i].id)'
      <4>1. CASE i \in DOMAIN completed
        <5>1. completed'[i] = completed[i] /\ completed[i].id \in Taken /\ ~\E v \in Workers : work[v].id = completed[i].id
          BY <2>5, <4>1 DEF QueueInv, Held
        <5>2. completed[i].id # NoScenario
          BY <4>1, CompletedIds
        <5> QED BY <2>6, <2>7, <5>1, <5>2 DEF Held
      <4>2. CASE i \notin DOMAIN completed
        <5>1. completed'[i].id = s
          BY <2>2, <2>5, <4>2
        <5> QED BY <2>7, <3>2, <5>1 DEF Held
      <4> QED BY <4>1, <4>2
    <3>5. \A i, j \in DOMAIN completed' : completed'[i].id = completed'[j].id => i = j
      BY <2>2, <2>5, <2>10 DEF QueueInv
    <3>6. ASSUME ~Failed', NEW t \in Taken' PROVE Held(t)' \/ \E i \in DOMAIN completed' : completed'[i].id = t
      <4>1. ~Failed /\ t \in Taken
        BY <1>1, <2>6, <2>7, <3>6 DEF Failed
      <4>2. Held(t) \/ \E i \in DOMAIN completed : completed[i].id = t
        BY <4>1 DEF QueueInv
      <4>3. CASE Held(t) /\ t # s
        BY <1>1, <2>6, <4>3 DEF Held
      <4>4. CASE t = s
        BY <2>2, <2>5, <4>4
      <4>5. CASE \E i \in DOMAIN completed : completed[i].id = t
        BY <2>5, <4>5
      <4> QED BY <4>2, <4>3, <4>4, <4>5
    <3>7. /\ queue' = queue /\ Len(queue) <= Cardinality(ScenarioIds)
          /\ \A i \in DOMAIN queue : queue[i] = Cardinality(ScenarioIds) - Len(queue) + i
      BY <1>1 DEF QueueInv
    <3>8. /\ Len(queue') <= Cardinality(ScenarioIds)
          /\ \A i \in DOMAIN queue' : queue'[i] = Cardinality(ScenarioIds) - Len(queue') + i
      BY <3>7
    <3> QED BY <3>4, <3>5, <3>6, <3>8 DEF QueueInv
  <2>12. AgentInv'
    <3>1. \A t \in ScenarioIds : /\ agent'[t].procs \subseteq {"late"} \/ \E v \in Workers : Has(v, t, "agent")'
                                 /\ agent'[t].timedOut /\ ~agent'[t].killed => \E v \in Workers : Has(v, t, "agent")'
      <4>1. \A t, v : Has(v, t, "agent") => v # w
        BY <1>1 DEF Has
      <4>2. \A t, v : v \in Workers /\ v # w => (Has(v, t, "agent")' <=> Has(v, t, "agent"))
        BY <2>6 DEF Has
      <4> QED BY <1>1, <4>1, <4>2 DEF AgentInv
    <3>2. \A t \in ScenarioIds, v \in Workers : agent'[t].timedOut /\ Has(v, t, "checks")' => agent'[t].exit # 0
      <4>1. \A t, v : v \in Workers /\ Has(v, t, "checks")' => Has(v, t, "checks")
        BY <2>6 DEF Has
      <4> QED BY <1>1, <4>1 DEF AgentInv
    <3>3. ASSUME NEW i \in DOMAIN completed', agent'[completed'[i].id].timedOut PROVE ~completed'[i].passed
      <4>1. CASE i \in DOMAIN completed
        BY <1>1, <2>5, <3>3, <4>1 DEF AgentInv
      <4>2. CASE i \notin DOMAIN completed
        <5>1. completed'[i] = result
          BY <2>5, <4>2
        <5> QED BY <1>1, <2>1, <2>2, <3>3, <5>1
      <4> QED BY <4>1, <4>2
    <3> QED BY <3>1, <3>2, <3>3 DEF AgentInv
  <2> QED BY <2>8, <2>9, <2>11, <2>12
<1> QED BY <1>2, <1>3 DEF Check

\* The workers have settled: the run ends, or the next mode begins.
LEMMA CollectKeeps == ASSUME BenchInv, Collect PROVE BenchInv'
<1> USE BenchmarkAssumption DEF BenchInv
<1>1. outcome = "none" /\ Settled
  BY DEF Collect
<1>2. CASE Failed \/ Len(modes) = 1
  <2>1. /\ outcome' = IF Failed THEN "thrown" ELSE "published"
        /\ runRoot' = FALSE /\ UNCHANGED <<killing, modes, queue, work, completed, agent, capsule>>
    BY <1>2 DEF Collect
  <2>2. BenchTypeOK'
    BY <2>1 DEF BenchTypeOK
  <2>3. WorkInv'
    BY <1>1, <2>1 DEF WorkInv, Settled, Failed, Taken
  <2>4. QueueInv' /\ AgentInv'
    BY <2>1 DEF QueueInv, AgentInv, Failed, Taken, Held, Has
  <2> QED BY <2>2, <2>3, <2>4
<1>3. CASE ~(Failed \/ Len(modes) = 1)
  <2>1. /\ modes' = Tail(modes) /\ queue' = [i \in ScenarioIds |-> i] /\ work' = Idle /\ completed' = <<>>
        /\ agent' = [s \in ScenarioIds |-> NoAgent] /\ UNCHANGED <<killing, capsule, runRoot, outcome>>
    BY <1>3 DEF Collect
  <2>2. modes' = <<"candidate">>
    <3>1. modes = <<"control", "candidate">>
      BY <1>3 DEF BenchTypeOK
    <3> QED BY <2>1, <3>1
  <2>3. queue' \in Seq(ScenarioIds) /\ Len(queue') = Cardinality(ScenarioIds) /\ \A i \in DOMAIN queue' : queue'[i] = i
    BY <2>1, ScenarioCount
  <2>4. BenchTypeOK'
    <3>1. agent' \in [ScenarioIds -> Trees]
      BY <2>1 DEF Trees, NoAgent, Running, Processes
    <3>2. work' \in [Workers -> [at : {"idle", "capsule", "spawn", "agent", "checks", "resolved", "rejected"},
                               id : ScenarioIds \cup {NoScenario}]]
      BY <2>1 DEF Idle
    <3>3. completed' \in Seq([id : ScenarioIds, passed : BOOLEAN])
      BY <2>1
    <3> QED BY <2>1, <2>2, <2>3, <3>1, <3>2, <3>3 DEF BenchTypeOK, Trees
  <2>5. WorkInv'
    BY <1>1, <2>1 DEF WorkInv, Idle, Failed, Settled
  <2>6. QueueInv'
    BY <2>1, <2>3, ScenarioCount DEF QueueInv, Taken
  <2>7. AgentInv'
    BY <2>1 DEF AgentInv, Idle, NoAgent, Running, Has
  <2> QED BY <2>4, <2>5, <2>6, <2>7
<1> QED BY <1>2, <1>3

\* Every step keeps the invariant.
THEOREM BenchInvariance == BenchSpec => []BenchInv
<1>1. BenchInv /\ [BenchNext]_benchVars => BenchInv'
  <2> SUFFICES ASSUME BenchInv, [BenchNext]_benchVars PROVE BenchInv'
    OBVIOUS
  <2>1. CASE UNCHANGED benchVars
    BY <2>1 DEF benchVars, BenchInv, BenchTypeOK, WorkInv, QueueInv, AgentInv, Settled, Failed, Taken, Held, Has
  <2>2. CASE BenchNext
    <3>1. CASE Collect
      BY <3>1, CollectKeeps
    <3>2. CASE \E s \in ScenarioIds : AgentStep(s)
      BY <3>2, AgentStepKeeps
    <3>3. CASE \E w \in Workers : TakeNext(w)
      BY <3>3, TakeNextKeeps
    <3>4. ASSUME NEW w \in Workers, NEW s \in ScenarioIds,
                 MakeCapsule(w, s) \/ Spawn(w, s) \/ DropCapsule(w, s) \/ Returns(w, s) \/ Check(w, s)
          PROVE  BenchInv'
      BY <3>4, MakeCapsuleKeeps, SpawnKeeps, DropCapsuleKeeps, ReturnsKeeps, CheckKeeps
    <3> QED BY <2>2, <3>1, <3>2, <3>3, <3>4 DEF BenchNext, Progress, AgentStep
  <2> QED BY <2>1, <2>2
<1> QED BY <1>1, BenchInitInv, PTL DEF BenchSpec

\* No agent outlives the call that started it, but for what the last killTree has
\* missed: none runs while what it left is checked, none when another worker has
\* failed and the run is over.
THEOREM AgentsEnd == BenchSpec => []NoAgentLeft
<1>1. BenchInv => NoAgentLeft
  <2> SUFFICES ASSUME BenchInv, NEW s \in ScenarioIds, ~(agent[s].procs \subseteq {"late"})
               PROVE  runRoot /\ \E w \in Workers : Has(w, s, "agent")
    BY DEF NoAgentLeft
  <2>1. PICK w \in Workers : Has(w, s, "agent")
    BY DEF BenchInv, AgentInv
  <2>2. ~Settled
    BY <2>1 DEF Settled, Has
  <2> QED BY <2>1, <2>2 DEF BenchInv, WorkInv
<1> QED BY <1>1, BenchInvariance, PTL

\* What is published has one result for each scenario, and none passed of which
\* the agent was stopped by its time limit.
THEOREM PublishedIsComplete == BenchSpec => []EvidenceIsComplete
<1>1. BenchInv => EvidenceIsComplete
  <2> SUFFICES ASSUME BenchInv, outcome = "published"
               PROVE  /\ Len(completed) = Cardinality(ScenarioIds)
                      /\ \A s \in ScenarioIds : \E i \in 1..Len(completed) :
                           completed[i].id = s /\ (agent[s].timedOut => ~completed[i].passed)
    BY DEF EvidenceIsComplete
  <2> USE BenchmarkAssumption DEF BenchInv
  <2>1. Len(completed) \in Nat /\ DOMAIN completed = 1..Len(completed)
    BY DEF BenchTypeOK
  <2>2. ~Failed /\ Settled /\ \A w \in Workers : work[w].at = "resolved" /\ work[w].id = NoScenario
    BY DEF WorkInv, Settled, Failed
  <2>3. queue = <<>> /\ Taken = ScenarioIds
    <3>1. queue = <<>>
      BY <2>2 DEF WorkInv
    <3>2. Len(queue) = 0
      BY <3>1
    <3> QED BY <3>1, <3>2, ScenarioCount DEF Taken
  <2>4. \A s \in ScenarioIds : \E i \in 1..Len(completed) : completed[i].id = s
    BY <2>1, <2>2, <2>3 DEF QueueInv, Held
  <2>5. \A i \in 1..Len(completed) : agent[completed[i].id].timedOut => ~completed[i].passed
    BY <2>1 DEF AgentInv
  <2>6. Len(completed) = Cardinality(ScenarioIds)
    <3> DEFINE id == [i \in 1..Len(completed) |-> completed[i].id]
    <3>1. id \in [1..Len(completed) -> ScenarioIds]
      BY <2>1, CompletedIds
    <3>2. \A i, j \in 1..Len(completed) : id[i] = id[j] => i = j
      BY <2>1 DEF QueueInv
    <3>3. \A s \in ScenarioIds : \E i \in 1..Len(completed) : id[i] = s
      BY <2>4
    <3>4. ExistsBijection(1..Len(completed), ScenarioIds)
      <4> HIDE DEF id
      <4>1. DOMAIN id = 1..Len(completed)
        BY <3>1
      <4>2. id \in Injection(1..Len(completed), ScenarioIds)
        BY <3>1, <3>2, <4>1 DEF Injection, IsInjective
      <4>3. id \in Surjection(1..Len(completed), ScenarioIds)
        BY <3>1, <3>3 DEF Surjection
      <4> QED BY <4>2, <4>3 DEF ExistsBijection, Bijection
    <3> QED BY <2>1, <3>4, FS_CountingElements
  <2> QED BY <2>4, <2>5, <2>6
<1> QED BY <1>1, BenchInvariance, PTL

-----------------------------------------------------------------------------
(***************************************************************************)
(* Publication.  While nobody has the lock the files are of one            *)
(* generation.  Of its holder it is known how far it has come; of one that *)
(* is gone, that its files can be made whole again: there is a generation  *)
(* g, the one before, of which every file is there or in a complete        *)
(* backup; a copy that was cut lies beside the file it was made of.  What  *)
(* a recovery has put back stays, and there may be several at once.        *)
(***************************************************************************)
AllOf(g) == \A i \in Files : final[i] = g
OneOf == \A i, j \in Files : final[i] = final[j]
Present(g) == IF g = Absent THEN {} ELSE Files

\* The steps of a publisher that has the lock.
HoldSteps == {"existed", "own", "write", "backup", "rename", "commit", "restore"}

Holds(p) == pub[p].step \in HoldSteps \/ (pub[p].step = "unrec" /\ pub[p].stale = p)

\* No published file is a part of one.
NoPart == \A i \in Files : final[i] \in Generations

\* The files that were there before, and the complete backups of s that are left, are of g.
Before(s, g) == pubLock.existed = Present(g) /\ \A i \in Files : backups[s][i] \in {Absent, Cut, g}

\* How far q has come with putting g back.
Restored(q, g) ==
  /\ pub[q].step = "rollback" => pub[q].existed = Present(g) /\ \A i \in Files : i < pub[q].at => final[i] = g
  /\ pub[q].step \in {"sweep", "unlock"} => AllOf(g)

Undoable(s, g) ==
  /\ Before(s, g)
  /\ \A i \in Files : g = Absent \/ final[i] = g \/ backups[s][i] = g
  /\ \A q \in Publishers : pub[q].stale = s => Restored(q, g)

\* The backups that a publisher is making of what is there.
Copying(h) ==
  \A i \in Files : backups[h][i] \in {Absent, final[i]} \/ (backups[h][i] = Cut /\ i \in pub[h].existed)

\* A publisher that has not made all its backups, and one that has.
Fresh(h) ==
  /\ OneOf /\ ~pubLock.committed
  /\ pub[h].step \in {"unrec", "existed", "own"} => pubLock.owner = Absent
  /\ pub[h].step \in {"write", "backup"} => pubLock.owner = h /\ pubLock.existed = pub[h].existed /\ Copying(h)
  /\ pub[h].step \in {"own", "write", "backup"} => pub[h].existed = {i \in Files : final[i] # Absent}

Replacing(h, g) ==
  /\ pubLock.owner = h /\ ~pubLock.committed
  /\ pubLock.existed = Present(g) /\ pub[h].existed = Present(g)
  /\ \A i \in Files : backups[h][i] = g
  /\ pub[h].step = "rename" => \A i \in Files : final[i] = IF i < pub[h].at THEN h ELSE g
  /\ pub[h].step = "commit" => AllOf(h)
  /\ pub[h].step = "restore" => \A i \in Files : final[i] \in {h, g}

Cleaning(h) ==
  /\ OneOf
  /\ pubLock.committed => AllOf(h)
  /\ pubLock.owner = h => AllOf(h) \/ \E g \in Generations : AllOf(g) /\ Before(h, g)

\* What is known of the lock of h.
LockOf(h) ==
  /\ pubLock.owner \in {Absent, h}
  /\ Holds(h) \/ pub[h].step \in {"clean", "failed"}
  /\ Alive(h) =>
       /\ pub[h].step \in {"unrec", "existed", "own", "write", "backup"} => Fresh(h)
       /\ pub[h].step \in {"rename", "commit", "restore"} => \E g \in Generations : Replacing(h, g)
       /\ pub[h].step = "clean" => Cleaning(h)
  /\ ~Alive(h) => IF pubLock.owner = h /\ ~pubLock.committed THEN \E g \in Generations : Undoable(h, g) ELSE OneOf

LockInv ==
  /\ ~Made => pubLock = NoLock /\ OneOf
  /\ \A h \in Publishers : pubLock.by = h => LockOf(h)

RecoveryInv ==
  \A q \in Publishers :
    /\ pub[q].step \in {"rollback", "sweep"} => pub[q].stale # Absent
    /\ pub[q].step \in {"rollback", "sweep", "unlock"} => ~Alive(pub[q].stale)
    /\ pub[q].step = "rollback" /\ pubLock.owner = pub[q].stale => ~pubLock.committed

\* The steps of a publisher that has no backups yet; it begins at the first file.
EarlySteps == PubSteps \ {"backup", "rename", "commit", "restore", "clean", "done", "failed"}

PublisherInv ==
  \A p \in Publishers :
    /\ Alive(p) /\ Holds(p) => pubLock.by = p
    /\ pub[p].step \in EarlySteps => backups[p] = NoFiles /\ (pub[p].step # "rollback" => pub[p].at = 1)
    /\ pub[p].step = "backup" => pub[p].at = 1

PubSafe == LockInv /\ RecoveryInv /\ PublisherInv

PubInv == PubTypeOK /\ (fault \/ (PubSafe /\ NoPart))

\* There is a first file.
LEMMA FirstFile == 1 \in Files /\ Files \subseteq Nat \ {0}
<1>1. Cardinality(Files) \in Nat /\ Cardinality(Files) # 0
  BY PublicationAssumption, FS_CardinalityType, FS_EmptySet
<1> QED BY <1>1, PublicationAssumption

\* Nothing has been published, or all of it.
LEMMA PubInitInv == PubInit => PubInv
<1> SUFFICES ASSUME PubInit PROVE PubInv
  OBVIOUS
<1> USE PublicationAssumption, FirstFile DEF PubInit, NoFiles, NoLock, NoRecovery
<1>1. pub \in [Publishers -> [step : PubSteps, at : Files, existed : SUBSET Files, stale : Owners]]
  BY DEF PubSteps, Owners
<1>2. pubLock \in [by : Owners, owner : Owners, existed : SUBSET Files, committed : BOOLEAN]
      /\ recDir \in [made : BOOLEAN, owner : Owners]
  BY DEF Owners
<1>3. PubTypeOK
  <2>1. final \in [Files -> Copies] /\ backups \in [Publishers -> [Files -> Copies]]
    BY DEF Copies, Generations
  <2>2. pending \in [Publishers -> SUBSET Files] /\ dead \subseteq Publishers /\ IsFiniteSet(dead)
        /\ fails \in 0..MaxFaults
    BY FS_EmptySet
  <2>3. sees \in BOOLEAN /\ fault \in BOOLEAN
    OBVIOUS
  <2> QED BY <1>1, <1>2, <2>1, <2>2, <2>3, Zenon DEF PubTypeOK
<1>4. LockInv /\ RecoveryInv /\ PublisherInv
  BY DEF LockInv, Made, OneOf, RecoveryInv, PublisherInv, Holds, HoldSteps, EarlySteps, PubSteps
<1>5. NoPart
  BY DEF NoPart, Generations
<1> QED BY <1>3, <1>4, <1>5 DEF PubInv, PubSafe

Places == [step : PubSteps, at : Files, existed : SUBSET Files, stale : Owners]
Locks == [by : Owners, owner : Owners, existed : SUBSET Files, committed : BOOLEAN]

\* Where a publisher is after one that goes on, and the records that are written.
LEMMA GoesOn ==
  ASSUME PubTypeOK, NEW p \in Publishers, NEW s \in PubSteps, Go(p, s)
  PROVE  /\ pub' \in [Publishers -> Places]
         /\ \A q \in Publishers : q # p => pub'[q] = pub[q]
         /\ pub'[p].step = s /\ pub'[p].at = pub[p].at
         /\ pub'[p].existed = pub[p].existed /\ pub'[p].stale = pub[p].stale
BY DEF PubTypeOK, Go, Places

\* Where a publisher is after one that goes through the files.
LEMMA NextFileGoesOn ==
  ASSUME PubTypeOK, NEW p \in Publishers, NEW s \in PubSteps, NextFile(p, s)
  PROVE  /\ pub' \in [Publishers -> Places]
         /\ \A q \in Publishers : q # p => pub'[q] = pub[q]
         /\ pub'[p].existed = pub[p].existed /\ pub'[p].stale = pub[p].stale
         /\ IF pub[p].at + 1 \in Files THEN pub'[p].at = pub[p].at + 1 /\ pub'[p].step = pub[p].step
            ELSE pub'[p].at = 1 /\ pub'[p].step = s
<1>1. CASE pub[p].at + 1 \in Files
  BY SMTT(20), <1>1 DEF PubTypeOK, NextFile, Places
<1>2. CASE pub[p].at + 1 \notin Files
  <2>1. pub' = [pub EXCEPT ![p] = [pub[p] EXCEPT !.at = 1, !.step = s]]
    BY <1>2 DEF NextFile, PubTypeOK
  <2> QED BY <1>2, <2>1, FirstFile DEF PubTypeOK, Places
<1> QED BY <1>1, <1>2

\* The type of the state after a step whose files, places and lock are known.
LEMMA PubTypesKept ==
  ASSUME PubTypeOK, NEW p \in Publishers,
         final' \in [Files -> Copies], pending' \in [Publishers -> SUBSET Files],
         backups' \in [Publishers -> [Files -> Copies]], pubLock' \in Locks,
         recDir' \in [made : BOOLEAN, owner : Owners], pub' \in [Publishers -> Places],
         fault' \in BOOLEAN, UNCHANGED sees,
         dead' = dead \/ dead' = dead \cup {p}, fails' = fails \/ Fail
  PROVE  PubTypeOK'
<1>1. dead' \subseteq Publishers /\ IsFiniteSet(dead')
  <2>1. dead \subseteq Publishers /\ IsFiniteSet(dead)
    BY DEF PubTypeOK
  <2>2. IsFiniteSet(dead \cup {p})
    BY <2>1, FS_AddElement
  <2> QED BY <2>1, <2>2
<1>2. fails' \in 0..MaxFaults
  BY FS_CardinalityType, PublicationAssumption DEF PubTypeOK, Fail, MoreFaults
<1> QED BY <1>1, <1>2 DEF PubTypeOK, Places, Locks

\* The locks that are made, owned, committed and cleaned.
LEMMA LockTypes ==
  ASSUME PubTypeOK, NEW p \in Publishers
  PROVE  /\ NoLock \in Locks /\ NewLock(p) \in Locks /\ pubLock \in Locks
         /\ [pubLock EXCEPT !.owner = p, !.existed = pub[p].existed] \in Locks
         /\ [pubLock EXCEPT !.committed = TRUE] \in Locks
         /\ [pubLock EXCEPT !.owner = Absent, !.existed = {}] \in Locks
         /\ [pubLock EXCEPT !.committed = FALSE] \in Locks
         /\ NoRecovery \in [made : BOOLEAN, owner : Owners]
         /\ [NoRecovery EXCEPT !.made = TRUE] \in [made : BOOLEAN, owner : Owners]
         /\ [recDir EXCEPT !.owner = p] \in [made : BOOLEAN, owner : Owners]
<1>1. Absent \in Owners /\ p \in Owners /\ pub[p].existed \in SUBSET Files
  BY DEF Owners, PubTypeOK
<1>2. pubLock \in Locks /\ recDir \in [made : BOOLEAN, owner : Owners]
  BY DEF PubTypeOK, Locks
<1>3. NoLock \in Locks
  BY <1>1 DEF NoLock, Locks
<1>4. NewLock(p) \in Locks
  BY <1>1, <1>3 DEF NewLock, Locks
<1>5. [pubLock EXCEPT !.owner = p, !.existed = pub[p].existed] \in Locks
      /\ [pubLock EXCEPT !.owner = Absent, !.existed = {}] \in Locks
  BY <1>1, <1>2 DEF Locks
<1>6. [pubLock EXCEPT !.committed = TRUE] \in Locks /\ [pubLock EXCEPT !.committed = FALSE] \in Locks
  BY <1>1, <1>2 DEF Locks
<1>7. /\ NoRecovery \in [made : BOOLEAN, owner : Owners]
      /\ [NoRecovery EXCEPT !.made = TRUE] \in [made : BOOLEAN, owner : Owners]
      /\ [recDir EXCEPT !.owner = p] \in [made : BOOLEAN, owner : Owners]
  BY <1>1, <1>2 DEF NoRecovery
<1> QED BY <1>2, <1>3, <1>4, <1>5, <1>6, <1>7

\* Every step keeps the types.
LEMMA PubTypeStep == ASSUME PubInv, [PubNext]_pubVars PROVE PubTypeOK'
<1>0. PubTypeOK
  BY DEF PubInv
<1>1. CASE UNCHANGED pubVars
  BY <1>0, <1>1 DEF PubTypeOK, pubVars
<1> SUFFICES ASSUME PubNext PROVE PubTypeOK'
  BY <1>1
<1>t. /\ final \in [Files -> Copies] /\ pending \in [Publishers -> SUBSET Files]
      /\ backups \in [Publishers -> [Files -> Copies]] /\ pubLock \in Locks
      /\ recDir \in [made : BOOLEAN, owner : Owners] /\ pub \in [Publishers -> Places] /\ fault \in BOOLEAN
  BY <1>0 DEF PubTypeOK, Locks, Places
<1> USE <1>0, FirstFile DEF disk, dirs
<1>a. ASSUME NEW p \in Publishers,
             LookForRecovery(p) \/ ProbeRecovery(p) \/ RemoveRecovery(p) \/ MakeLock(p) \/ ReadOwner(p)
             \/ MakeRecovery(p) \/ OwnRecovery(p) \/ EndRecovery(p)
      PROVE  PubTypeOK'
  <2>1. /\ UNCHANGED <<final, pending, backups, dead, fails, sees, fault>>
        /\ \E s \in PubSteps : Go(p, s)
        /\ pubLock' = pubLock \/ pubLock' = NewLock(p)
        /\ \/ recDir' = recDir
           \/ recDir' = NoRecovery
           \/ recDir' = [NoRecovery EXCEPT !.made = TRUE]
           \/ recDir' = [recDir EXCEPT !.owner = p]
    BY <1>a DEF LookForRecovery, ProbeRecovery, RemoveRecovery, MakeLock, ReadOwner, MakeRecovery, OwnRecovery, EndRecovery, PubSteps
  <2>2. pub' \in [Publishers -> Places]
    BY <2>1, GoesOn
  <2>3. pubLock' \in Locks
    BY <1>t, <2>1, LockTypes
  <2>4. recDir' \in [made : BOOLEAN, owner : Owners]
    BY <1>t, <2>1, LockTypes
  <2> QED BY <1>t, <2>1, <2>2, <2>3, <2>4, PubTypesKept
<1>b. ASSUME NEW p \in Publishers, ReadStale(p) PROVE PubTypeOK'
  <2>1. PICK s \in PubSteps : Recovering(p, s)
    BY <1>b DEF ReadStale, PubSteps
  <2>2. pub' \in [Publishers -> Places]
    BY <1>t, <2>1 DEF Recovering, Places, Locks
  <2>3. UNCHANGED <<final, pending, backups, pubLock, recDir, dead, fails, sees>> /\ fault' \in BOOLEAN
    BY <1>b DEF ReadStale
  <2> QED BY <1>t, <2>2, <2>3, PubTypesKept
<1>c. ASSUME NEW p \in Publishers, RollBack(p) PROVE PubTypeOK'
  <2>1. pub' \in [Publishers -> Places] /\ pub[p].at \in Files /\ pub[p].stale \in Owners
    BY <1>c, <1>t, NextFileGoesOn DEF RollBack, PubSteps, Places
  <2>2. UNCHANGED <<pending, pubLock, recDir, dead, fails, sees>> /\ fault' \in BOOLEAN
    BY <1>c DEF RollBack, Robs
  <2>3. final' \in [Files -> Copies] /\ backups' \in [Publishers -> [Files -> Copies]]
    <3>1. Absent \in Copies
      BY DEF Copies, Generations
    <3>2. CASE pub[p].at \notin pub[p].existed
      <4>1. final' = [final EXCEPT ![pub[p].at] = Absent] /\ backups' = backups
        BY <1>c, <3>2 DEF RollBack
      <4> QED BY <1>t, <2>1, <3>1, <4>1
    <3>3. CASE pub[p].at \in pub[p].existed /\ backups[pub[p].stale][pub[p].at] # Absent
      <4> DEFINE i == pub[p].at
                 s == pub[p].stale
      <4>1. final' = [final EXCEPT ![i] = backups[s][i]] /\ backups' = [backups EXCEPT ![s][i] = Absent]
        BY <1>c, <3>3 DEF RollBack
      <4>2. s \in Publishers
        <5>1. pub[p].step = "rollback" /\ RecoveryInv
          BY <1>c DEF RollBack, At, PubInv, PubSafe, PubNext
        <5> QED BY <2>1, <5>1 DEF Owners, RecoveryInv
      <4>5. i \in Files
        BY <2>1
      <4> HIDE DEF i, s
      <4>3. backups[s][i] \in Copies
        BY <1>t, <4>2, <4>5
      <4> QED BY <1>t, <3>1, <4>1, <4>3
    <3>4. CASE pub[p].at \in pub[p].existed /\ backups[pub[p].stale][pub[p].at] = Absent
      BY <1>c, <1>t, <2>1, <3>1, <3>4 DEF RollBack
    <3> QED BY <3>2, <3>3, <3>4
  <2> QED BY <1>t, <2>1, <2>2, <2>3, PubTypesKept
<1>d. ASSUME NEW p \in Publishers, Sweep(p) \/ Unlock(p) PROVE PubTypeOK'
  <2>1. \E s \in PubSteps : Go(p, s)
    BY <1>d DEF Sweep, Unlock, PubSteps
  <2>2. NoFiles \in [Files -> Copies]
    BY DEF NoFiles, Copies, Generations
  <2>3. /\ UNCHANGED <<final, recDir, dead, fails, sees>> /\ fault' \in BOOLEAN
        /\ pending' \in [Publishers -> SUBSET Files] /\ backups' \in [Publishers -> [Files -> Copies]]
        /\ pubLock' \in {pubLock, NoLock}
    <3>1. CASE Sweep(p)
      <4>1. /\ pending' = [pending EXCEPT ![pub[p].stale] = {}]
            /\ backups' = [backups EXCEPT ![pub[p].stale] = NoFiles]
            /\ UNCHANGED <<final, recDir, dead, fails, sees, pubLock>> /\ fault' \in BOOLEAN
        BY <3>1 DEF Sweep, Robs, Robbing
      <4> QED BY <1>t, <2>2, <4>1
    <3>2. CASE Unlock(p)
      BY <1>t, <3>2 DEF Unlock, Robs, Robbing
    <3> QED BY <1>d, <3>1, <3>2
  <2> QED BY <1>t, <2>1, <2>3, GoesOn, LockTypes, PubTypesKept
<1>e. ASSUME NEW p \in Publishers, Relock(p) \/ LookForFiles(p) PROVE PubTypeOK'
  <2>1. /\ UNCHANGED <<final, pending, backups, recDir, dead, fails, sees, fault>>
        /\ pubLock' \in {pubLock, NewLock(p)}
    BY <1>e DEF Relock, LookForFiles
  <2>2. pub' \in [Publishers -> Places]
    <3>1. CASE Relock(p)
      BY <1>t, <3>1 DEF Relock, Places, PubSteps, Owners
    <3>2. CASE LookForFiles(p)
      <4>1. pub' = [pub EXCEPT ![p] = [pub[p] EXCEPT !.existed = {i \in Files : final[i] # Absent}, !.step = "own"]]
        BY <1>t, <3>2 DEF LookForFiles
      <4>2. pub[p] \in Places /\ {i \in Files : final[i] # Absent} \in SUBSET Files /\ "own" \in PubSteps
        BY <1>t DEF PubSteps
      <4>3. [pub[p] EXCEPT !.existed = {i \in Files : final[i] # Absent}, !.step = "own"] \in Places
        BY <4>2 DEF Places
      <4> QED BY <1>t, <4>1, <4>3
    <3> QED BY <1>e, <3>1, <3>2
  <2> QED BY <1>t, <2>1, <2>2, LockTypes, PubTypesKept
<1>f. ASSUME NEW p \in Publishers, OwnLock(p) \/ Commit(p) PROVE PubTypeOK'
  <2>1. /\ UNCHANGED <<final, pending, backups, recDir, dead, sees, fault>> /\ (fails' = fails \/ Fail)
        /\ pubLock' \in {pubLock, [pubLock EXCEPT !.owner = p, !.existed = pub[p].existed], [pubLock EXCEPT !.committed = TRUE]}
        /\ \E s \in PubSteps : Go(p, s)
    BY <1>f DEF OwnLock, Commit, PubSteps
  <2>2. pub' \in [Publishers -> Places]
    BY <2>1, GoesOn
  <2>3. pubLock' \in Locks
    BY ZenonT(30), <1>t, <2>1, LockTypes
  <2> QED BY <1>t, <2>1, <2>2, <2>3, PubTypesKept
<1>g. ASSUME NEW p \in Publishers, WritePending(p) PROVE PubTypeOK'
  <2>1. /\ UNCHANGED <<final, backups, pubLock, recDir, dead, sees, fault>> /\ (fails' = fails \/ Fail)
        /\ pending' \in [Publishers -> SUBSET Files]
        /\ \E s \in PubSteps : Go(p, s)
    BY <1>g, <1>t DEF WritePending, PubSteps
  <2> QED BY <1>t, <2>1, GoesOn, PubTypesKept
<1>h. ASSUME NEW p \in Publishers, BackUp(p) PROVE PubTypeOK'
  <2>1. /\ UNCHANGED <<final, pending, pubLock, recDir, dead, sees, fault>> /\ (fails' = fails \/ Fail)
    BY <1>h DEF BackUp, dirs
  <2>2. UNCHANGED pub \/ \E s \in PubSteps : Go(p, s)
    BY <1>h DEF BackUp, PubSteps
  <2>3. backups' \in [Publishers -> [Files -> Copies]]
    <3>1. CASE UNCHANGED backups
      BY <1>t, <3>1
    <3>2. ASSUME NEW i \in Files, backups' = [backups EXCEPT ![p][i] = IF @ = Absent THEN Cut ELSE final[i]]
          PROVE  backups' \in [Publishers -> [Files -> Copies]]
      <4>1. PICK c \in Copies : backups' = [backups EXCEPT ![p][i] = c]
        BY <1>t, <3>2 DEF Copies
      <4>2. [backups[p] EXCEPT ![i] = c] \in [Files -> Copies]
        BY <1>t, <4>1
      <4>3. backups' = [backups EXCEPT ![p] = [backups[p] EXCEPT ![i] = c]]
        BY <1>t, <4>1
      <4> QED BY <1>t, <4>2, <4>3
    <3>3. pub[p].existed \subseteq Files
      BY <1>t DEF Places
    <3> QED BY <1>h, <3>1, <3>2, <3>3 DEF BackUp
  <2>4. pub' \in [Publishers -> Places]
    BY <1>t, <2>2, GoesOn
  <2> QED BY <1>t, <2>1, <2>3, <2>4, PubTypesKept
<1>i. ASSUME NEW p \in Publishers, RenameNext(p) PROVE PubTypeOK'
  <2>1. /\ UNCHANGED <<backups, pubLock, recDir, dead, sees, fault>> /\ (fails' = fails \/ Fail)
        /\ final' \in [Files -> Copies] /\ pending' \in [Publishers -> SUBSET Files]
    <3>1. p \in Copies /\ pub[p].at \in Files
      BY <1>t DEF Copies, Generations, Places
    <3>2. \/ final' = [final EXCEPT ![pub[p].at] = p] /\ pending' = [pending EXCEPT ![p] = @ \ {pub[p].at}]
          \/ UNCHANGED <<final, pending>>
      BY <1>i DEF RenameNext
    <3>3. UNCHANGED <<backups, pubLock, recDir, dead, sees, fault>> /\ (fails' = fails \/ Fail)
      BY <1>i DEF RenameNext
    <3> QED BY <1>t, <3>1, <3>2, <3>3
  <2>2. pub' \in [Publishers -> Places]
    <3>1. CASE NextFile(p, "commit")
      BY <3>1, NextFileGoesOn DEF PubSteps
    <3>2. CASE pub' = [pub EXCEPT ![p].step = "restore", ![p].at = 1]
      <4>1. pub' = [pub EXCEPT ![p] = [pub[p] EXCEPT !.step = "restore", !.at = 1]]
        BY <1>t, <3>2
      <4>2. pub[p] \in Places /\ "restore" \in PubSteps
        BY <1>t DEF PubSteps
      <4>3. [pub[p] EXCEPT !.step = "restore", !.at = 1] \in Places
        BY <4>2 DEF Places
      <4> QED BY <1>t, <4>1, <4>3
    <3> QED BY <1>i, <3>1, <3>2 DEF RenameNext
  <2> QED BY <1>t, <2>1, <2>2, PubTypesKept
<1>j. ASSUME NEW p \in Publishers, Restore(p) PROVE PubTypeOK'
  <2>1. PICK lost \in SUBSET Files :
          /\ IF lost = {} THEN UNCHANGED fails ELSE Fail
          /\ final' = [i \in Files |-> IF i \in lost THEN final[i]
                                       ELSE IF i \in pub[p].existed THEN backups[p][i] ELSE Absent]
          /\ backups' = [backups EXCEPT ![p] = [i \in Files |-> IF i \in lost THEN backups[p][i] ELSE Absent]]
          /\ IF lost = {} THEN Go(p, "clean") /\ UNCHANGED pending
             ELSE pending' = [pending EXCEPT ![p] = {}] /\ Go(p, "failed")
    BY <1>j, <1>t DEF Restore
  <2>2. /\ UNCHANGED <<pubLock, recDir, dead, sees, fault>> /\ (fails' = fails \/ Fail)
        /\ pending' \in [Publishers -> SUBSET Files] /\ \E s \in PubSteps : Go(p, s)
    BY <1>j, <1>t, <2>1 DEF Restore, PubSteps
  <2>3. final' \in [Files -> Copies] /\ backups' \in [Publishers -> [Files -> Copies]]
    BY <1>t, <2>1 DEF Copies, Generations
  <2> QED BY <1>t, <2>2, <2>3, GoesOn, PubTypesKept
<1>k. ASSUME NEW p \in Publishers, Clean(p) PROVE PubTypeOK'
  <2>1. UNCHANGED <<final, recDir, dead, fails, sees, fault>>
    BY <1>k DEF Clean
  <2>2. pending' \in [Publishers -> SUBSET Files] /\ backups' \in [Publishers -> [Files -> Copies]]
    <3>1. \/ \E i \in Files : /\ pending' = [pending EXCEPT ![p] = @ \ {i}]
                              /\ backups' = [backups EXCEPT ![p][i] = Absent]
          \/ UNCHANGED <<pending, backups>>
      BY <1>k DEF Clean
    <3>2. Absent \in Copies
      BY DEF Copies, Generations
    <3>3. CASE UNCHANGED <<pending, backups>>
      BY <1>t, <3>3
    <3>4. ASSUME NEW i \in Files, pending' = [pending EXCEPT ![p] = @ \ {i}], backups' = [backups EXCEPT ![p][i] = Absent]
          PROVE  pending' \in [Publishers -> SUBSET Files] /\ backups' \in [Publishers -> [Files -> Copies]]
      <4>1. [backups[p] EXCEPT ![i] = Absent] \in [Files -> Copies]
        BY <1>t, <3>2
      <4>2. backups' = [backups EXCEPT ![p] = [backups[p] EXCEPT ![i] = Absent]]
        BY <1>t, <3>4
      <4> QED BY <1>t, <3>4, <4>1, <4>2
    <3> QED BY <3>1, <3>3, <3>4
  <2>3. pubLock' \in Locks
    BY <1>k, LockTypes DEF Clean
  <2>4. pub' \in [Publishers -> Places]
    BY <1>k, <1>t, GoesOn DEF Clean, PubSteps
  <2> QED BY <1>t, <2>1, <2>2, <2>3, <2>4, PubTypesKept
<1>l. ASSUME NEW p \in Publishers, KillPublisher(p) PROVE PubTypeOK'
  BY <1>l, <1>t, PubTypesKept DEF KillPublisher
<1> QED BY <1>a, <1>b, <1>c, <1>d, <1>e, <1>f, <1>g, <1>h, <1>i, <1>j, <1>k, <1>l DEF PubNext

RecoverySteps == {"rollback", "sweep", "unlock"}

\* A step that leaves files, lock, the dead and the backups of others alone, of a publisher that
\* does not have the lock and neither recovers nor begins to.
LEMMA QuietStep ==
  ASSUME PubTypeOK, PubTypeOK', PubSafe, NEW p \in Publishers,
         UNCHANGED <<final, pubLock, dead>>,
         \A q \in Publishers : q # p => pub'[q] = pub[q] /\ backups'[q] = backups[q],
         pubLock.by # p, pub'[p].step \notin RecoverySteps \cup HoldSteps,
         pub'[p].step = "unrec" => pub'[p].stale # p,
         pub'[p].step \in EarlySteps => pub[p].step \in EarlySteps /\ backups'[p] = backups[p] /\ pub'[p].at = 1,
         pub[p].step \notin {"done", "failed"}
  PROVE  PubSafe'
<1> USE DEF PubSafe
<1>1. \A x : ~Alive(x) => ~Alive(x)'
  BY DEF Alive
<1>2. \A q \in Publishers : q # p => /\ Alive(q)' <=> Alive(q)
                                     /\ Holds(q)' <=> Holds(q)
  BY DEF Alive, Holds
<1>3. RecoveryInv'
  BY <1>1, Zenon DEF RecoveryInv, RecoverySteps
<1>4. PublisherInv'
  <2>1. ~Holds(p)'
    BY DEF Holds
  <2>2. NoFiles' = NoFiles
    BY DEF NoFiles
  <2> QED BY <1>2, <2>1, <2>2 DEF PublisherInv, EarlySteps, HoldSteps
<1>5. ASSUME NEW h \in Publishers, pubLock.by = h PROVE LockOf(h)'
  <2>1. h # p /\ LockOf(h) /\ pub'[h] = pub[h]
    BY <1>5 DEF LockInv
  <2>2. Fresh(h) => Fresh(h)'
    <3>1. backups'[h] = backups[h]
      BY <2>1
    <3> QED BY <2>1, <3>1 DEF Fresh, OneOf, Copying
  <2>3. \A g \in Generations : Replacing(h, g) => Replacing(h, g)'
    BY <2>1 DEF Replacing, AllOf, Present
  <2>4. Cleaning(h) => Cleaning(h)'
    BY <2>1 DEF Cleaning, OneOf, AllOf, Before, Present
  <2>5. ASSUME NEW g \in Generations, Undoable(h, g) PROVE Undoable(h, g)'
    <3>1. \A q \in Publishers : q # p /\ Restored(q, g) => Restored(q, g)'
      BY DEF Restored, AllOf, Present
    <3>2. Restored(p, g)'
      BY DEF Restored, RecoverySteps
    <3>3. backups'[h] = backups[h]
      BY <2>1
    <3> QED BY <2>5, <3>1, <3>2, <3>3 DEF Undoable, Before, Present
  <2>6. OneOf => OneOf'
    BY DEF OneOf
  <2> QED BY <1>2, <2>1, <2>2, <2>3, <2>4, <2>5, <2>6 DEF LockOf
<1>6. LockInv'
  <2>1. ~Made' => pubLock' = NoLock /\ OneOf'
    BY DEF LockInv, Made, OneOf
  <2> QED BY <1>5, <2>1 DEF LockInv
<1> QED BY <1>3, <1>4, <1>6

\* Only a publisher that holds the lock, cleans up or has failed may have made it.
LEMMA NotTheHolder ==
  ASSUME PubSafe, NEW p \in Publishers, ~Holds(p), pub[p].step \notin {"clean", "failed"}
  PROVE  pubLock.by # p
BY DEF PubSafe, LockInv, LockOf

\* The steps of a publisher that looks for a lock or a recovery.
LEMMA LookingKeeps ==
  ASSUME PubTypeOK, PubTypeOK', PubSafe, NEW p \in Publishers,
         LookForRecovery(p) \/ ProbeRecovery(p) \/ RemoveRecovery(p) \/ ReadOwner(p)
         \/ MakeRecovery(p) \/ OwnRecovery(p) \/ (MakeLock(p) /\ Made)
  PROVE  PubSafe'
<1>1. /\ pub[p].step \in {"start", "probe", "rmrec", "mkdir", "owner", "mkrec", "ownrec"}
      /\ \E s \in {"probe", "rmrec", "mkdir", "owner", "mkrec", "ownrec", "stale", "failed"} : Go(p, s)
      /\ UNCHANGED <<final, backups, pubLock, dead>>
  BY DEF LookForRecovery, ProbeRecovery, RemoveRecovery, ReadOwner, MakeRecovery, OwnRecovery, MakeLock, At, disk, dirs
<1>2. pubLock.by # p
  BY <1>1, NotTheHolder DEF Holds, HoldSteps
<1>3. PICK s \in {"probe", "rmrec", "mkdir", "owner", "mkrec", "ownrec", "stale", "failed"} : Go(p, s)
  BY <1>1
<1>4. s \in PubSteps
  BY DEF PubSteps
<1>5. pub'[p].step = s /\ pub'[p].at = pub[p].at /\ \A q \in Publishers : q # p => pub'[q] = pub[q]
  BY <1>3, <1>4, GoesOn
<1>6. pub[p].at = 1
  BY <1>1 DEF PubSafe, PublisherInv, EarlySteps, PubSteps
<1> QED BY <1>1, <1>2, <1>5, <1>6, QuietStep DEF RecoverySteps, HoldSteps, EarlySteps, PubSteps

\* A lock that is made where there was none: the files are of one generation.
LEMMA NewLockKeeps ==
  ASSUME PubTypeOK, PubTypeOK', PubSafe, NEW p \in Publishers, ~Made, pubLock' = NewLock(p),
         pub[p].step \in {"mkdir", "relock"}, p \notin dead,
         \/ pub'[p].step = "existed"
         \/ pub'[p].step = "unrec" /\ pub'[p].stale = p,
         pub'[p].at = 1, UNCHANGED <<final, backups, dead>>, \A q \in Publishers : q # p => pub'[q] = pub[q]
  PROVE  PubSafe'
<1> USE PublicationAssumption DEF PubSafe
<1>1. pubLock' = [by |-> p, owner |-> Absent, existed |-> {}, committed |-> FALSE]
  BY DEF NewLock, NoLock
<1>2. OneOf' /\ pubLock'.by = p /\ pubLock'.owner = Absent /\ pubLock'.committed = FALSE /\ Made' /\ Alive(p)' /\ Holds(p)'
  BY <1>1 DEF LockInv, OneOf, Made, Alive, Holds, HoldSteps
<1>3. LockInv'
  <2>1. LockOf(p)'
    BY <1>2 DEF LockOf, Fresh
  <2> QED BY <1>2, <2>1 DEF LockInv
<1>4. RecoveryInv'
  <2>1. \A q \in Publishers : pub'[q].step \in {"rollback", "sweep", "unlock"} =>
          q # p /\ pub'[q] = pub[q] /\ (pub[q].stale # Absent => pub[q].stale # p)
    BY <1>2 DEF RecoveryInv, Alive
  <2>2. \A x : ~Alive(x) => ~Alive(x)' \/ x = p
    BY DEF Alive
  <2> QED BY <1>2, <2>1, <2>2 DEF RecoveryInv, Alive
<1>5. PublisherInv'
  <2>1. \A q \in Publishers : q # p => (Alive(q)' <=> Alive(q)) /\ (Holds(q)' <=> Holds(q))
    BY DEF Alive, Holds
  <2>2. \A q \in Publishers : ~(Alive(q) /\ Holds(q))
    BY DEF PublisherInv, Made
  <2> QED BY <1>2, <2>1, <2>2 DEF PublisherInv, EarlySteps, PubSteps
<1> QED BY <1>3, <1>4, <1>5

\* A lock is made where there is none, or its owner is looked at.
LEMMA MakeLockKeeps == ASSUME PubTypeOK, PubTypeOK', PubSafe, NEW p \in Publishers, MakeLock(p) PROVE PubSafe'
<1>1. CASE Made
  BY <1>1, LookingKeeps
<1>2. CASE ~Made
  <2>1. /\ pub[p].step = "mkdir" /\ p \notin dead /\ pubLock' = NewLock(p) /\ Go(p, "existed")
        /\ UNCHANGED <<final, backups, dead>>
    BY <1>2 DEF MakeLock, At, disk
  <2>2. pub'[p].step = "existed" /\ pub'[p].at = pub[p].at /\ \A q \in Publishers : q # p => pub'[q] = pub[q]
    <3>1. "existed" \in PubSteps
      BY DEF PubSteps
    <3> QED BY <2>1, <3>1, GoesOn
  <2>3. pub[p].at = 1
    BY <2>1 DEF PubSafe, PublisherInv, EarlySteps, PubSteps
  <2> QED BY <1>2, <2>1, <2>2, <2>3, NewLockKeeps
<1> QED BY <1>1, <1>2

\* The recovered lock is made again, unless another was faster.
LEMMA RelockKeeps == ASSUME PubTypeOK, PubTypeOK', PubSafe, NEW p \in Publishers, Relock(p) PROVE PubSafe'
<1>1. /\ pub[p].step = "relock" /\ p \notin dead
      /\ pubLock' = (IF Made THEN pubLock ELSE NewLock(p))
      /\ pub'[p].step = "unrec" /\ pub'[p].at = 1 /\ pub'[p].stale = (IF Made THEN Absent ELSE p)
      /\ \A q \in Publishers : q # p => pub'[q] = pub[q]
      /\ UNCHANGED <<final, backups, dead>>
  BY DEF Relock, At, disk, PubTypeOK
<1>2. pubLock.by # p
  BY <1>1, NotTheHolder DEF Holds, HoldSteps
<1>3. CASE Made
  BY <1>1, <1>2, <1>3, PublicationAssumption, QuietStep DEF RecoverySteps, HoldSteps, EarlySteps, PubSteps
<1>4. CASE ~Made
  BY <1>1, <1>4, NewLockKeeps
<1> QED BY <1>3, <1>4

\* A step of the holder of the lock, which lives: no other publisher holds it, and
\* nobody recovers from it.
LEMMA HolderStep ==
  ASSUME PubTypeOK, PubTypeOK', PubSafe, NEW p \in Publishers, Alive(p), pubLock.by = p, dead' = dead,
         pub[p].step \notin RecoverySteps, pub'[p].step \notin RecoverySteps,
         \A q \in Publishers : q # p => pub'[q] = pub[q] /\ backups'[q] = backups[q],
         pub'[p].step \in EarlySteps => backups'[p] = NoFiles /\ pub'[p].at = 1,
         pub'[p].step = "backup" => pub'[p].at = 1,
         pubLock'.by = p \/ (pubLock' = NoLock /\ ~Holds(p)' /\ OneOf'),
         pubLock'.owner \in {Absent, p},
         pubLock'.by = p => LockOf(p)'
  PROVE  PubSafe'
<1> USE PublicationAssumption DEF PubSafe
<1>1. \A q \in Publishers : q # p => (Alive(q)' <=> Alive(q)) /\ (Holds(q)' <=> Holds(q))
  BY DEF Alive, Holds
<1>2. \A q \in Publishers : q # p => ~(Alive(q) /\ Holds(q))
  BY DEF PublisherInv
<1>3. PublisherInv'
  <2>1. \A q \in Publishers : q # p /\ pub'[q].step \in EarlySteps =>
          backups'[q] = NoFiles /\ (pub'[q].step # "rollback" => pub'[q].at = 1)
    BY DEF PublisherInv
  <2>2. Holds(p)' => pubLock'.by = p
    OBVIOUS
  <2>3. NoFiles' = NoFiles
    BY DEF NoFiles
  <2> QED BY <1>1, <1>2, <2>1, <2>2, <2>3 DEF PublisherInv, EarlySteps, PubSteps
<1>4. RecoveryInv'
  <2>1. \A q \in Publishers : pub'[q].step \in RecoverySteps =>
          q # p /\ pub'[q] = pub[q] /\ ~Alive(pub[q].stale) /\ pub[q].stale # p
    BY DEF RecoveryInv, RecoverySteps
  <2>2. \A x : ~Alive(x) /\ x # p => ~Alive(x)'
    BY DEF Alive
  <2> QED BY <2>1, <2>2 DEF RecoveryInv, RecoverySteps
<1>5. LockInv'
  <2>1. ~Made' => pubLock' = NoLock /\ OneOf'
    BY DEF Made
  <2>2. \A h \in Publishers : pubLock'.by = h => LockOf(h)'
    <3> SUFFICES ASSUME NEW h \in Publishers, pubLock'.by = h PROVE LockOf(h)'
      OBVIOUS
    <3>1. pubLock'.by = p
      BY DEF NoLock
    <3> QED BY <3>1
  <2> QED BY <2>1, <2>2 DEF LockInv
<1> QED BY <1>3, <1>4, <1>5

\* What is known of a publisher that holds the lock and goes on.
LEMMA HolderAt ==
  ASSUME PubTypeOK, PubSafe, NEW p \in Publishers, p \notin dead, Holds(p)
  PROVE  /\ Alive(p) /\ pubLock.by = p /\ Made /\ LockOf(p) /\ pub[p].step \notin RecoverySteps
         /\ pubLock.owner \in {Absent, p}
<1> USE PublicationAssumption DEF PubSafe
<1>1. Alive(p) /\ pub[p].step \notin RecoverySteps
  BY DEF Alive, Holds, HoldSteps, RecoverySteps
<1>2. pubLock.by = p /\ Made
  BY <1>1 DEF PublisherInv, Made
<1> QED BY <1>1, <1>2 DEF LockInv, LockOf

\* Only the publisher that has got the lock goes on after a recovery.
LEMMA EndRecoveryKeeps == ASSUME PubTypeOK, PubTypeOK', PubSafe, NEW p \in Publishers, EndRecovery(p) PROVE PubSafe'
<1>1. /\ pub[p].step = "unrec" /\ p \notin dead /\ UNCHANGED <<final, backups, pubLock, dead>>
      /\ Go(p, IF pub[p].stale = p THEN "existed" ELSE "failed")
  BY DEF EndRecovery, At, disk
<1>2. /\ pub'[p].step = (IF pub[p].stale = p THEN "existed" ELSE "failed") /\ pub'[p].at = pub[p].at
      /\ \A q \in Publishers : q # p => pub'[q] = pub[q]
  <2>1. "existed" \in PubSteps /\ "failed" \in PubSteps
    BY DEF PubSteps
  <2> QED BY <1>1, <2>1, GoesOn
<1>3. CASE pub[p].stale # p
  <2>1. pubLock.by # p
    BY <1>1, <1>3, NotTheHolder DEF Holds, HoldSteps
  <2> QED BY <1>1, <1>2, <1>3, <2>1, QuietStep DEF RecoverySteps, HoldSteps, EarlySteps, PubSteps
<1>4. CASE pub[p].stale = p
  <2>1. Holds(p) /\ Alive(p) /\ pubLock.by = p /\ LockOf(p) /\ pub[p].step \notin RecoverySteps
    BY <1>1, <1>4, HolderAt DEF Holds
  <2>2. backups'[p] = NoFiles /\ pub'[p].at = 1
    BY <1>1, <1>2 DEF PubSafe, PublisherInv, EarlySteps, PubSteps
  <2>3. LockOf(p)'
    <3>1. Fresh(p)'
      BY <1>1, <1>2, <1>4, <2>1 DEF LockOf, Fresh, OneOf
    <3> QED BY <1>1, <1>2, <1>4, <2>1, <3>1 DEF LockOf, Holds, HoldSteps, Alive
  <2> QED BY <1>1, <1>2, <1>4, <2>1, <2>2, <2>3, HolderStep DEF RecoverySteps, LockOf
<1> QED BY <1>3, <1>4

\* What the holder finds is one generation, whole.
LEMMA LookForFilesKeeps == ASSUME PubTypeOK, PubTypeOK', PubSafe, NEW p \in Publishers, LookForFiles(p) PROVE PubSafe'
<1>1. /\ pub[p].step = "existed" /\ p \notin dead /\ UNCHANGED <<final, backups, pubLock, dead>>
      /\ pub'[p].step = "own" /\ pub'[p].at = pub[p].at /\ pub'[p].existed = {i \in Files : final[i] # Absent}
      /\ \A q \in Publishers : q # p => pub'[q] = pub[q]
  BY DEF LookForFiles, At, disk, dirs, PubTypeOK
<1>2. Holds(p) /\ Alive(p) /\ pubLock.by = p /\ LockOf(p) /\ pub[p].step \notin RecoverySteps
  BY <1>1, HolderAt DEF Holds, HoldSteps
<1>3. backups'[p] = NoFiles /\ pub'[p].at = 1
  BY <1>1 DEF PubSafe, PublisherInv, EarlySteps, PubSteps
<1>4. LockOf(p)'
  <2>1. Fresh(p)'
    BY <1>1, <1>2 DEF LockOf, Fresh, OneOf
  <2> QED BY <1>1, <1>2, <2>1 DEF LockOf, Holds, HoldSteps, Alive
<1> QED BY <1>1, <1>2, <1>3, <1>4, HolderStep DEF RecoverySteps, LockOf

\* The owner is written into the lock of the publisher that writes it.
LEMMA OwnLockKeeps == ASSUME PubTypeOK, PubTypeOK', PubSafe, NEW p \in Publishers, OwnLock(p) PROVE PubSafe'
<1>1. pub[p].step = "own" /\ p \notin dead /\ UNCHANGED <<final, backups, dead>>
  BY DEF OwnLock, At, disk
<1>2. Holds(p) /\ Alive(p) /\ pubLock.by = p /\ Made /\ LockOf(p) /\ pub[p].step \notin RecoverySteps
  BY <1>1, HolderAt DEF Holds, HoldSteps
<1>3. pubLock' = [pubLock EXCEPT !.owner = p, !.existed = pub[p].existed] /\ Go(p, "write")
  BY <1>2 DEF OwnLock
<1>4. pub'[p].step = "write" /\ pub'[p].at = pub[p].at /\ pub'[p].existed = pub[p].existed /\ \A q \in Publishers : q # p => pub'[q] = pub[q]
  <2>1. "write" \in PubSteps
    BY DEF PubSteps
  <2> QED BY <1>3, <2>1, GoesOn
<1>5. /\ pubLock'.by = p /\ pubLock'.owner = p /\ pubLock'.existed = pub[p].existed
      /\ pubLock'.committed = pubLock.committed
  BY <1>2, <1>3 DEF PubTypeOK
<1>6. backups'[p] = NoFiles /\ pub'[p].at = 1
  BY <1>1, <1>4 DEF PubSafe, PublisherInv, EarlySteps, PubSteps
<1>7. LockOf(p)'
  <2>1. Fresh(p)'
    <3>1. Copying(p)'
      BY <1>6 DEF Copying, NoFiles
    <3> QED BY <1>1, <1>2, <1>4, <1>5, <3>1 DEF LockOf, Fresh, OneOf
  <2> QED BY <1>1, <1>2, <1>4, <1>5, <2>1 DEF LockOf, Holds, HoldSteps, Alive
<1> QED BY <1>1, <1>2, <1>4, <1>5, <1>6, <1>7, HolderStep DEF RecoverySteps

\* The generation that is there while a publisher has made no backups.
LEMMA FreshIsOfOne ==
  ASSUME PubTypeOK, NoPart, NEW p \in Publishers, Fresh(p), pub[p].step \in {"write", "backup"}
  PROVE  \E g \in Generations : AllOf(g) /\ Before(p, g) /\ pub[p].existed = Present(g)
<1>1. final[1] \in Generations /\ AllOf(final[1])
  BY FirstFile DEF NoPart, Fresh, OneOf, AllOf
<1>2. pub[p].existed = Present(final[1]) /\ pubLock.existed = pub[p].existed
  BY <1>1, FirstFile DEF Fresh, AllOf, Present
<1>3. Before(p, final[1])
  BY <1>1, <1>2 DEF Fresh, Copying, AllOf, Before
<1> QED BY <1>1, <1>2, <1>3

\* A publisher that gives up before it has changed a file cleans up.
LEMMA GivesUpKeeps ==
  ASSUME PubTypeOK, PubTypeOK', PubSafe, NoPart, NEW p \in Publishers, p \notin dead, pub[p].step \in {"write", "backup"},
         Go(p, "clean"), UNCHANGED <<final, backups, pubLock, dead>>
  PROVE  PubSafe'
<1>1. Holds(p) /\ Alive(p) /\ pubLock.by = p /\ LockOf(p) /\ pub[p].step \notin RecoverySteps
  BY HolderAt DEF Holds, HoldSteps
<1>2. pub'[p].step = "clean" /\ \A q \in Publishers : q # p => pub'[q] = pub[q]
  <2>1. "clean" \in PubSteps
    BY DEF PubSteps
  <2> QED BY <2>1, GoesOn
<1>3. Fresh(p)
  BY <1>1 DEF LockOf
<1>4. PICK g \in Generations : AllOf(g) /\ Before(p, g)
  BY <1>3, FreshIsOfOne
<1>6. Cleaning(p)'
  <2>1. OneOf' /\ AllOf(g)' /\ ~pubLock'.committed
    BY <1>3, <1>4 DEF Fresh, OneOf, AllOf
  <2>2. Before(p, g)'
    BY <1>4 DEF Before, Present
  <2> QED BY <2>1, <2>2 DEF Cleaning, Generations
<1>7. LockOf(p)'
  BY <1>1, <1>2, <1>6 DEF LockOf, Alive
<1> QED BY <1>1, <1>2, <1>7, HolderStep DEF RecoverySteps, LockOf, EarlySteps

\* Pending files are written beside the published ones.
LEMMA WritePendingKeeps == ASSUME PubTypeOK, PubTypeOK', PubSafe, NoPart, NEW p \in Publishers, WritePending(p) PROVE PubSafe'
<1>1. /\ pub[p].step = "write" /\ p \notin dead /\ UNCHANGED <<final, backups, pubLock, dead>>
      /\ Go(p, "backup") \/ Go(p, "clean")
  BY DEF WritePending, At, dirs
<1>2. CASE Go(p, "clean")
  BY <1>1, <1>2, GivesUpKeeps
<1>3. CASE Go(p, "backup")
  <2>1. Holds(p) /\ Alive(p) /\ pubLock.by = p /\ LockOf(p) /\ pub[p].step \notin RecoverySteps
    BY <1>1, HolderAt DEF Holds, HoldSteps
  <2>2. /\ pub'[p].step = "backup" /\ pub'[p].at = pub[p].at /\ pub'[p].existed = pub[p].existed
        /\ \A q \in Publishers : q # p => pub'[q] = pub[q]
    <3>1. "backup" \in PubSteps
      BY DEF PubSteps
    <3> QED BY <1>3, <3>1, GoesOn
  <2>3. backups'[p] = NoFiles /\ pub'[p].at = 1
    BY <1>1, <2>2 DEF PubSafe, PublisherInv, EarlySteps, PubSteps
  <2>4. LockOf(p)'
    <3>1. Fresh(p)'
      BY <1>1, <2>1, <2>2 DEF LockOf, Fresh, OneOf, Copying
    <3> QED BY <1>1, <2>1, <2>2, <3>1 DEF LockOf, Holds, HoldSteps, Alive
  <2> QED BY <1>1, <2>1, <2>2, <2>3, <2>4, HolderStep DEF RecoverySteps, LockOf, EarlySteps
<1> QED BY <1>1, <1>2, <1>3

\* A copy is of what is there, or not complete; the complete ones are of the
\* generation that is there.
LEMMA BackUpKeeps == ASSUME PubTypeOK, PubTypeOK', PubSafe, NoPart, NEW p \in Publishers, BackUp(p) PROVE PubSafe'
<1>1. pub[p].step = "backup" /\ p \notin dead /\ UNCHANGED <<final, pubLock, dead>>
  BY DEF BackUp, At, dirs
<1>2. Holds(p) /\ Alive(p) /\ pubLock.by = p /\ LockOf(p) /\ pub[p].step \notin RecoverySteps
  BY <1>1, HolderAt DEF Holds, HoldSteps
<1>3. Fresh(p) /\ Copying(p) /\ pub[p].existed = {i \in Files : final[i] # Absent} /\ pub[p].at = 1
  BY <1>1, <1>2 DEF LockOf, Fresh, PubSafe, PublisherInv
<1>4. CASE Go(p, "clean") /\ UNCHANGED backups
  BY <1>1, <1>4, GivesUpKeeps
<1>5. ASSUME NEW i \in pub[p].existed, UNCHANGED pub,
             backups' = [backups EXCEPT ![p][i] = IF @ = Absent THEN Cut ELSE final[i]]
      PROVE  PubSafe'
  <2>1. i \in Files
    BY <1>3
  <2>2. /\ \A q \in Publishers : q # p => backups'[q] = backups[q]
        /\ \A j \in Files : j # i => backups'[p][j] = backups[p][j]
        /\ backups'[p][i] \in {Cut, final[i]}
    BY <1>5, <2>1 DEF PubTypeOK
  <2>3. Copying(p)'
    BY <1>1, <1>3, <1>5, <2>1, <2>2 DEF Copying
  <2>4. Fresh(p)'
    BY <1>1, <1>3, <1>5, <2>3 DEF Fresh, OneOf
  <2>5. LockOf(p)'
    BY <1>1, <1>2, <1>5, <2>4 DEF LockOf, Holds, HoldSteps, Alive
  <2> QED BY <1>1, <1>2, <1>3, <1>5, <2>2, <2>5, HolderStep DEF RecoverySteps, LockOf, EarlySteps
<1>6. CASE Go(p, "rename") /\ UNCHANGED backups /\ \A i \in pub[p].existed : backups[p][i] \notin {Absent, Cut}
  <2>1. /\ pub'[p].step = "rename" /\ pub'[p].at = pub[p].at /\ pub'[p].existed = pub[p].existed
        /\ \A q \in Publishers : q # p => pub'[q] = pub[q]
    <3>1. "rename" \in PubSteps
      BY DEF PubSteps
    <3> QED BY <1>6, <3>1, GoesOn
  <2>2. PICK g \in Generations : AllOf(g) /\ Before(p, g) /\ pub[p].existed = Present(g)
    BY <1>1, <1>3, FreshIsOfOne
  <2>3. \A i \in Files : backups'[p][i] = g
    BY <1>3, <1>6, <2>2 DEF Copying, AllOf
  <2>4. Replacing(p, g)'
    <3>1. pubLock'.owner = p /\ ~pubLock'.committed /\ pubLock'.existed = Present(g) /\ pub'[p].existed = Present(g)
      BY <1>1, <1>3, <2>1, <2>2 DEF Fresh, Before
    <3>2. \A i \in Files : final'[i] = IF i < pub'[p].at THEN p ELSE g
      BY <1>1, <1>3, <2>1, <2>2, FirstFile DEF AllOf
    <3> QED BY <2>1, <2>3, <3>1, <3>2 DEF Replacing, Present
  <2>5. LockOf(p)'
    BY <1>1, <1>2, <2>1, <2>4 DEF LockOf, Holds, HoldSteps, Alive, Generations
  <2> QED BY <1>1, <1>2, <1>6, <2>1, <2>5, HolderStep DEF RecoverySteps, LockOf, EarlySteps
<1> QED BY <1>4, <1>5, <1>6 DEF BackUp

\* Files before at are of the new generation, the others of the old.
LEMMA RenameNextKeeps == ASSUME PubTypeOK, PubTypeOK', PubSafe, NEW p \in Publishers, RenameNext(p) PROVE PubSafe'
<1>1. pub[p].step = "rename" /\ p \notin dead /\ UNCHANGED <<backups, pubLock, dead>>
  BY DEF RenameNext, At, dirs
<1>2. Holds(p) /\ Alive(p) /\ pubLock.by = p /\ LockOf(p) /\ pub[p].step \notin RecoverySteps
  BY <1>1, HolderAt DEF Holds, HoldSteps
<1>3. PICK g \in Generations : Replacing(p, g)
  BY <1>1, <1>2 DEF LockOf
<1>4. CASE pub' = [pub EXCEPT ![p].step = "restore", ![p].at = 1] /\ UNCHANGED final
  <2>1. /\ pub'[p].step = "restore" /\ pub'[p].existed = pub[p].existed
        /\ \A q \in Publishers : q # p => pub'[q] = pub[q]
    BY <1>4 DEF PubTypeOK
  <2>2. Replacing(p, g)'
    BY <1>1, <1>3, <1>4, <2>1 DEF Replacing, Present
  <2>3. LockOf(p)'
    BY <1>1, <1>2, <2>1, <2>2 DEF LockOf, Holds, HoldSteps, Alive, Generations
  <2> QED BY <1>1, <1>2, <2>1, <2>3, HolderStep DEF RecoverySteps, LockOf, EarlySteps
<1>5. CASE final' = [final EXCEPT ![pub[p].at] = p] /\ NextFile(p, "commit")
  <2> DEFINE i == pub[p].at
  <2>1. i \in Files /\ i \in Nat /\ Files \subseteq Nat
    BY FirstFile DEF PubTypeOK
  <2>2. /\ \A q \in Publishers : q # p => pub'[q] = pub[q]
        /\ pub'[p].existed = pub[p].existed
        /\ IF i + 1 \in Files THEN pub'[p].at = i + 1 /\ pub'[p].step = "rename"
           ELSE pub'[p].at = 1 /\ pub'[p].step = "commit"
    <3>1. "commit" \in PubSteps
      BY DEF PubSteps
    <3> QED BY <1>1, <1>5, <3>1, NextFileGoesOn
  <2>3. \A j \in Files : final'[j] = IF j < i + 1 THEN p ELSE g
    <3>1. \A j \in Files : final[j] = IF j < i THEN p ELSE g
      BY <1>1, <1>3 DEF Replacing
    <3>2. \A j \in Files : final'[j] = IF j = i THEN p ELSE final[j]
      BY <1>5, <2>1 DEF PubTypeOK
    <3> HIDE DEF i
    <3>3. \A j \in Files : j \in Nat /\ (j < i + 1 <=> j = i \/ j < i)
      BY <2>1
    <3> QED BY <3>1, <3>2, <3>3
  <2>4. i + 1 \notin Files => \A j \in Files : j < i + 1
    <3>1. Cardinality(Files) \in Nat /\ Files = 1..Cardinality(Files)
      BY PublicationAssumption, FS_CardinalityType
    <3> HIDE DEF i
    <3> QED BY <2>1, <3>1
  <2>5. Replacing(p, g)'
    <3> HIDE DEF i
    <3>1. CASE i + 1 \in Files
      BY <1>1, <1>3, <2>2, <2>3, <3>1 DEF Replacing, Present
    <3>2. CASE i + 1 \notin Files
      <4>1. AllOf(p)'
        BY <2>3, <2>4, <3>2 DEF AllOf
      <4> QED BY <1>1, <1>3, <2>2, <3>2, <4>1 DEF Replacing, Present
    <3> QED BY <3>1, <3>2
  <2>6. pub'[p].step \in {"rename", "commit"}
    BY <2>2
  <2>7. LockOf(p)'
    BY <1>1, <1>2, <2>5, <2>6 DEF LockOf, Holds, HoldSteps, Alive, Generations
  <2> QED BY <1>1, <1>2, <2>2, <2>6, <2>7, HolderStep DEF RecoverySteps, LockOf, EarlySteps
<1> QED BY <1>4, <1>5 DEF RenameNext

\* The marker is written when every file is of the new generation.
LEMMA CommitKeeps == ASSUME PubTypeOK, PubTypeOK', PubSafe, NEW p \in Publishers, Commit(p) PROVE PubSafe'
<1>1. pub[p].step = "commit" /\ p \notin dead /\ UNCHANGED <<final, backups, dead>>
  BY DEF Commit, At, disk
<1>2. Holds(p) /\ Alive(p) /\ pubLock.by = p /\ LockOf(p) /\ pub[p].step \notin RecoverySteps
  BY <1>1, HolderAt DEF Holds, HoldSteps
<1>3. PICK g \in Generations : Replacing(p, g)
  BY <1>1, <1>2 DEF LockOf
<1>4. AllOf(p)
  BY <1>1, <1>3 DEF Replacing
<1>5. CASE Go(p, "restore") /\ UNCHANGED pubLock
  <2>1. /\ pub'[p].step = "restore" /\ pub'[p].existed = pub[p].existed
        /\ \A q \in Publishers : q # p => pub'[q] = pub[q]
    <3>1. "restore" \in PubSteps
      BY DEF PubSteps
    <3> QED BY <1>5, <3>1, GoesOn
  <2>2. Replacing(p, g)'
    BY <1>1, <1>3, <1>4, <1>5, <2>1 DEF Replacing, Present, AllOf
  <2>3. LockOf(p)'
    BY <1>2, <1>5, <1>1, <2>1, <2>2 DEF LockOf, Holds, HoldSteps, Alive, Generations
  <2> QED BY <1>1, <1>2, <1>5, <2>1, <2>3, HolderStep DEF RecoverySteps, LockOf, EarlySteps
<1>6. CASE pubLock' = [pubLock EXCEPT !.committed = TRUE] /\ Go(p, "clean")
  <2>1. pub'[p].step = "clean" /\ \A q \in Publishers : q # p => pub'[q] = pub[q]
    <3>1. "clean" \in PubSteps
      BY DEF PubSteps
    <3> QED BY <1>6, <3>1, GoesOn
  <2>2. pubLock'.by = p /\ pubLock'.owner = p
    BY <1>2, <1>3, <1>6 DEF PubTypeOK, Replacing
  <2>3. Cleaning(p)'
    BY <1>1, <1>4 DEF Cleaning, OneOf, AllOf
  <2>4. LockOf(p)'
    BY <1>1, <1>2, <2>1, <2>2, <2>3 DEF LockOf, Alive
  <2> QED BY <1>1, <1>2, <2>1, <2>2, <2>4, HolderStep DEF RecoverySteps, EarlySteps
<1> QED BY <1>5, <1>6 DEF Commit

\* What a restoration has not put back has its backup still.
LEMMA RestoreKeeps == ASSUME PubTypeOK, PubTypeOK', PubSafe, NEW p \in Publishers, Restore(p) PROVE PubSafe'
<1>1. pub[p].step = "restore" /\ p \notin dead /\ UNCHANGED <<pubLock, dead>>
  BY DEF Restore, At, dirs
<1>2. Holds(p) /\ Alive(p) /\ pubLock.by = p /\ LockOf(p) /\ pub[p].step \notin RecoverySteps
  BY <1>1, HolderAt DEF Holds, HoldSteps
<1>3. PICK g \in Generations : Replacing(p, g)
  BY <1>1, <1>2 DEF LockOf
<1>4. PICK lost \in SUBSET Files :
        /\ final' = [i \in Files |-> IF i \in lost THEN final[i]
                                     ELSE IF i \in pub[p].existed THEN backups[p][i] ELSE Absent]
        /\ backups' = [backups EXCEPT ![p] = [i \in Files |-> IF i \in lost THEN @[i] ELSE Absent]]
        /\ IF lost = {} THEN Go(p, "clean") ELSE Go(p, "failed")
  BY DEF Restore
<1>5. backups'[p] = [i \in Files |-> IF i \in lost THEN backups[p][i] ELSE Absent]
      /\ \A q \in Publishers : q # p => backups'[q] = backups[q]
  BY <1>4 DEF PubTypeOK
<1>6. \A i \in Files : i \notin lost => final'[i] = g
  BY <1>3, <1>4 DEF Replacing, Present
<1>7. \A i \in Files : backups'[p][i] = IF i \in lost THEN g ELSE Absent
  BY <1>3, <1>5 DEF Replacing
<1>8. Before(p, g)'
  <2>1. pubLock'.existed = Present(g)
    BY <1>1, <1>3 DEF Replacing
  <2> QED BY <1>7, <2>1 DEF Before, Present
<1>9. /\ pub'[p].step = (IF lost = {} THEN "clean" ELSE "failed")
      /\ \A q \in Publishers : q # p => pub'[q] = pub[q]
  <2>1. "clean" \in PubSteps /\ "failed" \in PubSteps
    BY DEF PubSteps
  <2> QED BY <1>4, <2>1, GoesOn
<1>10. pubLock'.owner = p /\ pubLock'.committed = FALSE
  BY <1>1, <1>3 DEF Replacing, PubTypeOK
<1>11. CASE lost = {}
  <2>1. Cleaning(p)'
    <3>1. AllOf(g)' /\ OneOf'
      BY <1>6, <1>11 DEF AllOf, OneOf
    <3> QED BY <1>8, <1>10, <3>1 DEF Cleaning, Generations
  <2>2. LockOf(p)'
    BY <1>1, <1>2, <1>9, <1>11, <2>1 DEF LockOf, Alive
  <2> QED BY <1>1, <1>2, <1>5, <1>9, <1>11, <2>2, HolderStep DEF RecoverySteps, LockOf, EarlySteps
<1>12. CASE lost # {}
  <2>1. Undoable(p, g)'
    <3>1. \A q \in Publishers : pub'[q].stale = p => pub'[q].step \notin RecoverySteps
      BY <1>2, <1>9, <1>12 DEF PubSafe, RecoveryInv, RecoverySteps
    <3>2. \A q \in Publishers : pub'[q].stale = p => Restored(q, g)'
      BY <3>1 DEF Restored, RecoverySteps
    <3>3. \A i \in Files : final'[i] = g \/ backups'[p][i] = g
      BY <1>6, <1>7
    <3> QED BY <1>8, <3>2, <3>3 DEF Undoable
  <2>2. ~Alive(p)' /\ pub'[p].step = "failed"
    BY <1>9, <1>12 DEF Alive
  <2>3. LockOf(p)'
    BY <1>10, <2>1, <2>2 DEF LockOf, Generations
  <2> QED BY <1>1, <1>2, <1>5, <1>9, <2>2, <2>3, HolderStep DEF RecoverySteps, LockOf, EarlySteps
<1> QED BY <1>11, <1>12

\* The owner goes from the lock, and the marker, while the files are of one generation.
LEMMA CleanKeeps == ASSUME PubTypeOK, PubTypeOK', PubSafe, NEW p \in Publishers, Clean(p) PROVE PubSafe'
<1>1. pub[p].step = "clean" /\ p \notin dead /\ UNCHANGED <<final, dead>>
  BY DEF Clean, At
<1>2. \A q \in Publishers : q # p => backups'[q] = backups[q]
  BY DEF Clean, PubTypeOK
<1>3. pub' = pub \/ Go(p, "done")
  BY DEF Clean
<1>4. pub'[p].step \in {"clean", "done"} /\ \A q \in Publishers : q # p => pub'[q] = pub[q]
  <2>1. "done" \in PubSteps
    BY DEF PubSteps
  <2> QED BY <1>1, <1>3, <2>1, GoesOn
<1>5. CASE pubLock.by # p
  <2>1. pubLock' = pubLock
    BY <1>5 DEF Clean
  <2> QED BY <1>1, <1>2, <1>4, <1>5, <2>1, QuietStep DEF RecoverySteps, HoldSteps, EarlySteps
<1>6. CASE pubLock.by = p
  <2>1. Alive(p) /\ LockOf(p) /\ Cleaning(p) /\ pub'[p] = pub[p] /\ pub' = pub
    BY <1>1, <1>3, <1>6 DEF PubSafe, LockInv, LockOf, Alive, Clean
  <2>2. ~Holds(p)' /\ OneOf'
    BY <1>1, <2>1 DEF Cleaning, OneOf, Holds, HoldSteps
  <2>3. CASE UNCHANGED pubLock /\ \E i \in Files : backups' = [backups EXCEPT ![p][i] = Absent]
    <3>1. \A i \in Files : backups'[p][i] \in {backups[p][i], Absent}
      BY <2>3 DEF PubTypeOK
    <3>2. \A g : Before(p, g) => Before(p, g)'
      BY <2>3, <3>1 DEF Before, Present
    <3>3. \A g : AllOf(g) => AllOf(g)'
      BY <1>1 DEF AllOf
    <3>4. Cleaning(p)'
      BY <2>1, <2>2, <2>3, <3>2, <3>3 DEF Cleaning, Generations
    <3>5. LockOf(p)'
      BY <1>1, <2>1, <2>3, <3>4 DEF LockOf, Alive
    <3> QED BY <1>1, <1>2, <1>4, <1>6, <2>1, <2>3, <3>5, HolderStep DEF RecoverySteps, LockOf, EarlySteps
  <2>4. CASE UNCHANGED backups /\ pubLock' = [pubLock EXCEPT !.owner = Absent, !.existed = {}]
    <3>1. pubLock'.by = p /\ pubLock'.owner = Absent /\ pubLock'.committed = pubLock.committed
      BY <1>6, <2>4 DEF PubTypeOK
    <3>2. Cleaning(p)'
      BY <1>1, <2>1, <2>2, <3>1, PublicationAssumption DEF Cleaning, AllOf
    <3>3. LockOf(p)'
      BY <1>1, <2>1, <3>1, <3>2 DEF LockOf, Alive
    <3> QED BY <1>1, <1>2, <1>4, <1>6, <2>1, <3>1, <3>3, HolderStep DEF RecoverySteps, EarlySteps
  <2>5. CASE UNCHANGED backups /\ pubLock' = [pubLock EXCEPT !.committed = FALSE]
    <3>1. pubLock'.by = p /\ pubLock'.owner = pubLock.owner /\ pubLock'.committed = FALSE /\ pubLock'.existed = pubLock.existed
      BY <1>6, <2>5 DEF PubTypeOK
    <3>2. \A g : (Before(p, g) => Before(p, g)') /\ (AllOf(g) => AllOf(g)')
      BY <1>1, <2>5, <3>1 DEF Before, AllOf, Present
    <3>3. Cleaning(p)'
      BY <2>1, <2>2, <3>1, <3>2 DEF Cleaning, Generations
    <3>4. LockOf(p)'
      BY <1>1, <2>1, <3>1, <3>3 DEF LockOf, Alive
    <3> QED BY <1>1, <1>2, <1>4, <1>6, <2>1, <3>1, <3>4, HolderStep DEF RecoverySteps, EarlySteps, LockOf
  <2>6. CASE UNCHANGED backups /\ pubLock' = NoLock
    BY <1>1, <1>2, <1>4, <1>6, <2>1, <2>2, <2>6, PublicationAssumption, HolderStep DEF RecoverySteps, EarlySteps, NoLock
  <2> QED BY <2>3, <2>4, <2>5, <2>6, <1>6 DEF Clean
<1> QED BY <1>5, <1>6

\* The holder of the lock is killed: until it has made all its backups the files are of one
\* generation, and then there is what makes them so.
LEMMA KilledHolder ==
  ASSUME PubTypeOK, PubSafe, NoPart, NEW p \in Publishers, Alive(p), pubLock.by = p,
         ~(At(p, "clean") /\ final = [i \in Files |-> p] /\ pubLock.owner = p /\ ~pubLock.committed)
  PROVE  IF pubLock.owner = p /\ ~pubLock.committed THEN \E g \in Generations : Undoable(p, g) ELSE OneOf
<1> USE PublicationAssumption
<1>1. LockOf(p) /\ p \notin dead
  BY DEF PubSafe, LockInv, Alive
<1>2. \A g : \A q \in Publishers : pub[q].stale = p => Restored(q, g)
  BY DEF PubSafe, RecoveryInv, Restored
<1>3. CASE pub[p].step \in {"unrec", "existed", "own"}
  BY <1>1, <1>3 DEF LockOf, Fresh
<1>4. CASE pub[p].step \in {"write", "backup"}
  <2>1. Fresh(p)
    BY <1>1, <1>4 DEF LockOf
  <2>2. PICK g \in Generations : AllOf(g) /\ Before(p, g)
    BY <1>4, <2>1, FreshIsOfOne
  <2>3. Undoable(p, g)
    BY <1>2, <2>2 DEF Undoable, AllOf
  <2> QED BY <2>1, <2>3 DEF Fresh
<1>5. CASE pub[p].step \in {"rename", "commit", "restore"}
  <2>1. PICK g \in Generations : Replacing(p, g)
    BY <1>1, <1>5 DEF LockOf
  <2>2. Undoable(p, g)
    BY <1>2, <2>1 DEF Undoable, Before, Replacing
  <2> QED BY <2>1, <2>2 DEF Replacing
<1>6. CASE pub[p].step = "clean"
  <2>1. Cleaning(p)
    BY <1>1, <1>6 DEF LockOf
  <2>2. CASE pubLock.owner = p /\ ~pubLock.committed
    <3>1. ~AllOf(p)
      BY <1>1, <1>6, <2>2 DEF At, AllOf, PubTypeOK
    <3>2. PICK g \in Generations : AllOf(g) /\ Before(p, g)
      BY <2>1, <2>2, <3>1 DEF Cleaning
    <3> QED BY <1>2, <2>2, <3>2 DEF Undoable, AllOf
  <2>3. CASE ~(pubLock.owner = p /\ ~pubLock.committed)
    BY <2>1, <2>3 DEF Cleaning
  <2> QED BY <2>2, <2>3
<1> QED BY <1>1, <1>3, <1>4, <1>5, <1>6 DEF LockOf, Holds, HoldSteps, Alive

\* A publisher is killed, with the lock or without.
LEMMA KillKeeps == ASSUME PubTypeOK, PubTypeOK', PubSafe, NoPart, NEW p \in Publishers, KillPublisher(p), ~fault' PROVE PubSafe'
<1>1. /\ Alive(p) /\ dead' = dead \cup {p} /\ UNCHANGED <<final, backups, pubLock, pub>>
      /\ ~(At(p, "clean") /\ final = [i \in Files |-> p] /\ pubLock.owner = p /\ ~pubLock.committed)
  BY DEF KillPublisher, disk, dirs
<1>2. \A x : (Alive(x)' => Alive(x)) /\ (x # p /\ Alive(x) => Alive(x)')
  BY <1>1 DEF Alive
<1>3. ~Alive(p)'
  BY <1>1 DEF Alive
<1>4. \A q \in Publishers : Holds(q)' <=> Holds(q)
  BY <1>1 DEF Holds
<1>5. RecoveryInv'
  BY <1>1, <1>2 DEF PubSafe, RecoveryInv
<1>6. PublisherInv'
  BY <1>1, <1>2, <1>4 DEF PubSafe, PublisherInv, NoFiles
<1>7. OneOf => OneOf'
  BY <1>1 DEF OneOf
<1>8. \A h, g : Undoable(h, g) => Undoable(h, g)'
  BY <1>1 DEF Undoable, Before, Restored, AllOf, Present
<1>9. ASSUME NEW h \in Publishers, pubLock'.by = h PROVE LockOf(h)'
  <2>1. LockOf(h) /\ pubLock.by = h
    BY <1>1, <1>9 DEF PubSafe, LockInv
  <2>2. CASE h = p
    <3>1. IF pubLock.owner = p /\ ~pubLock.committed THEN \E g \in Generations : Undoable(p, g) ELSE OneOf
      BY <1>1, <2>1, <2>2, KilledHolder
    <3> QED BY <1>1, <1>3, <1>4, <1>7, <1>8, <2>1, <2>2, <3>1 DEF LockOf, Generations
  <2>3. CASE h # p
    <3>1. (Fresh(h) => Fresh(h)') /\ (Cleaning(h) => Cleaning(h)')
      BY <1>1 DEF Fresh, Copying, Cleaning, OneOf, AllOf, Before, Present, Generations
    <3>2. \A g : Replacing(h, g) => Replacing(h, g)'
      BY <1>1 DEF Replacing, AllOf, Present
    <3> QED BY <1>1, <1>2, <1>4, <1>7, <1>8, <2>1, <2>3, <3>1, <3>2 DEF LockOf, Generations
  <2> QED BY <2>2, <2>3
<1>10. LockInv'
  <2>1. ~Made' => pubLock' = NoLock /\ OneOf'
    BY <1>1, <1>7 DEF PubSafe, LockInv, Made, NoLock
  <2> QED BY <1>9, <2>1 DEF LockInv
<1> QED BY <1>5, <1>6, <1>10 DEF PubSafe

\* The lock a recovery is at, outside the fault: its maker is gone, and it is the
\* owner that the recovery has read.
LEMMA AtDeadLock ==
  ASSUME PubTypeOK, PubSafe, NEW p \in Publishers, p \notin dead, pub[p].step \in RecoverySteps,
         ~Robbing(p)
  PROVE  /\ Alive(p) /\ pubLock.by # p /\ pubLock.owner = pub[p].stale /\ ~(Made /\ Alive(pubLock.by))
         /\ pub[p].stale # Absent => pubLock.by = pub[p].stale /\ pub[p].stale \in Publishers /\ Made
                                     /\ LockOf(pub[p].stale) /\ ~Alive(pub[p].stale)
<1> USE PublicationAssumption DEF PubSafe, RecoverySteps
<1>1. pubLock.owner = pub[p].stale /\ ~(Made /\ Alive(pubLock.by))
  BY DEF Robbing
<1>2. Alive(p) /\ pubLock.by # p
  BY NotTheHolder DEF Alive, Holds, HoldSteps
<1>3. ASSUME pub[p].stale # Absent
      PROVE  pubLock.by = pub[p].stale /\ pub[p].stale \in Publishers /\ Made /\ LockOf(pub[p].stale) /\ ~Alive(pub[p].stale)
  <2>1. Made
    BY <1>1, <1>3 DEF LockInv, NoLock
  <2>2. pubLock.by \in Publishers
    BY <2>1 DEF Made, PubTypeOK, Owners
  <2>3. pubLock.owner = pubLock.by
    BY <1>1, <1>3, <2>2 DEF LockInv, LockOf
  <2> QED BY <1>1, <2>1, <2>2, <2>3 DEF LockInv
<1> QED BY <1>1, <1>2, <1>3

\* A step of the recovery of h, which is gone.
LEMMA RecoverStep ==
  ASSUME PubTypeOK, PubTypeOK', PubSafe, NEW p \in Publishers, NEW h \in Publishers,
         Alive(p), ~Alive(h), pub[p].step \in {"rollback", "sweep"}, pub[p].stale = h,
         pubLock.by = h, pubLock.owner = h, LockOf(h), UNCHANGED <<pubLock, dead>>,
         \A q \in Publishers : q # p => pub'[q] = pub[q],
         pub'[p].stale = h, pub'[p].step \in RecoverySteps, pub'[p].step = "rollback" => pub[p].step = "rollback",
         pub'[p].step # "rollback" => pub'[p].at = 1,
         \A q \in Publishers, i \in Files : backups'[q][i] \in {backups[q][i], Absent},
         IF ~pubLock.committed THEN \E g \in Generations : Undoable(h, g)' ELSE OneOf'
  PROVE  PubSafe'
<1> USE PublicationAssumption DEF PubSafe, RecoverySteps
<1>1. h # p /\ Alive(p)'
  BY DEF Alive
<1>2. \A x : Alive(x)' <=> Alive(x)
  BY <1>1 DEF Alive
<1>3. \A q \in Publishers : q # p => (Holds(q)' <=> Holds(q))
  BY DEF Holds
<1>4. ~Holds(p)'
  BY DEF Holds, HoldSteps
<1>5. RecoveryInv'
  BY <1>2 DEF RecoveryInv
<1>6. PublisherInv'
  <2>1. \A q \in Publishers : backups[q] = NoFiles => backups'[q] = NoFiles'
    BY DEF NoFiles, PubTypeOK
  <2>2. \A q \in Publishers : pub'[q].step \in EarlySteps => pub[q].step \in EarlySteps
    BY DEF EarlySteps, PubSteps
  <2>3. \A q \in Publishers : Alive(q)' /\ Holds(q)' => pubLock'.by = q
    BY <1>2, <1>3, <1>4 DEF PublisherInv
  <2>4. \A q \in Publishers : pub'[q].step \in EarlySteps /\ pub'[q].step # "rollback" => pub'[q].at = 1
    BY DEF PublisherInv
  <2> QED BY <2>1, <2>2, <2>3, <2>4 DEF PublisherInv, EarlySteps
<1>7. LockInv'
  <2>1. LockOf(h)'
    BY <1>1, <1>2, <1>3 DEF LockOf, Generations
  <2> QED BY <2>1 DEF LockInv, Made
<1> QED BY <1>5, <1>6, <1>7

\* A recovery begins at a lock whose maker is gone.
LEMMA ReadStaleKeeps == ASSUME PubTypeOK, PubTypeOK', PubSafe, NEW p \in Publishers, ReadStale(p), ~fault' PROVE PubSafe'
<1> USE PublicationAssumption
<1>1. /\ pub[p].step = "stale" /\ p \notin dead /\ UNCHANGED <<final, backups, pubLock, dead>>
      /\ \A q \in Publishers : q # p => pub'[q] = pub[q]
      /\ pub'[p].at = 1 /\ pub'[p].existed = pubLock.existed /\ pub'[p].stale = pubLock.owner
      /\ ~(Made /\ Alive(pubLock.by))
  BY DEF ReadStale, Recovering, At, disk, dirs, PubTypeOK
<1>2. /\ pub'[p].step \in RecoverySteps
      /\ pub'[p].step = "unlock" <=> pubLock.owner = Absent
      /\ pub'[p].step = "rollback" <=> pubLock.owner # Absent /\ pubLock.committed = FALSE
  <2>1. pub'[p].step = IF pubLock.owner = Absent THEN "unlock"
                       ELSE IF pubLock.committed THEN "sweep" ELSE "rollback"
    BY DEF ReadStale, Recovering, PubTypeOK
  <2>2. pubLock.committed \in BOOLEAN
    BY DEF PubTypeOK
  <2> QED BY <2>1, <2>2 DEF RecoverySteps
<1>3. pubLock.by # p
  BY <1>1, NotTheHolder DEF Holds, HoldSteps
<1>4. \A x : ~Alive(x) => ~Alive(x)'
  <2>1. Alive(p)
    BY <1>1 DEF Alive
  <2> QED BY <1>1, <2>1 DEF Alive
<1>5. ~Alive(pubLock.owner)
  <2>1. CASE Made
    <3>1. pubLock.by \in Publishers /\ pubLock.owner \in {Absent, pubLock.by}
      BY <2>1 DEF Made, PubTypeOK, Owners, PubSafe, LockInv, LockOf
    <3> QED BY <1>1, <2>1, <3>1 DEF Alive
  <2>2. CASE ~Made
    BY <2>2 DEF PubSafe, LockInv, NoLock, Alive
  <2> QED BY <2>1, <2>2
<1>6. RecoveryInv'
  <2>1. \A q \in Publishers : pub'[q].step \in RecoverySteps => ~Alive(pub[q].stale)'
    <3>1. ~Alive(pub[p].stale)'
      BY <1>1, <1>4, <1>5 DEF Alive
    <3>2. ASSUME NEW q \in Publishers, q # p, pub'[q].step \in RecoverySteps PROVE ~Alive(pub[q].stale)'
      <4>1. ~Alive(pub[q].stale) /\ pub'[q] = pub[q]
        BY <1>1, <3>2 DEF PubSafe, RecoveryInv, RecoverySteps
      <4> QED BY <1>1, <1>4, <4>1 DEF Alive
    <3> QED BY <3>1, <3>2
  <2>2. \A q \in Publishers : q # p => pub'[q] = pub[q]
    BY <1>1
  <2>3. \A q \in Publishers : pub'[q].step \in {"rollback", "sweep"} => pub'[q].stale # Absent
    BY <1>1, <1>2, <2>2 DEF PubSafe, RecoveryInv
  <2>4. \A q \in Publishers : pub'[q].step = "rollback" /\ pubLock'.owner = pub'[q].stale => ~pubLock'.committed
    BY <1>1, <1>2, <2>2 DEF PubSafe, RecoveryInv
  <2> QED BY <2>1, <2>3, <2>4 DEF RecoveryInv, RecoverySteps
<1>7. PublisherInv'
  <2>1. \A q \in Publishers : q # p => (Alive(q)' <=> Alive(q)) /\ (Holds(q)' <=> Holds(q))
    BY <1>1 DEF Alive, Holds
  <2>2. ~Holds(p)'
    BY <1>2 DEF Holds, HoldSteps, RecoverySteps
  <2>3. NoFiles' = NoFiles
    BY DEF NoFiles
  <2> QED BY <1>1, <2>1, <2>2, <2>3 DEF PubSafe, PublisherInv, EarlySteps, PubSteps
<1>8. ASSUME NEW h \in Publishers, pubLock'.by = h PROVE LockOf(h)'
  <2>1. h # p /\ LockOf(h) /\ ~Alive(h) /\ Made
    BY <1>1, <1>3, <1>8 DEF PubSafe, LockInv, Made
  <2>2. (Holds(h)' <=> Holds(h)) /\ ~Alive(h)' /\ pub'[h] = pub[h]
    BY <1>1, <1>4, <2>1 DEF Holds
  <2>3. OneOf => OneOf'
    BY <1>1 DEF OneOf
  <2>4. ASSUME NEW g \in Generations, Undoable(h, g), pubLock.committed = FALSE PROVE Undoable(h, g)'
    <3>1. \A q \in Publishers : q # p /\ Restored(q, g) => Restored(q, g)'
      BY <1>1 DEF Restored, AllOf, Present
    <3>2. pub'[p].stale = h => Restored(p, g)'
      <4>1. pub'[p].step = "rollback" => pub'[p].existed = Present(g) /\ \A i \in Files : ~(i < pub'[p].at)
        BY <1>1, <2>4, FirstFile DEF Undoable, Before
      <4>2. pub'[p].stale = h => pub'[p].step = "rollback"
        BY <1>1, <1>2, <2>4
      <4> QED BY <4>1, <4>2 DEF Restored, Present
    <3> QED BY <1>1, <2>4, <3>1, <3>2 DEF Undoable, Before, Present
  <2>5. pubLock.committed \in BOOLEAN
    BY DEF PubTypeOK
  <2> QED BY <1>1, <2>1, <2>2, <2>3, <2>4, <2>5 DEF LockOf, Generations
<1>9. LockInv'
  <2>1. ~Made' => pubLock' = NoLock /\ OneOf'
    BY <1>1 DEF PubSafe, LockInv, Made, NoLock, OneOf
  <2> QED BY <1>8, <2>1 DEF LockInv
<1> QED BY <1>6, <1>7, <1>9 DEF PubSafe

\* A file is put back from its backup, or it is there already.
LEMMA RollBackKeeps == ASSUME PubTypeOK, PubTypeOK', PubSafe, NEW p \in Publishers, RollBack(p), ~fault' PROVE PubSafe'
<1> USE PublicationAssumption
<1>1. pub[p].step = "rollback" /\ p \notin dead /\ UNCHANGED <<pubLock, dead>> /\ NextFile(p, "sweep")
      /\ ~Robbing(p) /\ (pub[p].at \in pub[p].existed => backups[pub[p].stale][pub[p].at] # Cut)
  BY DEF RollBack, At, dirs
<1> DEFINE i == pub[p].at
<1>2. PICK h \in Publishers : /\ pub[p].stale = h /\ pubLock.by = h /\ pubLock.owner = h
                             /\ Alive(p) /\ ~Alive(h) /\ LockOf(h) /\ pubLock.committed = FALSE
  <2>1. pub[p].stale # Absent
    BY <1>1 DEF PubSafe, RecoveryInv
  <2>2. /\ pub[p].stale \in Publishers /\ pubLock.by = pub[p].stale /\ pubLock.owner = pub[p].stale
        /\ Alive(p) /\ ~Alive(pub[p].stale) /\ LockOf(pub[p].stale)
    BY <1>1, <2>1, AtDeadLock DEF RecoverySteps
  <2>3. ~pubLock.committed
    BY <1>1, <2>2 DEF PubSafe, RecoveryInv
  <2> QED BY <2>2, <2>3 DEF PubTypeOK
<1>3. PICK g \in Generations : Undoable(h, g)
  BY <1>2 DEF LockOf
<1>4. i \in Files /\ i \in Nat /\ Files \subseteq Nat
  BY FirstFile DEF PubTypeOK
<1>5. pub[p].existed = Present(g) /\ \A j \in Files : j < i => final[j] = g
  BY <1>1, <1>2, <1>3 DEF Undoable, Restored
<1>6. \A j \in Files : backups[h][j] \in {Absent, Cut, g} /\ (g = Absent \/ final[j] = g \/ backups[h][j] = g)
  BY <1>3 DEF Undoable, Before
<1>7. /\ \A j \in Files : final'[j] = IF j = i THEN g ELSE final[j]
      /\ \A q \in Publishers, j \in Files : backups'[q][j] \in {backups[q][j], Absent}
      /\ \A j \in Files : j # i => backups'[h][j] = backups[h][j]
  <2>1. CASE i \notin pub[p].existed
    <3>1. g = Absent /\ final' = [final EXCEPT ![i] = Absent] /\ UNCHANGED backups
      BY <1>4, <1>5, <2>1 DEF RollBack, Present
    <3> HIDE DEF i
    <3> QED BY <1>4, <3>1 DEF PubTypeOK
  <2>2. CASE i \in pub[p].existed /\ backups[h][i] # Absent
    <3>1. /\ final' = [final EXCEPT ![i] = backups[h][i]]
          /\ backups' = [backups EXCEPT ![h][i] = Absent]
      BY <1>2, <2>2 DEF RollBack
    <3>2. backups[h][i] = g
      BY <1>1, <1>2, <1>4, <1>6, <2>2
    <3> HIDE DEF i
    <3> QED BY <1>2, <1>4, <3>1, <3>2 DEF PubTypeOK
  <2>3. CASE i \in pub[p].existed /\ backups[h][i] = Absent
    <3>1. UNCHANGED <<final, backups>>
      BY <1>2, <2>3 DEF RollBack
    <3>2. g # Absent
      BY <1>5, <2>3 DEF Present
    <3>3. final[i] = g
      BY <1>4, <1>6, <2>3, <3>2
    <3> HIDE DEF i
    <3> QED BY <3>1, <3>3
  <2> QED BY <2>1, <2>2, <2>3
<1>8. /\ \A q \in Publishers : q # p => pub'[q] = pub[q]
      /\ pub'[p].existed = pub[p].existed /\ pub'[p].stale = h
      /\ IF i + 1 \in Files THEN pub'[p].at = i + 1 /\ pub'[p].step = "rollback"
         ELSE pub'[p].at = 1 /\ pub'[p].step = "sweep"
  <2>1. "sweep" \in PubSteps
    BY DEF PubSteps
  <2> QED BY <1>1, <1>2, <2>1, NextFileGoesOn
<1>9. \A j \in Files : j < i + 1 => final'[j] = g
  <2> HIDE DEF i
  <2> SUFFICES ASSUME NEW j \in Files, j < i + 1 PROVE final'[j] = g
    OBVIOUS
  <2>1. j \in Nat /\ i \in Nat
    BY <1>4
  <2>2. j = i \/ j < i
    BY <2>1
  <2> QED BY <1>5, <1>7, <2>2
<1>10. i + 1 \notin Files => \A j \in Files : j < i + 1
  <2>1. Cardinality(Files) \in Nat /\ Files = 1..Cardinality(Files)
    BY FS_CardinalityType
  <2> HIDE DEF i
  <2> QED BY <1>4, <2>1
<1> HIDE DEF i
<1>11. Undoable(h, g)'
  <2>1. Before(h, g)'
    BY <1>1, <1>2, <1>3, <1>6, <1>7 DEF Undoable, Before, Present
  <2>2. \A j \in Files : g = Absent \/ final'[j] = g \/ backups'[h][j] = g
    BY <1>6, <1>7
  <2>3. \A j \in Files : final[j] = g => final'[j] = g
    BY <1>7
  <2>4. Restored(p, g)'
    BY <1>5, <1>8, <1>9, <1>10 DEF Restored, AllOf, Present
  <2>5. \A q \in Publishers : q # p /\ Restored(q, g) => Restored(q, g)'
    BY <1>8, <2>3 DEF Restored, AllOf, Present
  <2> QED BY <1>3, <1>8, <2>1, <2>2, <2>4, <2>5 DEF Undoable
<1> QED BY <1>1, <1>2, <1>7, <1>8, <1>11, RecoverStep DEF RecoverySteps

\* The backups are removed when every file has been put back, or the publisher had committed.
LEMMA SweepKeeps == ASSUME PubTypeOK, PubTypeOK', PubSafe, NEW p \in Publishers, Sweep(p), ~fault' PROVE PubSafe'
<1> USE PublicationAssumption
<1>1. /\ pub[p].step = "sweep" /\ p \notin dead /\ UNCHANGED <<final, pubLock, dead>> /\ ~Robbing(p) /\ Go(p, "unlock")
      /\ backups' = [backups EXCEPT ![pub[p].stale] = NoFiles]
  BY DEF Sweep, Robs, At, dirs
<1>2. PICK h \in Publishers : /\ pub[p].stale = h /\ pubLock.by = h /\ pubLock.owner = h
                             /\ Alive(p) /\ ~Alive(h) /\ LockOf(h)
  <2>1. pub[p].stale # Absent
    BY <1>1 DEF PubSafe, RecoveryInv
  <2> QED BY <1>1, <2>1, AtDeadLock DEF RecoverySteps
<1>3. /\ \A q \in Publishers : q # p => pub'[q] = pub[q]
      /\ pub'[p].step = "unlock" /\ pub'[p].at = pub[p].at /\ pub'[p].stale = h
  <2>1. "unlock" \in PubSteps
    BY DEF PubSteps
  <2> QED BY <1>1, <1>2, <2>1, GoesOn
<1>4. pub'[p].at = 1
  BY <1>1, <1>3 DEF PubSafe, PublisherInv, EarlySteps, PubSteps
<1>6. \A q \in Publishers : backups'[q] = IF q = h THEN NoFiles ELSE backups[q]
  BY <1>1, <1>2 DEF PubTypeOK
<1>7. \A q \in Publishers, i \in Files : backups'[q][i] \in {backups[q][i], Absent}
  BY <1>6 DEF NoFiles
<1>8. CASE ~pubLock.committed
  <2>1. PICK g \in Generations : Undoable(h, g)
    BY <1>2, <1>8 DEF LockOf
  <2>2. AllOf(g)
    BY <1>1, <1>2, <2>1 DEF Undoable, Restored
  <2>3. Undoable(h, g)'
    <3>1. Before(h, g)'
      BY <1>1, <1>2, <1>6, <2>1 DEF Undoable, Before, Present, NoFiles
    <3>2. \A q \in Publishers : q # p /\ Restored(q, g) => Restored(q, g)'
      BY <1>1, <1>3 DEF Restored, AllOf, Present
    <3>3. AllOf(g)'
      BY <1>1, <2>2 DEF AllOf
    <3>4. Restored(p, g)'
      BY <1>3, <3>3 DEF Restored
    <3> QED BY <1>3, <2>1, <3>1, <3>2, <3>3, <3>4 DEF Undoable, AllOf
  <2> QED BY <1>1, <1>2, <1>3, <1>4, <1>7, <1>8, <2>3, RecoverStep DEF RecoverySteps
<1>9. CASE pubLock.committed
  <2>1. OneOf'
    BY <1>1, <1>2, <1>9 DEF LockOf, OneOf
  <2> QED BY <1>1, <1>2, <1>3, <1>4, <1>7, <1>9, <2>1, RecoverStep DEF RecoverySteps
<1> QED BY <1>8, <1>9

\* A lock is removed when the files are of one generation again.
LEMMA UnlockKeeps == ASSUME PubTypeOK, PubTypeOK', PubSafe, NEW p \in Publishers, Unlock(p), ~fault' PROVE PubSafe'
<1> USE PublicationAssumption
<1>1. /\ pub[p].step = "unlock" /\ p \notin dead /\ UNCHANGED <<final, backups, dead>> /\ pubLock' = NoLock
      /\ ~Robbing(p) /\ Go(p, "relock")
  BY DEF Unlock, Robs, At, disk
<1>2. Alive(p) /\ pubLock.owner = pub[p].stale /\ ~(Made /\ Alive(pubLock.by))
  BY <1>1, AtDeadLock DEF RecoverySteps
<1>3. /\ \A q \in Publishers : q # p => pub'[q] = pub[q]
      /\ pub'[p].step = "relock" /\ pub'[p].at = pub[p].at
  <2>1. "relock" \in PubSteps
    BY DEF PubSteps
  <2> QED BY <1>1, <2>1, GoesOn
<1>4. OneOf
  <2>1. CASE ~Made
    BY <2>1 DEF PubSafe, LockInv
  <2>2. CASE Made
    <3>1. PICK h \in Publishers : pubLock.by = h
      BY <2>2 DEF Made, PubTypeOK, Owners
    <3>2. LockOf(h) /\ ~Alive(h)
      BY <1>2, <2>2, <3>1 DEF PubSafe, LockInv
    <3>3. CASE pubLock.owner = h /\ ~pubLock.committed
      <4>1. PICK g \in Generations : Undoable(h, g)
        BY <3>2, <3>3 DEF LockOf
      <4>2. AllOf(g)
        BY <1>1, <1>2, <3>3, <4>1 DEF Undoable, Restored
      <4> QED BY <4>2 DEF AllOf, OneOf
    <3>4. CASE ~(pubLock.owner = h /\ ~pubLock.committed)
      BY <3>2, <3>4 DEF LockOf
    <3> QED BY <3>3, <3>4
  <2> QED BY <2>1, <2>2
<1>5. LockInv'
  BY <1>1, <1>4 DEF LockInv, OneOf, NoLock
<1>6. RecoveryInv'
  <2>1. \A x : Alive(x)' <=> Alive(x)
    BY <1>1, <1>2, <1>3 DEF Alive
  <2>2. pubLock'.owner = Absent
    BY <1>1 DEF NoLock
  <2> QED BY <1>3, <2>1, <2>2 DEF PubSafe, RecoveryInv
<1>7. PublisherInv'
  <2>1. \A q \in Publishers : q # p => (Alive(q)' <=> Alive(q)) /\ (Holds(q)' <=> Holds(q))
    BY <1>1, <1>3 DEF Alive, Holds
  <2>2. \A q \in Publishers : ~(Alive(q) /\ Holds(q))
    BY <1>2 DEF PubSafe, PublisherInv, Made
  <2>3. ~Holds(p)'
    BY <1>3 DEF Holds, HoldSteps
  <2>4. NoFiles' = NoFiles
    BY DEF NoFiles
  <2> QED BY <1>1, <1>3, <2>1, <2>2, <2>3, <2>4 DEF PubSafe, PublisherInv, EarlySteps, PubSteps
<1> QED BY <1>5, <1>6, <1>7 DEF PubSafe

\* No step publishes a part of a file: what is put back comes from a complete backup.
LEMMA NoPartKept == ASSUME PubTypeOK, PubSafe, NoPart, PubNext, ~fault' PROVE NoPart'
<1>0. Generations' = Generations
  BY DEF Generations
<1>1. ASSUME NEW p \in Publishers, RollBack(p) PROVE NoPart'
  <2>1. pub[p].at \in Files /\ pub[p].stale \in Publishers
    BY <1>1 DEF PubTypeOK, Owners, RollBack, At, PubSafe, RecoveryInv
  <2>2. pub[p].at \in pub[p].existed => backups[pub[p].stale][pub[p].at] # Cut
    BY <1>1 DEF RollBack
  <2>3. backups[pub[p].stale][pub[p].at] \in Copies
    BY <2>1 DEF PubTypeOK
  <2>4. UNCHANGED final \/ \E g \in Generations : final' = [final EXCEPT ![pub[p].at] = g]
    <3>1. CASE pub[p].at \notin pub[p].existed
      <4>1. final' = [final EXCEPT ![pub[p].at] = Absent] /\ Absent \in Generations
        BY <1>1, <3>1 DEF RollBack, Generations
      <4> QED BY <4>1
    <3>2. CASE pub[p].at \in pub[p].existed /\ backups[pub[p].stale][pub[p].at] # Absent
      <4>1. final' = [final EXCEPT ![pub[p].at] = backups[pub[p].stale][pub[p].at]]
        BY <1>1, <3>2 DEF RollBack
      <4>2. backups[pub[p].stale][pub[p].at] \in Generations
        BY <2>2, <2>3, <3>2 DEF Copies
      <4> QED BY <4>1, <4>2
    <3>3. CASE pub[p].at \in pub[p].existed /\ backups[pub[p].stale][pub[p].at] = Absent
      BY <1>1, <3>3 DEF RollBack
    <3> QED BY <3>1, <3>2, <3>3
  <2> QED BY <1>0, <2>1, <2>4 DEF NoPart, PubTypeOK
<1>2. ASSUME NEW p \in Publishers, RenameNext(p) PROVE NoPart'
  <2>1. p \in Generations /\ pub[p].at \in Files
    BY DEF Generations, PubTypeOK
  <2>2. UNCHANGED final \/ final' = [final EXCEPT ![pub[p].at] = p]
    BY <1>2 DEF RenameNext
  <2> QED BY <1>0, <2>1, <2>2 DEF NoPart, PubTypeOK
<1>3. ASSUME NEW p \in Publishers, Restore(p) PROVE NoPart'
  <2>1. pub[p].step = "restore" /\ p \notin dead
    BY <1>3 DEF Restore, At
  <2>2. LockOf(p) /\ Alive(p)
    BY <2>1, HolderAt DEF Holds, HoldSteps
  <2>3. PICK g \in Generations : Replacing(p, g)
    BY <2>1, <2>2 DEF LockOf
  <2>4. PICK lost \in SUBSET Files :
          final' = [i \in Files |-> IF i \in lost THEN final[i]
                                    ELSE IF i \in pub[p].existed THEN backups[p][i] ELSE Absent]
    BY <1>3 DEF Restore
  <2>5. Absent \in Generations
    BY DEF Generations
  <2> QED BY <1>0, <2>3, <2>4, <2>5 DEF NoPart, Replacing
<1>4. ASSUME NEW p \in Publishers, ~RollBack(p), ~RenameNext(p), ~Restore(p),
             \/ LookForRecovery(p) \/ ProbeRecovery(p) \/ RemoveRecovery(p)
             \/ MakeLock(p) \/ ReadOwner(p) \/ MakeRecovery(p) \/ OwnRecovery(p)
             \/ ReadStale(p) \/ Sweep(p) \/ Unlock(p) \/ Relock(p) \/ EndRecovery(p)
             \/ LookForFiles(p) \/ OwnLock(p) \/ WritePending(p) \/ BackUp(p)
             \/ Commit(p) \/ Clean(p) \/ KillPublisher(p)
      PROVE  NoPart'
  <2>1. UNCHANGED final
    BY <1>4 DEF LookForRecovery, ProbeRecovery, RemoveRecovery, MakeLock, ReadOwner, MakeRecovery, OwnRecovery,
       ReadStale, Sweep, Unlock, Relock, EndRecovery, LookForFiles, OwnLock, WritePending, BackUp, Commit, Clean,
       KillPublisher, disk
  <2> QED BY <1>0, <2>1 DEF NoPart
<1> QED BY <1>1, <1>2, <1>3, <1>4 DEF PubNext

\* Every step but the first fault.
LEMMA PubStep == PubInv /\ [PubNext]_pubVars => PubInv'
<1> SUFFICES ASSUME PubInv, [PubNext]_pubVars PROVE PubInv'
  OBVIOUS
<1>1. PubTypeOK /\ PubTypeOK'
  BY PubTypeStep DEF PubInv
<1>2. CASE UNCHANGED pubVars
  <2>1. UNCHANGED <<final, backups, pubLock, pub, dead, fault>>
    BY <1>2 DEF pubVars
  <2>2. (OneOf => OneOf') /\ \A g : AllOf(g) => AllOf(g)'
    BY <2>1 DEF OneOf, AllOf
  <2>3. \A x : (Alive(x)' <=> Alive(x)) /\ (Holds(x)' <=> Holds(x))
    BY <2>1 DEF Alive, Holds
  <2>4. RecoveryInv => RecoveryInv'
    BY <2>1, <2>3 DEF RecoveryInv
  <2>5. PublisherInv => PublisherInv'
    BY <2>1, <2>3 DEF PublisherInv, NoFiles
  <2>6. \A h : (Fresh(h) => Fresh(h)') /\ (Cleaning(h) => Cleaning(h)')
    BY <2>1 DEF Fresh, Copying, Cleaning, OneOf, AllOf, Before, Present, Generations
  <2>7. \A h, g : (Replacing(h, g) => Replacing(h, g)') /\ (Undoable(h, g) => Undoable(h, g)')
    BY <2>1 DEF Replacing, Undoable, Before, Restored, AllOf, Present
  <2>8. \A h \in Publishers : LockOf(h) => LockOf(h)'
    BY <2>1, <2>2, <2>3, <2>6, <2>7 DEF LockOf, Generations
  <2>9. LockInv => LockInv'
    BY <2>1, <2>2, <2>8 DEF LockInv, Made, NoLock
  <2>10. NoPart => NoPart'
    BY <2>1 DEF NoPart, Generations
  <2> QED BY <1>1, <2>1, <2>4, <2>5, <2>9, <2>10 DEF PubInv, PubSafe
<1>3. CASE PubNext
  <2>1. PubSafe /\ NoPart
    BY <1>3 DEF PubInv, PubNext
  <2> SUFFICES ASSUME ~fault' PROVE PubSafe'
    BY <1>1, <1>3, <2>1, NoPartKept DEF PubInv
  <2>2. PICK p \in Publishers :
          \/ LookForRecovery(p) \/ ProbeRecovery(p) \/ RemoveRecovery(p)
          \/ MakeLock(p) \/ ReadOwner(p) \/ MakeRecovery(p) \/ OwnRecovery(p)
          \/ ReadStale(p) \/ RollBack(p) \/ Sweep(p) \/ Unlock(p) \/ Relock(p) \/ EndRecovery(p)
          \/ LookForFiles(p) \/ OwnLock(p) \/ WritePending(p) \/ BackUp(p) \/ RenameNext(p)
          \/ Commit(p) \/ Restore(p) \/ Clean(p) \/ KillPublisher(p)
    BY <1>3 DEF PubNext
  <2> QED BY <1>1, <2>1, <2>2, LookingKeeps, MakeLockKeeps, ReadStaleKeeps, RollBackKeeps, SweepKeeps, UnlockKeeps,
     RelockKeeps, EndRecoveryKeeps, LookForFilesKeeps, OwnLockKeeps, WritePendingKeeps, BackUpKeeps, RenameNextKeeps,
     CommitKeeps, RestoreKeeps, CleanKeeps, KillKeeps
<1> QED BY <1>2, <1>3

\* PubInv is an invariant of the publishers.
THEOREM PubInvariance == PubSpec => []PubInv
BY PubInitInv, PubStep, PTL DEF PubSpec

\* For every number of publishers, of files and of faults: while nobody holds the lock,
\* and outside the three named faults, the published files are complete and all of one
\* generation, whatever was killed or failed on the way and however many recovered from it
\* (publishEvidence, acquirePublicationLock).
THEOREM FilesAreOfOneGeneration == PubSpec => []OneGeneration
<1>1. PubInv => OneGeneration
  <2>1. Cut \notin Generations
    BY PublicationAssumption DEF Generations
  <2> QED BY <2>1 DEF PubInv, PubSafe, LockInv, OneOf, NoPart, OneGeneration
<1> QED BY <1>1, PubInvariance, PTL
=============================================================================

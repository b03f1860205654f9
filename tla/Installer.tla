------------------------------- MODULE Installer -------------------------------
(***************************************************************************)
(* riqor install and riqor uninstall (packages/riqor/src/commands), with   *)
(* classifyManagedPath, the agent profile (codex-agents.ts), the package   *)
(* part of doctor, and what their scripts do to the plugin registration.   *)
(*                                                                         *)
(* One operation at a time; it may be killed in any step, and a step that  *)
(* replaces something may leave it removed.  Between operations the user   *)
(* installs or removes Codex and puts files of his own at the paths.  A    *)
(* payload is the set of its parts that are there.  Staging directories    *)
(* and texts are left out.  Bounds: MaxOps operations, MaxUser changes.    *)
(***************************************************************************)
EXTENDS Naturals, Sequences, FiniteSets

CONSTANTS
  Versions,  \* versions of the package
  Nothing,   \* absent
  MaxOps,    \* bound: operations
  MaxUser    \* bound: changes of the user

ASSUME InstallerAssumption ==
  /\ MaxOps \in Nat /\ MaxUser \in Nat
  /\ "foreign" \notin Versions /\ Nothing \notin Versions \cup {"foreign"}

VARIABLES
  paths,     \* of each managed path: classifyManagedPath
  payload,   \* of each version: the parts of its directory
  current,   \* riqorCurrentLink: a version, "foreign" or nothing
  shell,     \* is the shell integration installed? (ShellBlock has its files)
  plugin,    \* the version whose root the registered marketplace has
  record,    \* install-manifest.json: its surfaces, or nothing
  codex,     \* is the Codex CLI there?
  op,        \* the operation under way
  report,    \* what the last operation returned
  broken,    \* history: versions whose replacement has begun and not ended
  ops, user  \* operations and changes of the user so far

instVars == <<paths, payload, current, shell, plugin, record, codex, op, report, broken, ops, user>>

Primary == "riqor"
Aliases == {"codex-harness", "cxh"}
Bins == {Primary} \cup Aliases
Profile == {"profile", "agents"} \* riqor.config.toml and riqor-agents
Parts == {"package.json", "provenance", "runtime"}
NoOp == [kind |-> "none", step |-> "none", v |-> Nothing, surfaces |-> {}, ok |-> TRUE, skipped |-> FALSE]
NoReport == [kind |-> "none", ok |-> FALSE, v |-> Nothing, surfaces |-> {}, skipped |-> FALSE]

InstInit ==
  /\ paths \in {f \in [Bins \cup Profile -> {"absent", "legacy-managed", "foreign"}] :
                  f["profile"] # "legacy-managed" /\ f["agents"] # "legacy-managed" /\ f[Primary] = "absent"}
  /\ payload = [v \in Versions |-> {}]
  /\ current = Nothing /\ shell = FALSE /\ plugin = Nothing /\ record = Nothing
  /\ codex = TRUE
  /\ op = NoOp /\ report = NoReport
  /\ broken = {} /\ ops = 0 /\ user = 0

In(kind, s) == op.kind = kind /\ op.step = s
Then(s) == op' = [op EXCEPT !.step = s]
With(s, surface) == op' = [op EXCEPT !.step = s, !.surfaces = @ \cup {surface}]
Bad(s) == op' = [op EXCEPT !.step = s, !.ok = FALSE]
Skips(s) == op' = [op EXCEPT !.step = s, !.skipped = TRUE]
History == <<broken, ops, user>>
Rest == <<codex, report, History>>

\* canReplacePrimary and canReplaceAlias; uninstall owns the same kinds.
CanReplace(p) ==
  paths[p] \in {"absent", "riqor-managed"} \cup (IF p = Primary THEN {} ELSE {"riqor-alias", "legacy-managed"})

\* The package part of doctor: version and provenance of the payload that is
\* current; every file that is listed is there, and no other.
PackageOk == current \in Versions /\ payload[current] = Parts

\* The scripts of the runtime that current leads to.
Scripts == current \in Versions /\ "runtime" \in payload[current]

Ends(ok) ==
  /\ op' = NoOp
  /\ report' = [kind |-> op.kind, ok |-> ok, v |-> op.v, surfaces |-> op.surfaces, skipped |-> op.skipped]

-----------------------------------------------------------------------------
\* install

BeginInstall(v) ==
  /\ op = NoOp /\ ops < MaxOps
  /\ ops' = ops + 1
  /\ IF \A p \in Bins : CanReplace(p)
       THEN op' = [NoOp EXCEPT !.kind = "install", !.step = "payload", !.v = v] /\ report' = NoReport
       ELSE op' = NoOp /\ report' = [NoReport EXCEPT !.kind = "install"]
  /\ UNCHANGED <<paths, payload, current, shell, plugin, record, codex, broken, user>>

\* Mutant: the link is set before the payload has its name.
MutRemovePayload ==
  /\ In("install", "payload") /\ Then("rename")
  /\ payload' = [payload EXCEPT ![op.v] = {}]
  /\ current' = op.v
  /\ UNCHANGED <<paths, shell, plugin, record, Rest>>

\* The payload is copied beside, the old one removed and the copy renamed.
RemovePayload ==
  /\ In("install", "payload") /\ Then("rename")
  /\ payload' = [payload EXCEPT ![op.v] = {}]
  /\ broken' = broken \cup {op.v}
  /\ UNCHANGED <<paths, current, shell, plugin, record, codex, report, ops, user>>

RenamePayload ==
  /\ In("install", "rename") /\ Then("link")
  /\ payload' = [payload EXCEPT ![op.v] = Parts]
  /\ broken' = broken \ {op.v}
  /\ UNCHANGED <<paths, current, shell, plugin, record, codex, report, ops, user>>

\* A link is renamed over what is there.
LinkCurrent ==
  /\ In("install", "link") /\ Then("bins")
  /\ current' = op.v
  /\ UNCHANGED <<paths, payload, shell, plugin, record, Rest>>

\* The shim and the aliases: rm and write, one after the other.
WriteBins ==
  /\ In("install", "bins")
  /\ LET kind(p) == IF p = Primary THEN "riqor-managed" ELSE "riqor-alias"
         todo == {p \in Bins : paths[p] # kind(p)}
     IN  IF todo = {} THEN With("shell", "bins") /\ UNCHANGED paths
         ELSE LET p == IF Primary \in todo THEN Primary ELSE CHOOSE a \in todo : TRUE
              IN  paths' = [paths EXCEPT ![p] = kind(p)] /\ UNCHANGED op
  /\ UNCHANGED <<payload, current, shell, plugin, record, Rest>>

\* Mutant: a shell installer that fails is not a failure of the install.
MutInstallShell ==
  /\ In("install", "shell")
  /\ shell' \in {shell, TRUE} /\ Then("agents")
  /\ UNCHANGED <<paths, payload, current, plugin, record, Rest>>

InstallShell ==
  /\ In("install", "shell")
  /\ \/ shell' = TRUE /\ With("agents", "shell")
     \/ shell' \in {shell, TRUE} /\ Bad("agents")
  /\ UNCHANGED <<paths, payload, current, plugin, record, Rest>>

\* installRiqorAgentProfile: both or none, unless one of them is the user's.
InstallAgents ==
  /\ In("install", "agents")
  /\ IF \E p \in Profile : paths[p] = "foreign" THEN Bad("plugin") /\ UNCHANGED paths
     ELSE IF paths["agents"] = "riqor-managed" /\ paths["profile"] = "riqor-managed"
          THEN With("plugin", "agents") /\ UNCHANGED paths
          ELSE /\ paths' = IF paths["agents"] = "absent" THEN [paths EXCEPT !["agents"] = "riqor-managed"]
                           ELSE [paths EXCEPT !["profile"] = "riqor-managed"]
               /\ UNCHANGED op
  /\ UNCHANGED <<payload, current, shell, plugin, record, Rest>>

\* check-marketplace-source.py refuses a marketplace that is registered with
\* another root, and every version has a root of its own.
SourceMatches == plugin \in {Nothing, op.v}

\* install-plugin.sh; it may fail with the marketplace added.
RunPluginScript(ok) ==
  /\ ok => SourceMatches
  /\ plugin' \in IF ok THEN {op.v} ELSE IF SourceMatches THEN {plugin, op.v} ELSE {plugin}

\* Without Codex the plugin is skipped.
InstallPlugin ==
  /\ In("install", "plugin")
  /\ IF ~codex THEN Then("manifest") /\ UNCHANGED plugin
     ELSE \/ RunPluginScript(TRUE) /\ With("manifest", "plugin")
          \/ RunPluginScript(FALSE) /\ Bad("manifest")
  /\ UNCHANGED <<paths, payload, current, shell, record, Rest>>

WriteManifest ==
  /\ In("install", "manifest") /\ Then("doctor")
  /\ record' = op.surfaces
  /\ UNCHANGED <<paths, payload, current, shell, plugin, Rest>>

InstallEnds ==
  /\ In("install", "doctor")
  /\ Ends(op.ok /\ PackageOk)
  /\ UNCHANGED <<paths, payload, current, shell, plugin, record, codex, History>>

-----------------------------------------------------------------------------
\* uninstall

BeginUninstall ==
  /\ op = NoOp /\ ops < MaxOps
  /\ ops' = ops + 1
  /\ op' = [NoOp EXCEPT !.kind = "uninstall", !.step = "agents", !.surfaces = IF record = Nothing THEN {} ELSE record]
  /\ report' = NoReport
  /\ UNCHANGED <<paths, payload, current, shell, plugin, record, codex, broken, user>>

\* uninstallRiqorAgentProfile, if the agents are on record.
RemoveAgents ==
  /\ In("uninstall", "agents")
  /\ IF "agents" \in op.surfaces
       THEN /\ paths' = [p \in DOMAIN paths |-> IF p \in Profile /\ paths[p] # "foreign" THEN "absent" ELSE paths[p]]
            /\ IF \E p \in Profile : paths[p] = "foreign" THEN Bad("plugin") ELSE Then("plugin")
       ELSE Then("plugin") /\ UNCHANGED paths
  /\ UNCHANGED <<payload, current, shell, plugin, record, Rest>>

\* Mutant: a plugin that cannot be removed now is not a failure.
MutRemovePlugin ==
  /\ In("uninstall", "plugin") /\ Then("shell")
  /\ plugin' = IF "plugin" \in op.surfaces /\ codex /\ Scripts THEN Nothing ELSE plugin
  /\ UNCHANGED <<paths, payload, current, shell, record, Rest>>

RemovePlugin ==
  /\ In("uninstall", "plugin")
  /\ \/ "plugin" \notin op.surfaces /\ Then("shell") /\ UNCHANGED plugin
     \/ "plugin" \in op.surfaces /\ codex /\ Scripts /\ plugin' = Nothing /\ Then("shell")
     \/ "plugin" \in op.surfaces /\ Bad("shell") /\ UNCHANGED plugin
  /\ UNCHANGED <<paths, payload, current, shell, record, Rest>>

\* Without the script of the current runtime the integration is "not installed",
\* whatever the manifest says.
RemoveShell ==
  /\ In("uninstall", "shell")
  /\ IF Scripts
       THEN \/ shell' = FALSE /\ Then("bins")
            \/ shell' \in {shell, FALSE} /\ Bad("bins")
       ELSE Skips("bins") /\ UNCHANGED shell
  /\ UNCHANGED <<paths, payload, current, plugin, record, Rest>>

RemoveBins ==
  /\ In("uninstall", "bins")
  /\ LET mine == {p \in Bins : CanReplace(p)}
         left == {p \in mine : paths[p] # "absent"}
     IN  IF left = {} THEN (IF mine = Bins THEN Then("current") ELSE Bad("current")) /\ UNCHANGED paths
         ELSE \E p \in left : paths' = [paths EXCEPT ![p] = "absent"] /\ UNCHANGED op
  /\ UNCHANGED <<payload, current, shell, plugin, record, Rest>>

\* A link to the outside is preserved.
RemoveCurrent ==
  /\ In("uninstall", "current")
  /\ IF current = "foreign" THEN Bad("payloads") /\ UNCHANGED current
     ELSE Then("payloads") /\ current' = Nothing
  /\ UNCHANGED <<paths, payload, shell, plugin, record, Rest>>

\* Directories whose package.json names riqor and their version.
RemovePayloads ==
  /\ In("uninstall", "payloads") /\ Then("manifest")
  /\ payload' = [v \in Versions |-> IF "package.json" \in payload[v] THEN {} ELSE payload[v]]
  /\ UNCHANGED <<paths, current, shell, plugin, record, Rest>>

UninstallEnds ==
  /\ In("uninstall", "manifest")
  /\ record' = Nothing
  /\ Ends(op.ok)
  /\ UNCHANGED <<paths, payload, current, shell, plugin, codex, History>>

-----------------------------------------------------------------------------
\* What is left of a path whose writing or removal is cut: a shim or a directory of
\* agents that has no marker is taken for the user's.
Remains(p) == IF p \in {Primary, "agents"} THEN {"absent", "foreign"} ELSE {"absent"}

\* The operation is killed: what it was replacing, or removing, may be gone or
\* there in part.  A part of a manifest is read as one without surfaces.
Kill ==
  /\ op # NoOp
  /\ op' = NoOp /\ report' = NoReport
  /\ \/ UNCHANGED <<paths, payload, record, broken>>
     \/ /\ In("install", "payload")
        /\ \E rest \in SUBSET payload[op.v] : payload' = [payload EXCEPT ![op.v] = rest]
        /\ broken' = broken \cup {op.v}
        /\ UNCHANGED <<paths, record>>
     \/ /\ In("uninstall", "payloads")
        /\ \E v \in Versions : \E rest \in SUBSET payload[v] : payload' = [payload EXCEPT ![v] = rest]
        /\ UNCHANGED <<paths, record, broken>>
     \/ /\ In("install", "bins") \/ In("install", "agents") \/ (In("uninstall", "agents") /\ "agents" \in op.surfaces)
        /\ \E p \in IF op.step = "bins" THEN Bins ELSE Profile :
             paths[p] # "foreign" /\ \E kind \in Remains(p) : paths' = [paths EXCEPT ![p] = kind]
        /\ UNCHANGED <<payload, record, broken>>
     \/ In("install", "manifest") /\ record' = {} /\ UNCHANGED <<paths, payload, broken>>
  /\ UNCHANGED <<current, shell, plugin, codex, ops, user>>

\* Between operations.
UserActs ==
  /\ op = NoOp /\ user < MaxUser
  /\ user' = user + 1 /\ report' = NoReport
  /\ \/ codex' = ~codex /\ UNCHANGED <<paths, current>>
     \/ \E p \in Bins \cup Profile : \E kind \in {"absent", "foreign"} \ {paths[p]} :
          paths' = [paths EXCEPT ![p] = kind] /\ UNCHANGED <<codex, current>>
     \/ current' = "foreign" /\ UNCHANGED <<codex, paths>>
  /\ UNCHANGED <<payload, shell, plugin, record, op, broken, ops>>

InstNext ==
  \/ \E v \in Versions : BeginInstall(v)
  \/ RemovePayload \/ RenamePayload \/ LinkCurrent \/ WriteBins \/ InstallShell \/ InstallAgents
  \/ InstallPlugin \/ WriteManifest \/ InstallEnds
  \/ BeginUninstall \/ RemoveAgents \/ RemovePlugin \/ RemoveShell \/ RemoveBins \/ RemoveCurrent
  \/ RemovePayloads \/ UninstallEnds
  \/ Kill \/ UserActs

InstSpec == InstInit /\ [][InstNext]_instVars
-----------------------------------------------------------------------------
\* An install that reports success has repaired whatever was left by the ones
\* before: the command, its aliases and the profile are Riqor's, current is a
\* whole payload of this version, the plugin is registered with its root when
\* Codex is there, and the manifest names what was installed.
InstallOkWorks ==
  report.kind = "install" /\ report.ok =>
    /\ current = report.v /\ payload[current] = Parts /\ shell
    /\ \A p \in Bins \cup Profile : paths[p] \in {"riqor-managed", "riqor-alias"}
    /\ {"bins", "shell", "agents"} \subseteq record
    /\ codex => plugin = report.v /\ "plugin" \in record

\* An upgrade never takes the working version away: as long as the link is there
\* it leads to a whole payload, unless this very version is being replaced, or
\* was when the process was killed.
CurrentIsWhole == current \in Versions => payload[current] = Parts \/ current \in broken

\* An uninstall that reports success has removed the command, the aliases, the
\* link, the payloads it can tell are Riqor's and the manifest, and all that the
\* manifest recorded, whatever was killed or failed before; the shell integration
\* too, recorded or not, but for the named lapse: it was reported as "not installed"
\* because current led to no script (as after a repeated install that was killed
\* between rm and rename, or an uninstall that failed at the shell).
RecordedIsRemoved ==
  report.kind = "uninstall" /\ report.ok =>
    /\ \A p \in Bins : paths[p] = "absent"
    /\ current = Nothing /\ record = Nothing /\ \A v \in Versions : "package.json" \notin payload[v]
    /\ "agents" \in report.surfaces => \A p \in Profile : paths[p] = "absent"
    /\ "plugin" \in report.surfaces => plugin = Nothing
    /\ shell => report.skipped
=============================================================================

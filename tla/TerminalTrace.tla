---------------------------- MODULE TerminalTrace ----------------------------
(***************************************************************************)
(* Terminals that run commands under the shell hooks, and the CLI that     *)
(* completes the run: terminal-runtime.ts (the session record of each      *)
(* terminal), terminal-trace.ts (what a terminal records of a command in   *)
(* the active run) and terminalCommand of harness-cli.ts, which runs the   *)
(* one after the other, on top of the run store of RunTrace.               *)
(*                                                                         *)
(* zsh runs the preexec and precmd hooks synchronously, so each terminal   *)
(* is sequential; terminals and the CLI interleave with each other.  A     *)
(* session is older than the run: "riqor run start" comes at any time, in  *)
(* the middle of a command too.  What the classifier calls "agent" is      *)
(* recorded like "other"; such commands, and editors and processes in the  *)
(* background, change the worktree without any hook (Edit).                *)
(***************************************************************************)
EXTENDS RunTrace, FiniteSets

CONSTANTS
  Terminals,    \* the processes of RunTrace that are terminals
  Cli,          \* the process that runs "riqor run complete"
  Fingerprint,  \* the repository identity that git reports for each content
  MaxContent,   \* bound: the versions of the worktree after the first one
  MayFail       \* may helper processes fail (the hooks append "|| true")?

\* Commands are numbered in the order they start; the bound is their number.
ASSUME CommandsAssumption ==
  Commands \subseteq Nat \ {0} /\ \A c \in Commands : 1..c \subseteq Commands
ASSUME NoCmdAssumption == NoCmd \notin Commands
ASSUME TerminalsAssumption ==
  Procs = Terminals \cup {Cli} /\ Cli \notin Terminals /\ IsFiniteSet(Terminals)
ASSUME MaxContentAssumption == MaxContent \in Nat
ASSUME FingerprintAssumption == Fingerprint \in [0..MaxContent -> Repos]
ASSUME MayFailAssumption == MayFail \in BOOLEAN

Command == [id : Commands, kind : Kinds]
NoCommand == [id |-> NoCmd, kind |-> "other"]

\* The session records that parseStoredState accepts: a mutation that is
\* pending has closed the gate.
SessionRecord == {s \in [gate : BOOLEAN, pending : Command \cup {NoCommand}] :
                    s.pending.kind = "mutation" => s.gate}

Stages == {"prompt", "preexec", "locate", "intent", "running", "ran", "lookup",
           "inspect", "record"}

VARIABLES
  opened,    \* has "riqor run start" made the run active?
  started,   \* commands started so far
  content,   \* version of the worktree: how often it was changed
  hidden,    \* ghost: the versions that no recognised mutation made
  stage,     \* where each terminal is with its command
  cmd,       \* the command a terminal runs
  exit,      \* did it exit with zero?
  session,   \* the session record: evidencePending and pending
  traced,    \* the transition that postexec hands on to the active run
  matched,   \* did the look-up find the intent of that transition?
  provenance,\* the repository identity inspected for it
  seen,      \* ghost: the content a verification command read
  passed,    \* ghost: the commands that exited with zero
  cliRepo    \* the identity the CLI inspected, NoRepo before

world == <<opened, started, content, hidden, seen, passed>>
hook == <<session, traced, matched, provenance>>
termVars == <<world, stage, cmd, exit, hook, cliRepo>>
allVars == <<vars, termVars>>

-----------------------------------------------------------------------------
TermInit ==
  /\ Init
  /\ opened = FALSE
  /\ started = 0
  /\ content = 0
  /\ hidden = {}
  /\ stage = [t \in Terminals |-> "prompt"]
  /\ cmd = [t \in Terminals |-> NoCommand]
  /\ exit = [t \in Terminals |-> FALSE]
  /\ session \in [Terminals -> [gate : BOOLEAN, pending : {NoCommand}]]
  /\ traced = [t \in Terminals |-> NoCommand]
  /\ matched = [t \in Terminals |-> FALSE]
  /\ provenance = [t \in Terminals |-> NoRepo]
  /\ seen = [c \in Commands |-> 0]
  /\ passed = {}
  /\ cliRepo = NoRepo

Goto(t, s) == stage' = [stage EXCEPT ![t] = s]

\* The process of the hook ends, and with it what it held in memory.
HookEnds(t) ==
  /\ Goto(t, "prompt")
  /\ traced' = [traced EXCEPT ![t] = NoCommand]
  /\ matched' = [matched EXCEPT ![t] = FALSE]
  /\ provenance' = [provenance EXCEPT ![t] = NoRepo]

\* "riqor run start": the run that RunTrace starts with becomes active.
StartRun ==
  /\ ~opened
  /\ opened' = TRUE
  /\ UNCHANGED <<vars, started, content, hidden, seen, passed, stage, cmd, exit,
                 hook, cliRepo>>

\* An agent, an editor or a process in the background changes the worktree.
Edit ==
  /\ content < MaxContent
  /\ content' = content + 1
  /\ hidden' = hidden \cup {content + 1}
  /\ UNCHANGED <<vars, opened, started, seen, passed, stage, cmd, exit, hook, cliRepo>>

\* The user types a command; its helper processes of the last one are gone.
StartCommand(t, kind) ==
  /\ stage[t] = "prompt"
  /\ pc[t] = "idle"
  /\ started + 1 \in Commands
  /\ started' = started + 1
  /\ cmd' = [cmd EXCEPT ![t] = [id |-> started + 1, kind |-> kind]]
  /\ exit' = [exit EXCEPT ![t] = FALSE]
  /\ Goto(t, "preexec")
  /\ UNCHANGED <<vars, opened, content, hidden, seen, passed, hook, cliRepo>>

\* Mutant: the intent is not recorded, a mutation is known at postexec only.
MutPreexec(t) ==
  /\ stage[t] = "preexec"
  /\ session' = [session EXCEPT ![t].gate = @ \/ cmd[t].kind = "mutation",
                                ![t].pending = cmd[t]]
  /\ Goto(t, "running")
  /\ UNCHANGED <<vars, world, cmd, exit, traced, matched, provenance, cliRepo>>

\* recordTerminalPreexec, under the session lock: the command is pending and
\* a mutation closes the session gate before it runs.
Preexec(t) ==
  /\ stage[t] = "preexec"
  /\ session' = [session EXCEPT ![t].gate = @ \/ cmd[t].kind = "mutation",
                                ![t].pending = cmd[t]]
  /\ Goto(t, IF cmd[t].kind = "mutation" THEN "locate" ELSE "running")
  /\ UNCHANGED <<vars, world, cmd, exit, traced, matched, provenance, cliRepo>>

\* readActiveRun found a run that is open.
ReadsOpenRun(t) ==
  /\ opened
  /\ ReadRun(t)
  /\ Reconciled(runFile, trace).status \notin Closed

\* There is no active run, or readActiveRun finds it closed.
ReadsNoRun(t) ==
  \/ ~opened /\ UNCHANGED vars
  \/ /\ opened
     /\ ReadRun(t)
     /\ Reconciled(runFile, trace).status \in Closed

\* recordActiveRunTerminalMutationIntent looks for the active run ...
Locate(t) ==
  /\ stage[t] = "locate"
  /\ \/ ReadsOpenRun(t) /\ Goto(t, "intent")
     \/ ReadsNoRun(t) /\ Goto(t, "running")
  /\ UNCHANGED <<world, cmd, exit, hook, cliRepo>>

\* ... and appends the intent in a section of its own.
RecordIntent(t) ==
  /\ stage[t] = "intent"
  /\ Enter(t, IntentJob(cmd[t].id))
  /\ Goto(t, "running")
  /\ UNCHANGED <<world, cmd, exit, hook, cliRepo>>

\* The command itself.  A mutation changes the worktree, even when it exits
\* with nonzero, or leaves it alone; a verification reads it.
Execute(t, ok, changes) ==
  /\ stage[t] = "running"
  /\ pc[t] = "idle"
  /\ changes => cmd[t].kind = "mutation" /\ content < MaxContent
  /\ content' = IF changes THEN content + 1 ELSE content
  /\ seen' = IF cmd[t].kind = "verification"
               THEN [seen EXCEPT ![cmd[t].id] = content] ELSE seen
  /\ exit' = [exit EXCEPT ![t] = ok]
  /\ passed' = IF ok THEN passed \cup {cmd[t].id} ELSE passed
  /\ Goto(t, "ran")
  /\ UNCHANGED <<vars, opened, started, hidden, cmd, hook, cliRepo>>

\* Mutant: only the exit status counts, so that any command that exits with
\* zero reopens the gate.
MutGateAfter(s, ok) == IF s.pending.kind = "mutation" THEN TRUE ELSE s.gate /\ ~ok

\* Mutant: a recognised verification opens the gate whatever its exit status.
MutGateExit(s, ok) ==
  IF s.pending.kind = "other" THEN s.gate ELSE s.pending.kind = "mutation"

\* The gate after the command the session record calls pending has exited.
GateAfter(s, ok) ==
  CASE s.pending.kind = "mutation"           -> TRUE
    [] s.pending.kind = "verification" /\ ok -> FALSE
    [] OTHER                                 -> s.gate

\* recordTerminalPostexec: it trusts the pending record, whatever ran.
Postexec(t) ==
  /\ stage[t] = "ran"
  /\ IF session[t].pending = NoCommand
       THEN Goto(t, "prompt") /\ UNCHANGED <<session, traced>>
       ELSE /\ session' = [session EXCEPT ![t] = [gate    |-> GateAfter(@, exit[t]),
                                                  pending |-> NoCommand]]
            /\ traced' = [traced EXCEPT ![t] = session[t].pending]
            /\ Goto(t, "lookup")
  /\ UNCHANGED <<vars, world, cmd, exit, matched, provenance, cliRepo>>

\* Mutant: the intent of a mutation is taken for granted at postexec.
MutLookUp(t) ==
  /\ stage[t] = "lookup"
  /\ \/ /\ ReadsOpenRun(t)
        /\ matched' = [matched EXCEPT ![t] = traced[t].kind = "mutation"]
        /\ Goto(t, "inspect")
        /\ UNCHANGED <<traced, provenance>>
     \/ ReadsNoRun(t) /\ HookEnds(t)
  /\ UNCHANGED <<world, cmd, exit, session, cliRepo>>

\* recordActiveRunTerminalTransition looks for the active run and for the
\* intent of a mutation in its trace (readRunEvents).
LookUp(t) ==
  /\ stage[t] = "lookup"
  /\ \/ /\ ReadsOpenRun(t)
        /\ matched' = [matched EXCEPT ![t] = /\ traced[t].kind = "mutation"
                                             /\ HasIntent(trace, traced[t].id)]
        /\ Goto(t, "inspect")
        /\ UNCHANGED <<traced, provenance>>
     \/ ReadsNoRun(t) /\ HookEnds(t)
  /\ UNCHANGED <<world, cmd, exit, session, cliRepo>>

\* Mutant: only mutations have the repository inspected.
MutInspected(t) == traced[t].kind = "mutation"

\* needsRepositoryMetadata.
Inspected(t) ==
  \/ traced[t].kind = "mutation"
  \/ traced[t].kind = "verification" /\ exit[t]

\* inspectRepositoryIdentity; git may time out.
Inspect(t) ==
  /\ stage[t] = "inspect"
  /\ \E r \in (IF Inspected(t) THEN {Fingerprint[content]} ELSE {NoRepo})
              \cup (IF MayFail THEN {NoRepo} ELSE {}) :
       provenance' = [provenance EXCEPT ![t] = r]
  /\ Goto(t, "record")
  /\ UNCHANGED <<vars, world, cmd, exit, session, traced, matched, cliRepo>>

\* Its last section appends the batch that follows from what it has found.
RecordTransition(t) ==
  /\ stage[t] = "record"
  /\ Enter(t, TransitionJob(traced[t].kind, traced[t].id, exit[t], matched[t],
                            provenance[t]))
  /\ HookEnds(t)
  /\ UNCHANGED <<world, cmd, exit, session, cliRepo>>

\* A helper fails and the hook goes on: the run store is busy or unreadable,
\* or the helper process is killed.  The shell itself survives.
HelperFails(t) ==
  /\ MayFail \/ (~Readable /\ stage[t] \in {"locate", "intent", "lookup", "record"})
  /\ \/ /\ stage[t] \in {"preexec", "locate", "intent"}
        /\ Goto(t, "running")
        /\ UNCHANGED <<traced, matched, provenance>>
     \/ stage[t] \in {"ran", "lookup", "inspect", "record"} /\ HookEnds(t)
  /\ UNCHANGED <<vars, world, cmd, exit, session, cliRepo>>

\* The session record is damaged: whoever loads it takes the worst case.
Damage(t) ==
  /\ MayFail
  /\ session' = [session EXCEPT ![t] = [gate |-> TRUE, pending |-> NoCommand]]
  /\ UNCHANGED <<vars, world, stage, cmd, exit, traced, matched, provenance, cliRepo>>

\* "riqor run complete" inspects the repository, then opens the section.
CliInspect ==
  /\ opened
  /\ pc[Cli] = "idle"
  /\ cliRepo = NoRepo
  /\ cliRepo' = Fingerprint[content]
  /\ UNCHANGED <<vars, world, stage, cmd, exit, hook>>

CliComplete ==
  /\ cliRepo # NoRepo
  /\ Enter(Cli, CompleteJob(cliRepo))
  /\ cliRepo' = NoRepo
  /\ UNCHANGED <<world, stage, cmd, exit, hook>>

StoreStep(p) ==
  /\ \/ Refuse(p)
     \/ AppendLine(p)
     \/ WriteRun(p)
     \/ WriteCompletedAt(p)
     \/ MayFail /\ (Crash(p) \/ \E k \in 0..3 : TornAppend(p, k))
  /\ UNCHANGED termVars

Terminal(t) ==
  \/ \E kind \in Kinds : StartCommand(t, kind)
  \/ Preexec(t)
  \/ Locate(t)
  \/ RecordIntent(t)
  \/ \E ok, changes \in BOOLEAN : Execute(t, ok, changes)
  \/ Postexec(t)
  \/ LookUp(t)
  \/ Inspect(t)
  \/ RecordTransition(t)
  \/ HelperFails(t)
  \/ Damage(t)

TermNext ==
  \/ StartRun
  \/ Edit
  \/ \E t \in Terminals : Terminal(t)
  \/ CliInspect
  \/ CliComplete
  \/ \E p \in Procs : StoreStep(p)

TermSpec == TermInit /\ [][TermNext]_allVars

-----------------------------------------------------------------------------
\* Type invariant.
TermTypeOK ==
  /\ TypeOK
  /\ opened \in BOOLEAN
  /\ started \in {0} \cup Commands
  /\ content \in 0..MaxContent
  /\ hidden \subseteq 1..content
  /\ stage \in [Terminals -> Stages]
  /\ cmd \in [Terminals -> Command \cup {NoCommand}]
  /\ exit \in [Terminals -> BOOLEAN]
  /\ session \in [Terminals -> SessionRecord]
  /\ traced \in [Terminals -> Command \cup {NoCommand}]
  /\ matched \in [Terminals -> BOOLEAN]
  /\ provenance \in [Terminals -> Repos \cup {NoRepo}]
  /\ seen \in [Commands -> 0..MaxContent]
  /\ passed \subseteq Commands
  /\ cliRepo \in Repos \cup {NoRepo}

Settled == lock = NoProc /\ tail = "clean"

AtPrompt(t) == stage[t] = "prompt" /\ pc[t] = "idle"

MutationHappened ==
  \E i \in DOMAIN trace : IsMutationBoundary(trace[i].input)

LastPassing(i) ==
  /\ i \in DOMAIN trace
  /\ IsPassing(trace[i].input)
  /\ \A j \in DOMAIN trace : IsPassing(trace[j].input) => j <= i

\* The step that completes a run in which something was mutated finds the
\* worktree as the last passing verification read it, except for changes
\* that no recognised mutation made: agents and editors, which no hook
\* sees, and which git does not tell either when the worktree was dirty
\* before (README: "A recognized check passes after the latest change").
\* The verification, its callback, the inspection and the completion are
\* four separate moments.  True with one terminal; with two, a check may
\* read the worktree before a mutation and report after it.
CompletionSawContent ==
  [][(~Ends(trace) /\ Ends(trace)' /\ MutationHappened) =>
       \E i \in DOMAIN trace :
          LastPassing(i) /\ (seen[trace[i].input.cmd] + 1)..content \subseteq hidden]_allVars

\* When every terminal is back at its prompt and the last command recorded is
\* a verification that exited with zero, the trace satisfies completion
\* (CLI reference: "A successful recognized verification clears pending
\* evidence").
PassingCheckClears ==
  LET completed == {i \in DOMAIN trace : trace[i].input.type = "command_completed"}
  IN  (/\ Settled
       /\ \A t \in Terminals : AtPrompt(t)
       /\ \E i \in completed : /\ \A j \in completed : j <= i
                               /\ trace[i].input.kind = "verification"
                               /\ trace[i].input.ok)
      => Ends(trace) \/ \E r \in Repos : FreshEvidence(trace, r)

\* Something that decides the session's gate was recorded in the run: a
\* mutation, or a verification that exited with zero.
RunWasTold ==
  \E i \in DOMAIN trace :
    \/ trace[i].input.type = "verification_required"
    \/ /\ trace[i].input.type = "command_completed"
       /\ \/ trace[i].input.kind = "mutation"
          \/ trace[i].input.kind = "verification" /\ trace[i].input.ok

\* Two surfaces, one answer, although they are written one after the other,
\* under two locks: while the terminal is at its prompt and the run is open,
\* a run that is pending has a session that is pending, and from the first
\* mutation or passing check that the run was told of the converse holds
\* too.  Before that the session may be pending from what came before
\* "riqor run start".
SurfacesAgree ==
  \A t \in Terminals :
    LET status == Reconciled(runFile, trace).status
    IN  (opened /\ Settled /\ AtPrompt(t) /\ status \notin Closed) =>
           /\ status = "verification-pending" => session[t].gate
           /\ session[t].gate /\ RunWasTold => status = "verification-pending"

\* Helpers may fail at every point, but once a mutation has recorded its
\* intent neither surface shows it as verified unless some later command
\* exited with zero (autonomous baseline: "Missing postexec, nonzero exit,
\* restart, or shell crash cannot restore prior evidence").  Stated for one
\* terminal, whose commands run in the order of their numbers.
EvidenceNeedsZeroExit ==
  \A t \in Terminals, c \in Commands :
    (Settled /\ HasIntent(trace, c) /\ (~session[t].gate \/ ~Uncovered(trace)))
      => \E d \in passed : d > c

\* The last event of t that decides the status is a mutation's.
LastIsMutation(t) ==
  \E i \in DOMAIN t : LastDecision(t, i) /\ IsMutationBoundary(t[i].input)

\* Whatever helper or section dies, no reader sees an active run whose trace
\* ends with a mutation, although the transition of a mutation leaves the
\* status alone when an earlier look at the trace found its intent, and the
\* inspection of the repository lies between that look and the append.
\* Stated for one terminal: a check of another one may make the run active
\* after the intent.
MutationHoldsGate ==
  (tail # "broken" /\ LastIsMutation(trace))
    => Reconciled(runFile, trace).status # "active"

\* Terminals and the CLI use the store only in the ways RunTrace allows its
\* callers, so that what is proved there of every behaviour of the store
\* holds of this system too.
RunsTheStore == Spec
=============================================================================

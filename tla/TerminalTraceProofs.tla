------------------------- MODULE TerminalTraceProofs -------------------------
(***************************************************************************)
(* Proofs about terminals and the CLI on top of the run store.  For any    *)
(* number of terminals and commands they use the store only as its own     *)
(* specification allows, so that what RunTraceProofs shows of every        *)
(* behaviour of the store holds here too.  With one terminal, whatever     *)
(* fails: no surface shows a mutation as verified before a later command   *)
(* exited with zero, and no reader sees an active run after a mutation.    *)
(* When nothing fails either: the two surfaces agree once the run was told *)
(* of a mutation or a passing check, a passing check clears the run, and   *)
(* completion relies on a check that read what every recognised mutation   *)
(* before it had written.                                                  *)
(***************************************************************************)
EXTENDS TerminalTrace, RunTraceProofs

\* Types of the variables of TerminalTrace, and what the hook of a terminal
\* holds in memory: an intent it has found is in the trace.
TermInv ==
  /\ opened \in BOOLEAN
  /\ started \in {0} \cup Commands
  /\ content \in 0..MaxContent
  /\ hidden \subseteq 1..content
  /\ stage \in [Terminals -> Stages]
  /\ cmd \in [Terminals -> Command \cup {NoCommand}]
  /\ exit \in [Terminals -> BOOLEAN]
  /\ session \in [Terminals -> SessionRecord]
  /\ traced \in [Terminals -> Command \cup {NoCommand}]
  /\ matched \in [Terminals -> BOOLEAN]
  /\ provenance \in [Terminals -> Repos \cup {NoRepo}]
  /\ seen \in [Commands -> 0..MaxContent]
  /\ passed \subseteq Commands
  /\ cliRepo \in Repos \cup {NoRepo}
  /\ \A t \in Terminals :
       /\ stage[t] # "prompt" => cmd[t] \in Command
       /\ stage[t] \in {"lookup", "inspect", "record"} => traced[t] \in Command
       /\ matched[t] => /\ stage[t] \in {"inspect", "record"}
                        /\ traced[t].kind = "mutation" /\ HasIntent(trace, traced[t].id)

-----------------------------------------------------------------------------
\* Every intent that the trace holds is of a command before n; and was followed
\* by a command that exited with zero.
Older(n)  == \A c \in Commands : HasIntent(trace, c) => c < n
Backed    == \A c \in Commands : HasIntent(trace, c) => \E d \in passed : d > c

\* The history of each passing check in the trace: the intents recorded
\* before it were each followed by a command that exited with zero.
PassedAfter ==
  \A i \in DOMAIN trace, j \in DOMAIN trace, c \in Commands :
    (/\ j < i /\ IsPassing(trace[i].input)
     /\ trace[j].input.type = "verification_required" /\ trace[j].input.cmd = c)
      => \E d \in passed : d > c

\* What t may have on its way to the trace or to its gate.
ZeroExitOf(t) ==
  /\ ~session[t].gate => Backed
  /\ session[t].pending.kind = "verification" => Older(started)
  /\ stage[t] \in {"preexec", "locate", "intent"} => Older(started)
  /\ stage[t] # "prompt" => cmd[t].id = started
  /\ stage[t] \in {"locate", "intent"} =>
       session[t].gate /\ session[t].pending.kind # "verification"
  /\ session[t].pending \in Command => session[t].pending.id <= started
  /\ stage[t] \in {"ran", "lookup", "inspect", "record"} /\ exit[t] => started \in passed
  /\ stage[t] \in {"lookup", "inspect", "record"} =>
       /\ traced[t].id <= started
       /\ traced[t].kind = "mutation" => session[t].gate
       /\ traced[t].kind = "verification" => Older(started)
       /\ session[t].pending.kind # "verification"
  /\ pc[t] # "idle" =>
       /\ stage[t] \in {"running", "prompt"}
       /\ session[t].pending.kind # "verification"
       /\ job[t].cmd \in Commands /\ job[t].cmd <= started
       /\ job[t].op = "intent" => session[t].gate
       /\ job[t].kind = "mutation" => session[t].gate
       /\ Clears(job[t], "verification-pending") => Backed

ZeroExitInv ==
  /\ Older(started + 1)
  /\ PassedAfter
  /\ pc[Cli] # "idle" => job[Cli].op = "complete"
  /\ \A t \in Terminals : pc[t] # "idle" => job[t].op \in {"intent", "transition"}
  /\ \A t \in Terminals : ZeroExitOf(t)

-----------------------------------------------------------------------------
\* A record that counts all of the trace is not active after a mutation.
Held(run, t) == run.next = Len(t) + 1 /\ LastIsMutation(t) => run.status # "active"

\* The mutation c of t may still have its transition recorded.
Live(t, c) ==
  \/ session[t].pending.kind = "mutation" /\ session[t].pending.id = c
  \/ /\ stage[t] \in {"lookup", "inspect", "record"}
     /\ traced[t].kind = "mutation" /\ traced[t].id = c
  \/ /\ pc[t] = "entered" /\ RanMutation(job[t])
     /\ job[t].matched /\ job[t].cmd = c

\* Nothing that t does comes between the intent of a mutation and its
\* transition: what decides the status is still a mutation.
HoldOf(t) ==
  /\ pc[t] # "idle" /\ job[t].op = "transition" =>
       stage[t] = "prompt" /\ session[t].pending = NoCommand
  /\ stage[t] \in {"lookup", "inspect", "record"} => session[t].pending = NoCommand
  /\ pc[t] = "entered" /\ RanMutation(job[t]) /\ job[t].matched =>
       job[t].cmd \in Commands /\ HasIntent(trace, job[t].cmd)
  /\ \A c \in Commands :
       ~Ends(trace) /\ HasIntent(trace, c) /\ Live(t, c) => LastIsMutation(trace)

HoldInv ==
  /\ Held(runFile, trace)
  /\ \A p \in Procs : pc[p] # "idle" => Held(snap[p], trace)
  /\ \A t \in Terminals : HoldOf(t)

-----------------------------------------------------------------------------
\* A status that says what the trace says.
Agrees(status) ==
  Ends(trace) \/ status = IF Uncovered(trace) THEN "verification-pending" ELSE "active"

\* run.json is in step with the trace whenever nobody holds the lock.
InStep ==
  /\ tail = "clean"
  /\ lock = NoProc => runFile.next = Len(trace) + 1 /\ Agrees(runFile.status)
  /\ pc[Cli] # "idle" => job[Cli].op = "complete"
  /\ \A p \in Procs : pc[p] # "idle" => Agrees(snap[p].status)

\* A run that is not active yet holds nothing of any command.
Unopened ==
  ~opened => /\ cliRepo = NoRepo
             /\ \A p \in Procs : pc[p] = "idle"
             /\ \A t \in Terminals : stage[t] \notin {"intent", "inspect", "record"}
             /\ \A i \in DOMAIN trace : trace[i].input.type = "run_started"

\* The passing checks of the trace, of which one is the last.
PassingKnown ==
  \A i \in DOMAIN trace : IsPassing(trace[i].input) =>
    /\ RunWasTold
    /\ trace[i].input.repo \in Repos
    /\ trace[i].input.cmd \in Commands /\ trace[i].input.cmd <= started
    /\ \E k \in DOMAIN trace : LastPassing(k)

\* Whatever changed the content after command c had read it is hidden.
ReadAll(c) == (seen[c] + 1)..content \subseteq hidden

\* While no mutation is uncovered, the last passing check has read all.
ReadContent ==
  (~Ends(trace) /\ ~Uncovered(trace)) =>
    \A i \in DOMAIN trace : LastPassing(i) => ReadAll(trace[i].input.cmd)

\* Where a terminal is, in its command, its session record and its section.
Placed(t) ==
  /\ pc[t] # "completing"
  /\ pc[t] # "idle" => stage[t] \in {"running", "prompt"}
  /\ session[t].pending =
       IF stage[t] \in {"locate", "intent", "running", "ran"} THEN cmd[t] ELSE NoCommand
  /\ stage[t] \in {"lookup", "inspect", "record"} => traced[t] = cmd[t]
  /\ stage[t] \in {"locate", "intent"} => cmd[t].kind = "mutation"
  /\ stage[t] # "prompt" => cmd[t].id = started
  /\ stage[t] = "record" /\ Inspected(t) => provenance[t] \in Repos
  /\ pc[t] # "idle" /\ stage[t] = "running" => job[t].op = "intent" /\ cmd[t].kind = "mutation"
  /\ pc[t] # "idle" /\ stage[t] = "prompt" =>
       /\ job[t].op = "transition" /\ job[t].cmd \in Commands /\ job[t].cmd = started
       /\ job[t].kind = "verification" /\ job[t].ok => job[t].repo \in Repos
       /\ job[t].kind = "mutation" /\ job[t].matched => RunWasTold

\* The outcome of the command of t on its way from the gate to the trace.
OnItsWay(t) == \/ stage[t] \in {"lookup", "inspect", "record"}
               \/ stage[t] = "prompt" /\ pc[t] = "entered"
KindOf(t)   == IF stage[t] = "prompt" THEN job[t].kind ELSE cmd[t].kind
OkOf(t)     == IF stage[t] = "prompt" THEN job[t].ok ELSE exit[t]

\* The gate of t is closed by a mutation whose intent is not recorded yet;
\* by one that runs or is on its way; or opened by a check on its way.
Ahead(t)    == stage[t] \in {"locate", "intent"} \/ (stage[t] = "running" /\ pc[t] = "entered")
Mutating(t) == (stage[t] \in {"running", "ran"} \/ OnItsWay(t)) /\ KindOf(t) = "mutation"
Checked(t)  == OnItsWay(t) /\ KindOf(t) = "verification" /\ OkOf(t)

\* The session gate of t and the gate of an open run: equal once the run was
\* told, but for an intent not recorded yet and a check on its way.
Coupled(t) ==
  /\ Uncovered(trace) => session[t].gate
  /\ session[t].gate /\ RunWasTold => Uncovered(trace)

GateOf(t) ==
  /\ Ahead(t) \/ Mutating(t) => session[t].gate
  /\ Checked(t) => ~session[t].gate
  /\ ~Ahead(t) /\ ~Checked(t) => Coupled(t)

\* What the check of t has read is still there when it is recorded.
ReadBy(t) ==
  /\ stage[t] # "prompt" => \A i \in DOMAIN trace :
       IsPassing(trace[i].input) => trace[i].input.cmd < started
  /\ stage[t] \in {"ran", "lookup", "inspect", "record"} /\ cmd[t].kind = "verification" =>
       ReadAll(started)
  /\ pc[t] = "entered" /\ stage[t] = "prompt" /\ job[t].kind = "verification" =>
       ReadAll(started)

LastCompleted(i) ==
  /\ i \in DOMAIN trace
  /\ trace[i].input.type = "command_completed"
  /\ \A j \in DOMAIN trace : trace[j].input.type = "command_completed" => j <= i

\* Back at the prompt, a check that exited with zero has cleared the run.
ClearedBy(t) ==
  (~Ends(trace) /\ stage[t] = "prompt" /\ pc[t] # "entered") =>
    \A i \in DOMAIN trace :
      LastCompleted(i) /\ trace[i].input.kind = "verification" /\ trace[i].input.ok
        => ~Uncovered(trace)

SyncOf(t) == Placed(t) /\ (~Ends(trace) => GateOf(t)) /\ ReadBy(t) /\ ClearedBy(t)

SyncInv ==
  InStep /\ Unopened /\ PassingKnown /\ ReadContent /\ \A t \in Terminals : SyncOf(t)

-----------------------------------------------------------------------------
(* What an append, whole or torn, adds to the trace.                       *)

\* The events of a batch: an intent or an unmatched mutation requires
\* verification, and only a passing check of a pending run clears it.
LEMMA BatchEvents ==
  ASSUME NEW j \in Jobs, NEW s \in Statuses, j.op # "mark",
         NEW m \in 1..Len(Batch(j, s))
  PROVE  /\ Batch(j, s)[m].type = "verification_required" =>
              (j.op = "intent" \/ RanMutation(j)) /\ Batch(j, s)[m].cmd = j.cmd
         /\ IsPassing(Batch(j, s)[m]) =>
              /\ Clears(j, s) /\ m = 2 /\ Len(Batch(j, s)) = 2
              /\ Batch(j, s)[m].cmd = j.cmd /\ Batch(j, s)[m].repo = j.repo
         /\ Batch(j, s)[m].type = "run_completed" <=> j.op = "complete"
         /\ IsMutationBoundary(Batch(j, s)[m]) => j.op = "intent" \/ RanMutation(j)
         /\ Batch(j, s)[m].type = "command_completed" =>
              m = 1 /\ Batch(j, s)[m] = Completed(j)
<1>1. CASE j.op = "intent"
  BY <1>1 DEF Batch, Required, Input, IsPassing, IsMutationBoundary, RanMutation, Clears
<1>2. CASE j.op = "complete"
  BY <1>2 DEF Batch, Finished, Input, IsPassing, IsMutationBoundary, RanMutation, Clears
<1>3. CASE RanMutation(j) /\ j.matched
  BY <1>3 DEF Batch, Completed, Mutated, Input, IsPassing, IsMutationBoundary, RanMutation, Clears
<1>4. CASE RanMutation(j) /\ ~j.matched
  BY <1>4 DEF Batch, Completed, Mutated, Required, Input, IsPassing, IsMutationBoundary,
              RanMutation, Clears
<1>5. CASE Clears(j, s)
  <2>1. Batch(j, s) = <<Completed(j), Verified(j)>>
    BY <1>5 DEF Batch, RanMutation, Clears
  <2>2. m \in {1, 2} /\ Len(Batch(j, s)) = 2
    BY <2>1
  <2>3. j.op = "transition" /\ j.kind = "verification" /\ j.ok
    BY <1>5 DEF Clears
  <2>4. CASE m = 1
    <3>1. Batch(j, s)[m] = Completed(j)
      BY <2>1, <2>4
    <3> QED BY <2>3, <2>4, <3>1 DEF Completed, Input, IsPassing, IsMutationBoundary
  <2>5. CASE m = 2
    <3>1. Batch(j, s)[m] = Verified(j)
      BY <2>1, <2>5
    <3> QED BY <1>5, <2>2, <2>3, <2>5, <3>1 DEF Verified, Input, IsPassing, IsMutationBoundary
  <2> QED BY <2>2, <2>4, <2>5
<1>6. CASE j.op = "transition" /\ ~RanMutation(j) /\ ~Clears(j, s)
  <2>1. Batch(j, s) = <<Completed(j)>>
    BY <1>6 DEF Batch
  <2> QED BY <1>6, <2>1 DEF Completed, Input, IsPassing, IsMutationBoundary, RanMutation
<1> QED BY <1>1, <1>2, <1>3, <1>4, <1>5, <1>6 DEF Jobs

\* The next trace is this one and the first k events of the batch.
Grows(p, k) ==
  LET b == Batch(job[p], snap[p].status)
  IN  /\ pc[p] = "entered" /\ job[p].op # "mark" /\ job[p] \in Jobs
      /\ snap[p].status \in Statuses
      /\ Admitted(job[p], snap[p], trace)
      /\ k \in 0..Len(b) /\ Len(b) \in 1..3
      /\ trace' \in Seq(Event)
      /\ Len(trace) \in Nat /\ DOMAIN trace = 1..Len(trace)
      /\ DOMAIN trace' = 1..(Len(trace) + k)
      /\ \A i \in DOMAIN trace : i \in DOMAIN trace' /\ trace'[i] = trace[i]
      /\ \A i \in DOMAIN trace' : i > Len(trace) =>
           i - Len(trace) \in 1..k /\ trace'[i].input = b[i - Len(trace)]
      /\ \A m \in 1..k : Len(trace) + m \in DOMAIN trace'
                         /\ trace'[Len(trace) + m].input = b[m]

\* An append leaves the trace with such a next trace.
LEMMA Appends ==
  ASSUME IInv, NEW p \in Procs
  PROVE  /\ AppendLine(p) => Grows(p, Len(Batch(job[p], snap[p].status)))
         /\ \A k \in 0..3 : TornAppend(p, k) => Grows(p, k)
<1> DEFINE b == Batch(job[p], snap[p].status)
           es == Stamped(b, snap[p])
<1>1. /\ job[p] \in Jobs /\ snap[p] \in RunRecord /\ snap[p].status \in Statuses
      /\ snap[p].next \in Nat
      /\ trace \in Seq(Event) /\ Len(trace) \in Nat /\ DOMAIN trace = 1..Len(trace)
  BY LenProperties DEF IInv, TypeOK, RunRecord
<1>2. b \in Seq(EventInput) /\ Len(b) \in 1..3
  BY <1>1, BatchType
<1> HIDE DEF b
<1>3. /\ es \in Seq(Event) /\ Len(es) = Len(b)
      /\ \A i \in 1..Len(b) : es[i] = [seq |-> snap[p].next + i - 1, input |-> b[i]]
  BY <1>1, <1>2, StampedType
<1> HIDE DEF es
<1>4. ASSUME NEW k \in 0..Len(es), trace' = trace \o SubSeq(es, 1, k),
             pc[p] = "entered", job[p].op # "mark", Admitted(job[p], snap[p], trace)
      PROVE  Grows(p, k)
  <2>1. /\ trace' \in Seq(Event) /\ Len(trace') = Len(trace) + k
        /\ DOMAIN trace' = 1..(Len(trace) + k)
        /\ \A i \in 1..Len(trace) : trace'[i] = trace[i]
        /\ \A i \in 1..k : trace'[Len(trace) + i] = es[i]
    BY <1>1, <1>3, <1>4, Extension
  <2>2. k \in 0..Len(b) /\ k \in Nat
    BY <1>2, <1>3, <1>4
  <2>3. \A m \in 1..k : /\ Len(trace) + m \in DOMAIN trace'
                         /\ trace'[Len(trace) + m].input = b[m]
    <3> SUFFICES ASSUME NEW m \in 1..k
                 PROVE  /\ Len(trace) + m \in DOMAIN trace'
                        /\ trace'[Len(trace) + m].input = b[m]
      OBVIOUS
    <3>1. m \in 1..Len(b) /\ Len(trace) + m \in 1..(Len(trace) + k)
      BY <1>1, <1>2, <2>2
    <3>2. es[m] = [seq |-> snap[p].next + m - 1, input |-> b[m]]
      BY <1>3, <3>1
    <3>3. trace'[Len(trace) + m] = es[m]
      BY <2>1
    <3>4. trace'[Len(trace) + m].input = b[m]
      BY <3>2, <3>3
    <3> QED BY <2>1, <3>1, <3>4
  <2>4. ASSUME NEW i \in DOMAIN trace', i > Len(trace)
        PROVE  i - Len(trace) \in 1..k /\ trace'[i].input = b[i - Len(trace)]
    <3>1. i - Len(trace) \in 1..k /\ Len(trace) + (i - Len(trace)) = i
      BY <1>1, <2>1, <2>2, <2>4
    <3> QED BY <2>3, <3>1
  <2>5. \A i \in DOMAIN trace : i \in DOMAIN trace' /\ trace'[i] = trace[i]
    BY <1>1, <2>1, <2>2
  <2> QED BY <1>1, <1>2, <1>4, <2>1, <2>2, <2>3, <2>4, <2>5 DEF Grows, b
<1>5. ASSUME AppendLine(p) PROVE Grows(p, Len(b))
  <2>1. /\ pc[p] = "entered" /\ job[p].op # "mark" /\ Admitted(job[p], snap[p], trace)
        /\ trace' = trace \o es
    BY <1>5 DEF AppendLine, b, es
  <2>2. Len(es) \in 0..Len(es) /\ trace' = trace \o SubSeq(es, 1, Len(es))
    <3>1. Len(es) \in 1..3
      BY <1>2, <1>3
    <3>2. Len(es) \in 0..Len(es)
      BY <3>1
    <3>3. SubSeq(es, 1, Len(es)) = es
      BY <1>3, SubSeqFull
    <3> QED BY <2>1, <3>2, <3>3
  <2> QED BY <1>3, <1>4, <2>1, <2>2
<1>6. ASSUME NEW k \in 0..3, TornAppend(p, k) PROVE Grows(p, k)
  <2>1. /\ pc[p] = "entered" /\ job[p].op # "mark" /\ Admitted(job[p], snap[p], trace)
        /\ k \in 0..Len(es) /\ trace' = trace \o SubSeq(es, 1, k)
    BY <1>6 DEF TornAppend, b, es
  <2> QED BY <1>4, <2>1
<1> QED BY <1>5, <1>6 DEF b

-----------------------------------------------------------------------------
(* Terminals and the CLI use the store as RunTrace allows.                 *)

\* The initial state.
LEMMA InitTermInv == ASSUME TermInit PROVE TermInv
<1>1. [gate : BOOLEAN, pending : {NoCommand}] \subseteq SessionRecord
  BY DEF SessionRecord, NoCommand
<1>2. session \in [Terminals -> SessionRecord]
  BY <1>1 DEF TermInit
<1>3. 0 \in 0..MaxContent
  BY MaxContentAssumption
<1>4. stage \in [Terminals -> Stages] /\ \A t \in Terminals : stage[t] = "prompt" /\ ~matched[t]
  BY DEF TermInit, Stages
<1>5. /\ cmd \in [Terminals -> Command \cup {NoCommand}]
      /\ traced \in [Terminals -> Command \cup {NoCommand}]
      /\ seen \in [Commands -> 0..MaxContent]
  BY <1>3 DEF TermInit
<1> QED BY <1>2, <1>3, <1>4, <1>5 DEF TermInit, TermInv

\* A step never removes an intent from the trace.
LEMMA IntentsStay ==
  ASSUME IInv, [TermNext]_allVars
  PROVE  \A c : HasIntent(trace, c) => HasIntent(trace', c)
<1>1. CASE trace' = trace
  BY <1>1 DEF HasIntent
<1>2. ASSUME NEW p \in Procs, NEW k, Grows(p, k)
      PROVE  \A c : HasIntent(trace, c) => HasIntent(trace', c)
  BY <1>2 DEF Grows, HasIntent
<1>3. ASSUME NEW t \in Terminals, Terminal(t) PROVE trace' = trace
  BY <1>3 DEF Terminal, StartCommand, Preexec, Locate, RecordIntent, Execute, Postexec, LookUp,
              Inspect, RecordTransition, HelperFails, Damage, Enter, ReadsOpenRun, ReadsNoRun,
              ReadRun, vars
<1>4. CASE StartRun \/ Edit \/ CliInspect \/ CliComplete \/ UNCHANGED allVars
  BY <1>1, <1>4 DEF StartRun, Edit, CliInspect, CliComplete, Enter, allVars, vars
<1>5. ASSUME NEW p \in Procs, StoreStep(p)
      PROVE  \A c : HasIntent(trace, c) => HasIntent(trace', c)
  <2>1. CASE AppendLine(p) \/ \E k \in 0..3 : TornAppend(p, k)
    BY <1>2, <2>1, Appends
  <2>2. CASE Refuse(p) \/ WriteRun(p) \/ WriteCompletedAt(p) \/ Crash(p)
    BY <1>1, <2>2 DEF Refuse, WriteRun, WriteCompletedAt, Crash
  <2> QED BY <1>5, <2>1, <2>2 DEF StoreStep
<1> QED BY <1>1, <1>3, <1>4, <1>5 DEF TermNext

\* The steps of a terminal that no hook of it makes: a command starts or runs.
LEMMA CommandKeeps ==
  ASSUME TermInv, NEW t \in Terminals,
         \/ \E kind \in Kinds : StartCommand(t, kind)
         \/ \E ok, changes \in BOOLEAN : Execute(t, ok, changes)
  PROVE  TermInv'
<1>1. trace' = trace
  BY DEF StartCommand, Execute, vars
<1>2. ASSUME NEW kind \in Kinds, StartCommand(t, kind) PROVE TermInv'
  <2>1. [id |-> started + 1, kind |-> kind] \in Command
    BY <1>2 DEF StartCommand, Command
  <2>2. cmd' \in [Terminals -> Command \cup {NoCommand}] /\ cmd'[t] \in Command
    BY <1>2, <2>1 DEF StartCommand, TermInv
  <2>3. stage' \in [Terminals -> Stages] /\ exit' \in [Terminals -> BOOLEAN]
    BY <1>2 DEF StartCommand, Goto, TermInv, Stages
  <2>4. started' \in Commands
    BY <1>2 DEF StartCommand
  <2>5. UNCHANGED <<opened, content, hidden, session, traced, matched, provenance, seen,
                    passed, cliRepo>>
    BY <1>2 DEF StartCommand, hook
  <2> QED BY <1>1, <1>2, <2>2, <2>3, <2>4, <2>5 DEF StartCommand, TermInv, Goto
<1>3. ASSUME NEW ok \in BOOLEAN, NEW changes \in BOOLEAN, Execute(t, ok, changes) PROVE TermInv'
  <2>1. content' \in 0..MaxContent /\ content \in 0..content'
    BY <1>3, MaxContentAssumption DEF Execute, TermInv
  <2>2. hidden' \subseteq 1..content'
    BY <1>3, <2>1 DEF Execute, TermInv
  <2>3. cmd[t] \in Command /\ cmd[t].id \in Commands
    BY <1>3 DEF Execute, TermInv, Command
  <2>4. seen' \in [Commands -> 0..MaxContent] /\ passed' \subseteq Commands
    BY <1>3, <2>3 DEF Execute, TermInv
  <2>5. stage' \in [Terminals -> Stages] /\ exit' \in [Terminals -> BOOLEAN]
    BY <1>3 DEF Execute, Goto, TermInv, Stages
  <2>6. UNCHANGED <<opened, started, cmd, session, traced, matched, provenance, cliRepo>>
    BY <1>3 DEF Execute, hook
  <2> QED BY <1>1, <1>3, <2>1, <2>2, <2>4, <2>5, <2>6 DEF Execute, TermInv, Goto
<1> QED BY <1>2, <1>3

\* Preexec, postexec and damage leave a session record that can be parsed.
LEMMA SessionKept ==
  ASSUME TermInv, NEW t \in Terminals,
         session' = session \/ Preexec(t) \/ Postexec(t) \/ Damage(t)
  PROVE  session' \in [Terminals -> SessionRecord]
<1>1. CASE session' = session
  BY <1>1 DEF TermInv
<1>2. CASE Preexec(t)
  <2> DEFINE r == [session[t] EXCEPT !.gate = @ \/ cmd[t].kind = "mutation", !.pending = cmd[t]]
  <2>1. session[t] \in SessionRecord /\ cmd[t] \in Command
    BY <1>2 DEF TermInv, Preexec
  <2>2. /\ r.pending = cmd[t] /\ r.gate \in BOOLEAN
        /\ cmd[t].kind = "mutation" => r.gate
        /\ r \in [gate : BOOLEAN, pending : Command \cup {NoCommand}]
    BY <2>1 DEF SessionRecord
  <2>3. r \in SessionRecord
    BY <2>2 DEF SessionRecord
  <2>4. session' = [session EXCEPT ![t] = r]
    BY <1>2 DEF Preexec, TermInv
  <2> QED BY <2>3, <2>4 DEF TermInv
<1>3. CASE Postexec(t) /\ session' # session
  <2> DEFINE r == [gate |-> GateAfter(session[t], exit[t]), pending |-> NoCommand]
  <2>1. r \in SessionRecord
    BY DEF SessionRecord, GateAfter, NoCommand, TermInv
  <2>2. session' = [session EXCEPT ![t] = r]
    BY <1>3 DEF Postexec, TermInv
  <2> QED BY <2>1, <2>2 DEF TermInv
<1>4. CASE Damage(t)
  <2>1. [gate |-> TRUE, pending |-> NoCommand] \in SessionRecord
    BY DEF SessionRecord
  <2> QED BY <1>4, <2>1 DEF Damage, TermInv
<1> QED BY <1>1, <1>2, <1>3, <1>4

\* The steps of the shell hooks: no command starts and the worktree stays.
LEMMA HookKeeps ==
  ASSUME TermInv, NEW t \in Terminals,
         \/ Preexec(t) \/ Locate(t) \/ RecordIntent(t) \/ Postexec(t) \/ LookUp(t)
         \/ Inspect(t) \/ RecordTransition(t) \/ HelperFails(t) \/ Damage(t)
  PROVE  TermInv'
<1>1. UNCHANGED <<opened, started, content, hidden, seen, passed, cmd, exit, cliRepo>>
  BY DEF Preexec, Locate, RecordIntent, Postexec, LookUp, Inspect, RecordTransition,
         HelperFails, Damage, world
<1>2. trace' = trace
  BY DEF Preexec, Locate, RecordIntent, Postexec, LookUp, Inspect, RecordTransition,
         HelperFails, Damage, Enter, ReadsOpenRun, ReadsNoRun, ReadRun, vars
<1>3. session' \in [Terminals -> SessionRecord]
  BY SessionKept DEF Locate, RecordIntent, LookUp, Inspect, RecordTransition, HelperFails, hook
<1>4. Fingerprint[content] \in Repos
  BY FingerprintAssumption DEF TermInv
<1>5. session[t].pending \in Command \cup {NoCommand}
  BY DEF TermInv, SessionRecord
<1>6. /\ stage' \in [Terminals -> Stages]
      /\ \A u \in Terminals : stage'[u] # "prompt" => stage[u] # "prompt"
  BY DEF Preexec, Locate, RecordIntent, Postexec, LookUp, Inspect, RecordTransition,
         HelperFails, Damage, HookEnds, Goto, TermInv, Stages
<1>7. \/ UNCHANGED <<traced, matched>>
            /\ (stage'[t] = stage[t] \/ stage'[t] \notin {"lookup", "inspect", "record"})
            /\ (stage'[t] = stage[t] \/ stage[t] \notin {"inspect", "record"})
            /\ provenance' = provenance
      \/ HookEnds(t)
      \/ Postexec(t) /\ stage'[t] = "lookup" /\ traced' = [traced EXCEPT ![t] = session[t].pending]
           /\ session[t].pending # NoCommand
      \/ LookUp(t) /\ stage'[t] = "inspect" /\ UNCHANGED <<traced, provenance>>
      \/ Inspect(t)
  BY DEF Preexec, Locate, RecordIntent, Postexec, LookUp, RecordTransition, HelperFails,
         Damage, HookEnds, Goto, TermInv, hook
<1>8. ASSUME traced' \in [Terminals -> Command \cup {NoCommand}],
             matched' \in [Terminals -> BOOLEAN],
             provenance' \in [Terminals -> Repos \cup {NoRepo}],
             \A u \in Terminals :
               /\ stage'[u] \in {"lookup", "inspect", "record"} => traced'[u] \in Command
               /\ matched'[u] => /\ stage'[u] \in {"inspect", "record"}
                                 /\ traced'[u].kind = "mutation" /\ HasIntent(trace, traced'[u].id)
      PROVE  TermInv'
  BY <1>1, <1>2, <1>3, <1>6, <1>8 DEF TermInv
<1>9. \A u \in Terminals : u # t => stage'[u] = stage[u]
  BY DEF Preexec, Locate, RecordIntent, Postexec, LookUp, Inspect, RecordTransition,
         HelperFails, Damage, HookEnds, Goto, TermInv
<1>10. CASE UNCHANGED <<traced, matched>>
            /\ (stage'[t] = stage[t] \/ stage'[t] \notin {"lookup", "inspect", "record"})
            /\ (stage'[t] = stage[t] \/ stage[t] \notin {"inspect", "record"})
            /\ provenance' = provenance
  BY <1>8, <1>9, <1>10 DEF TermInv
<1>11. CASE HookEnds(t)
  BY <1>8, <1>9, <1>11 DEF HookEnds, Goto, TermInv
<1>12. CASE Postexec(t) /\ stage'[t] = "lookup" /\ traced' = [traced EXCEPT ![t] = session[t].pending]
              /\ session[t].pending # NoCommand
  <2>1. session[t].pending \in Command /\ stage[t] = "ran" /\ UNCHANGED <<matched, provenance>>
    BY <1>5, <1>12 DEF Postexec
  <2> QED BY <1>8, <1>9, <1>12, <2>1 DEF TermInv
<1>13. CASE LookUp(t) /\ stage'[t] = "inspect" /\ UNCHANGED <<traced, provenance>>
  <2>1. stage[t] = "lookup" /\ matched' \in [Terminals -> BOOLEAN]
        /\ (matched'[t] => traced[t].kind = "mutation" /\ HasIntent(trace, traced[t].id))
        /\ (\A u \in Terminals : u # t => matched'[u] = matched[u])
    BY <1>13 DEF LookUp, HookEnds, Goto, TermInv, HasIntent
  <2> QED BY <1>8, <1>9, <1>13, <2>1 DEF TermInv
<1>14. CASE Inspect(t)
  <2>1. /\ UNCHANGED <<traced, matched>> /\ stage[t] = "inspect" /\ stage'[t] = "record"
        /\ provenance' \in [Terminals -> Repos \cup {NoRepo}]
    BY <1>4, <1>14 DEF Inspect, Goto, TermInv
  <2> QED BY <1>8, <1>9, <2>1 DEF TermInv
<1> QED BY <1>7, <1>10, <1>11, <1>12, <1>13, <1>14

\* The steps of agents, editors, the CLI and the sections of the store.
LEMMA OtherKeeps ==
  ASSUME TermInv, IInv,
         StartRun \/ Edit \/ CliInspect \/ CliComplete \/ \E p \in Procs : StoreStep(p)
  PROVE  TermInv'
<1>1. /\ UNCHANGED <<started, stage, cmd, exit, session, traced, matched, provenance, seen,
                     passed>>
      /\ opened' \in BOOLEAN
  BY DEF StartRun, Edit, CliInspect, CliComplete, StoreStep, termVars, world, hook, TermInv
<1>2. cliRepo' \in Repos \cup {NoRepo}
  BY FingerprintAssumption
     DEF StartRun, Edit, CliInspect, CliComplete, StoreStep, termVars, TermInv
<1>3. content' \in 0..MaxContent /\ hidden' \subseteq 1..content'
  <2>1. CASE Edit
    <3>1. content' = content + 1 /\ content < MaxContent /\ hidden' = hidden \cup {content + 1}
      BY <2>1 DEF Edit
    <3>2. content \in Nat /\ MaxContent \in Nat /\ hidden \subseteq 1..content
      BY MaxContentAssumption DEF TermInv
    <3> QED BY <3>1, <3>2
  <2>2. CASE ~Edit
    BY <2>2 DEF StartRun, CliInspect, CliComplete, StoreStep, termVars, world, TermInv
  <2> QED BY <2>1, <2>2
<1>4. \A t \in Terminals : matched[t] => HasIntent(trace', traced[t].id)
  BY IntentsStay DEF TermInv, TermNext
<1> QED BY <1>1, <1>2, <1>3, <1>4 DEF TermInv

\* The types are kept by every step.
LEMMA TermInvKept == ASSUME TermInv, IInv, [TermNext]_allVars PROVE TermInv'
<1>1. CASE UNCHANGED allVars
  BY <1>1 DEF allVars, termVars, world, hook, vars, TermInv
<1>2. ASSUME NEW t \in Terminals, Terminal(t) PROVE TermInv'
  BY <1>2, CommandKeeps, HookKeeps DEF Terminal
<1> QED BY <1>1, <1>2, OtherKeeps DEF TermNext

\* What the terminals and the CLI ask of the store, its callers may ask.
LEMMA StepOfStore == ASSUME TermInv, [TermNext]_allVars PROVE [Next]_vars
<1>1. CASE UNCHANGED allVars
  BY <1>1 DEF allVars
<1>2. ASSUME NEW t \in Terminals, RecordIntent(t) PROVE Submit(t)
  <2>1. cmd[t].id \in Commands /\ Enter(t, IntentJob(cmd[t].id))
    BY <1>2 DEF RecordIntent, TermInv, Command
  <2> QED BY <2>1 DEF Submit
<1>3. ASSUME NEW t \in Terminals, RecordTransition(t) PROVE Submit(t)
  <2>1. /\ traced[t].id \in Commands /\ traced[t].kind \in Kinds
        /\ exit[t] \in BOOLEAN /\ provenance[t] \in Repos \cup {NoRepo}
        /\ matched[t] \in BOOLEAN
        /\ matched[t] => traced[t].kind = "mutation" /\ HasIntent(trace, traced[t].id)
    BY <1>3 DEF RecordTransition, TermInv, Command
  <2>2. Enter(t, TransitionJob(traced[t].kind, traced[t].id, exit[t], matched[t], provenance[t]))
    BY <1>3 DEF RecordTransition
  <2> QED BY <2>1, <2>2 DEF Submit
<1>4. ASSUME CliComplete PROVE Submit(Cli)
  <2>1. cliRepo \in Repos /\ Enter(Cli, CompleteJob(cliRepo))
    BY <1>4 DEF CliComplete, TermInv
  <2> QED BY <2>1 DEF Submit
<1>5. ASSUME NEW t \in Terminals, Terminal(t) PROVE [Next]_vars
  <2>1. t \in Procs
    BY TerminalsAssumption
  <2>2. CASE RecordIntent(t) \/ RecordTransition(t)
    BY <1>2, <1>3, <2>1, <2>2 DEF Next
  <2>3. CASE Locate(t) \/ LookUp(t)
    BY <2>1, <2>3 DEF Locate, LookUp, ReadsOpenRun, ReadsNoRun, Next
  <2>4. CASE ~(RecordIntent(t) \/ RecordTransition(t) \/ Locate(t) \/ LookUp(t))
    BY <1>5, <2>4 DEF Terminal, StartCommand, Preexec, Execute, Postexec, Inspect,
                      HelperFails, Damage
  <2> QED BY <2>2, <2>3, <2>4
<1>6. ASSUME NEW p \in Procs, StoreStep(p) PROVE Next
  BY <1>6 DEF StoreStep, Next, Section
<1>7. Cli \in Procs
  BY TerminalsAssumption
<1> QED BY <1>1, <1>4, <1>5, <1>6, <1>7 DEF TermNext, CliInspect, StartRun, Edit, Next

\* Every reachable state has its types and satisfies the invariant of the
\* run store: one needs the other, because an intent that a terminal has
\* found stays only in a trace that grows.
THEOREM TermAndStore == TermSpec => [](TermInv /\ IInv)
<1>1. TermInit => TermInv /\ IInv
  BY InitTermInv, InitIInv DEF TermInit
<1>2. TermInv /\ IInv /\ [TermNext]_allVars => (TermInv /\ IInv)'
  BY TermInvKept, StepOfStore, NextIInv
<1> QED BY <1>1, <1>2, PTL DEF TermSpec

\* The types of this module.
THEOREM TermInvariance == TermSpec => []TermInv
BY TermAndStore, PTL

\* What holds of every behaviour of the store holds under the hooks.
THEOREM StoreInvariance == TermSpec => []IInv
BY TermAndStore, PTL

\* Terminals and the CLI use the store only in the ways RunTrace allows its
\* callers, for any number of terminals and commands.
THEOREM TerminalsRunTheStore == TermSpec => RunsTheStore
<1>1. TermInit => Init
  BY DEF TermInit
<1> QED BY <1>1, StepOfStore, TermInvariance, PTL DEF TermSpec, RunsTheStore, Spec

\* The state of terminals, CLI and store always has its type.
THEOREM TermTypeCorrect == TermSpec => []TermTypeOK
<1>1. TermInv /\ IInv => TermTypeOK
  BY DEF TermInv, IInv, TermTypeOK
<1> QED BY <1>1, TermAndStore, PTL

\* No run is completed on stale evidence, whatever the terminals do and
\* wherever their helpers die.
THEOREM TerminalCompletionIsFresh == TermSpec => []CompletionIsFresh
<1>1. IInv => CompletionIsFresh
  BY DEF IInv
<1> QED BY <1>1, StoreInvariance, PTL

-----------------------------------------------------------------------------
(* One terminal: evidence needs a later command that exited with zero,     *)
(* wherever helpers fail and processes die.                                *)

OneTerminal == \E t : Terminals = {t}

\* Commands are numbers.
LEMMA CommandNumbers ==
  ASSUME TermInv
  PROVE  /\ Commands \subseteq Nat /\ started \in Nat /\ passed \subseteq Commands
         /\ \A t \in Terminals : cmd[t] \in Command \cup {NoCommand} /\ exit[t] \in BOOLEAN
         /\ \A t \in Terminals : session[t] \in SessionRecord
         /\ \A x \in Command : x.id \in Commands /\ x.kind \in Kinds
         /\ NoCommand.kind = "other" /\ NoCommand \notin Command
BY CommandsAssumption, NoCmdAssumption DEF TermInv, Command, NoCommand

\* The initial state.
LEMMA InitZeroExit == ASSUME TermInit PROVE ZeroExitInv
<1>1. trace = <<[seq |-> 1, input |-> Input("run_started", TRUE, "none", NoCmd, NoRepo)]>>
  BY DEF TermInit, Init
<1>2. DOMAIN trace = {1} /\ trace[1].input.type = "run_started"
  BY <1>1 DEF Input
<1>3. \A c \in Commands : ~HasIntent(trace, c)
  BY <1>2 DEF HasIntent
<1>4. \A t \in Terminals : t \in Procs /\ Cli \in Procs
  BY TerminalsAssumption
<1>5. Cli \in Procs
  BY TerminalsAssumption
<1>6. PassedAfter /\ Older(started + 1) /\ Older(started) /\ Backed
  BY <1>2, <1>3 DEF PassedAfter, Older, Backed, IsPassing
<1>7. NoCommand \notin Command
  BY NoCmdAssumption DEF NoCommand, Command
<1>8. ASSUME NEW t \in Terminals PROVE ZeroExitOf(t)
  BY <1>4, <1>6, <1>7 DEF ZeroExitOf, TermInit, Init, NoCommand
<1> QED BY <1>4, <1>5, <1>6, <1>8 DEF ZeroExitInv, TermInit, Init

\* Steps of the hooks that leave the store alone.
LEMMA HookZeroExit ==
  ASSUME TermInv, ZeroExitInv, OneTerminal, NEW t \in Terminals,
         \/ \E kind \in Kinds : StartCommand(t, kind)
         \/ \E ok, changes \in BOOLEAN : Execute(t, ok, changes)
         \/ Preexec(t) \/ Locate(t) \/ Postexec(t) \/ LookUp(t) \/ Inspect(t)
         \/ HelperFails(t) \/ Damage(t)
  PROVE  ZeroExitInv'
<1>2. trace' = trace /\ pc' = pc /\ job' = job
  BY DEF StartCommand, Execute, Preexec, Locate, Postexec, LookUp, Inspect, HelperFails,
         Damage, ReadsOpenRun, ReadsNoRun, ReadRun, vars
<1>3. started' \in Nat /\ started' >= started /\ passed \subseteq passed'
      /\ (started' # started => \E kind \in Kinds : StartCommand(t, kind))
  BY CommandNumbers DEF StartCommand, Execute, Preexec, Locate, Postexec, LookUp, Inspect,
                        HelperFails, Damage, world
<1>4. Older(started + 1) /\ PassedAfter /\ ZeroExitOf(t)
  BY DEF ZeroExitInv
<1>5. Older(started + 1)' /\ PassedAfter'
  BY <1>2, <1>3, <1>4, CommandNumbers DEF Older, PassedAfter
<1>6. /\ Backed => Backed'
      /\ Older(started) => Older(started)'
      /\ Older(started) /\ started \in passed => Backed
  BY <1>2, <1>3, CommandNumbers DEF Older, Backed
<1>7. ZeroExitOf(t)'
  <2>1. CASE \E kind \in Kinds : StartCommand(t, kind)
    <3>1. /\ stage' = [stage EXCEPT ![t] = "preexec"] /\ pc[t] = "idle"
          /\ started' = started + 1 /\ cmd'[t].id = started + 1 /\ exit'[t] = FALSE
          /\ session' = session /\ traced' = traced /\ passed' = passed
      BY <2>1 DEF StartCommand, Goto, TermInv, hook
    <3>2. Older(started)'
      BY <1>2, <1>4, <3>1 DEF Older
    <3>3. session[t].pending \in Command => session[t].pending.id <= started + 1
      BY <1>4, CommandNumbers DEF ZeroExitOf
    <3> QED BY <1>2, <1>4, <1>6, <3>1, <3>2, <3>3 DEF ZeroExitOf, TermInv
  <2>2. CASE \E ok, changes \in BOOLEAN : Execute(t, ok, changes)
    <3>1. /\ stage[t] = "running" /\ stage' = [stage EXCEPT ![t] = "ran"] /\ pc[t] = "idle"
          /\ started' = started /\ cmd' = cmd /\ session' = session /\ traced' = traced
          /\ exit'[t] => cmd[t].id \in passed'
      BY <2>2 DEF Execute, Goto, TermInv, hook
    <3> QED BY <1>2, <1>4, <1>6, <3>1 DEF ZeroExitOf, TermInv
  <2>3. CASE Preexec(t)
    <3>1. /\ stage[t] = "preexec" /\ cmd[t] \in Command /\ pc[t] = "idle"
          /\ stage' = [stage EXCEPT ![t] = IF cmd[t].kind = "mutation" THEN "locate" ELSE "running"]
          /\ started' = started /\ cmd' = cmd /\ traced' = traced /\ passed' = passed
          /\ exit' = exit
          /\ session'[t].gate = (session[t].gate \/ cmd[t].kind = "mutation")
          /\ session'[t].pending = cmd[t]
      BY <2>3, <1>4, CommandNumbers DEF Preexec, Goto, TermInv, SessionRecord, ZeroExitOf, world
    <3>2. /\ cmd[t].kind = "mutation" => stage'[t] = "locate" /\ session'[t].gate
          /\ cmd[t].kind # "mutation" => stage'[t] = "running"
          /\ ~session'[t].gate => ~session[t].gate
      BY <3>1 DEF TermInv
    <3>3. cmd[t].id = started /\ Older(started) /\ (~session[t].gate => Backed)
      BY <1>4, <3>1 DEF ZeroExitOf
    <3>4. started \in Nat
      BY CommandNumbers
    <3> QED BY <1>2, <1>6, <3>1, <3>2, <3>3, <3>4 DEF ZeroExitOf
  <2>4. CASE Postexec(t)
    <3>1. /\ stage[t] = "ran" /\ pc[t] = "idle"
          /\ started' = started /\ cmd' = cmd /\ passed' = passed /\ exit' = exit
      BY <2>4, <1>4 DEF Postexec, ZeroExitOf, world
    <3>2. CASE session[t].pending = NoCommand
      <4>1. stage' = [stage EXCEPT ![t] = "prompt"] /\ UNCHANGED <<session, traced>>
        BY <2>4, <3>2 DEF Postexec, Goto
      <4> QED BY <1>2, <1>4, <1>6, <3>1, <4>1 DEF ZeroExitOf, TermInv
    <3>3. CASE session[t].pending # NoCommand
      <4>1. /\ stage' = [stage EXCEPT ![t] = "lookup"]
            /\ session'[t].gate = GateAfter(session[t], exit[t])
            /\ session'[t].pending = NoCommand
            /\ traced'[t] = session[t].pending
        BY <2>4, <3>3 DEF Postexec, Goto, TermInv
      <4>2. session[t].pending \in Command
        BY <3>3, CommandNumbers DEF SessionRecord
      <4>3. session[t].pending.kind = "verification" => Older(started)
        BY <1>4 DEF ZeroExitOf
      <4>4. ~session'[t].gate => Backed
        <5>1. CASE session[t].pending.kind = "verification" /\ exit[t]
          BY <1>4, <1>6, <3>1, <4>3, <5>1 DEF ZeroExitOf
        <5>2. CASE ~(session[t].pending.kind = "verification" /\ exit[t])
          BY <1>4, <4>1, <5>2 DEF ZeroExitOf, GateAfter
        <5> QED BY <5>1, <5>2
      <4>5. session[t].pending.kind = "mutation" => session'[t].gate
        BY <4>1 DEF GateAfter
      <4> QED BY <1>2, <1>4, <1>6, <3>1, <4>1, <4>2, <4>3, <4>4, <4>5, CommandNumbers
              DEF ZeroExitOf, TermInv
    <3> QED BY <3>2, <3>3
  <2>5. CASE LookUp(t) \/ Inspect(t)
    <3>1. /\ \/ stage' = [stage EXCEPT ![t] = "prompt"]
             \/ /\ stage[t] \in {"lookup", "inspect"} /\ traced' = traced
                /\ \E x \in {"inspect", "record"} : stage' = [stage EXCEPT ![t] = x]
          /\ stage[t] # "prompt" /\ UNCHANGED <<started, cmd, exit, session, passed>>
      BY <2>5 DEF LookUp, Inspect, HookEnds, Goto, world
    <3> QED BY <1>2, <1>4, <1>6, <3>1 DEF ZeroExitOf, TermInv
  <2>6. CASE Locate(t) \/ HelperFails(t)
    <3>1. /\ \/ /\ stage[t] = "locate" /\ traced' = traced
                /\ stage' = [stage EXCEPT ![t] = "intent"]
             \/ /\ stage[t] \in {"preexec", "locate", "intent"} /\ traced' = traced
                /\ stage' = [stage EXCEPT ![t] = "running"]
             \/ /\ stage[t] \in {"ran", "lookup", "inspect", "record"}
                /\ stage' = [stage EXCEPT ![t] = "prompt"]
          /\ UNCHANGED <<started, cmd, exit, session, passed>>
      BY <2>6 DEF Locate, HelperFails, HookEnds, Goto, world, hook
    <3> QED BY <1>2, <1>4, <1>6, <3>1 DEF ZeroExitOf, TermInv
  <2>7. CASE Damage(t)
    <3>1. /\ session'[t].gate = TRUE /\ session'[t].pending = NoCommand
          /\ UNCHANGED <<started, cmd, exit, stage, traced, passed>>
      BY <2>7 DEF Damage, TermInv, world
    <3> QED BY <1>2, <1>4, <1>6, <3>1, CommandNumbers DEF ZeroExitOf, TermInv
  <2> QED BY <2>1, <2>2, <2>3, <2>4, <2>5, <2>6, <2>7
<1>8. \A u \in Terminals : ZeroExitOf(u)'
  BY <1>7 DEF OneTerminal
<1>9. /\ pc'[Cli] # "idle" => job'[Cli].op = "complete"
      /\ \A u \in Terminals : pc'[u] # "idle" => job'[u].op \in {"intent", "transition"}
  BY <1>2 DEF ZeroExitInv
<1> QED BY <1>5, <1>8, <1>9 DEF ZeroExitInv

\* Opening a section: the terminal hands on what its gate already knows.
LEMMA OpenZeroExit ==
  ASSUME IInv, TermInv, ZeroExitInv, OneTerminal,
         CliComplete \/ \E t \in Terminals : RecordIntent(t) \/ RecordTransition(t)
  PROVE  ZeroExitInv'
<1>1. /\ Older(started + 1) /\ PassedAfter
      /\ pc[Cli] # "idle" => job[Cli].op = "complete"
      /\ \A t \in Terminals : ZeroExitOf(t)
                             /\ (pc[t] # "idle" => job[t].op \in {"intent", "transition"})
  BY DEF ZeroExitInv
<1>2. /\ trace' = trace /\ started' = started /\ passed' = passed /\ cmd' = cmd
      /\ exit' = exit /\ session' = session
  BY DEF CliComplete, RecordIntent, RecordTransition, Enter, world, hook
<1>3. /\ Older(started + 1)' /\ PassedAfter' /\ (Backed => Backed')
      /\ (Older(started) => Older(started)')
      /\ (Older(started) /\ started \in passed => Backed)
  BY <1>1, <1>2 DEF Older, PassedAfter, Backed
<1>4. /\ pc \in [Procs -> {"idle", "entered", "appended", "completing"}] /\ job \in [Procs -> Jobs]
      /\ Cli \in Procs /\ \A t \in Terminals : t \in Procs /\ t # Cli
  BY TerminalsAssumption DEF IInv, TypeOK
<1>5. CASE CliComplete
  <2>1. /\ pc' = [pc EXCEPT ![Cli] = "entered"]
        /\ job' = [job EXCEPT ![Cli] = CompleteJob(cliRepo)]
        /\ stage' = stage /\ traced' = traced
    BY <1>5 DEF CliComplete, Enter, hook
  <2>2. job'[Cli].op = "complete"
    BY <1>4, <2>1 DEF CompleteJob, NoJob
  <2>3. \A t \in Terminals : pc'[t] = pc[t] /\ job'[t] = job[t]
    BY <1>4, <2>1
  <2>4. \A t \in Terminals : ZeroExitOf(t)'
    BY <1>1, <1>2, <1>3, <2>1, <2>3 DEF ZeroExitOf
  <2> QED BY <1>1, <1>3, <2>2, <2>3, <2>4 DEF ZeroExitInv
<1>6. ASSUME NEW t \in Terminals, RecordIntent(t) PROVE ZeroExitInv'
  <2>1. /\ stage[t] = "intent" /\ pc' = [pc EXCEPT ![t] = "entered"]
        /\ job' = [job EXCEPT ![t] = IntentJob(cmd[t].id)]
        /\ stage' = [stage EXCEPT ![t] = "running"] /\ traced' = traced
    BY <1>6 DEF RecordIntent, Enter, Goto, hook
  <2>2. /\ job'[t].op = "intent" /\ job'[t].kind = "other" /\ job'[t].cmd = cmd[t].id
        /\ cmd[t].id \in Commands /\ stage'[t] = "running"
    BY <1>4, <2>1, CommandNumbers DEF IntentJob, NoJob, TermInv
  <2>3. job'[Cli] = job[Cli] /\ pc'[Cli] = pc[Cli]
    BY <1>4, <2>1
  <2>4. /\ session[t].gate /\ session[t].pending.kind # "verification"
        /\ cmd[t].id = started /\ started \in Nat
        /\ (session[t].pending \in Command => session[t].pending.id <= started)
    BY <1>1, <2>1, CommandNumbers DEF ZeroExitOf
  <2>5. ~Clears(job'[t], "verification-pending")
    BY <2>2 DEF Clears
  <2>6. ZeroExitOf(t)'
    BY <1>2, <2>2, <2>4, <2>5 DEF ZeroExitOf
  <2> QED BY <1>1, <1>3, <2>2, <2>3, <2>6 DEF ZeroExitInv, OneTerminal
<1>7. ASSUME NEW t \in Terminals, RecordTransition(t) PROVE ZeroExitInv'
  <2>1. /\ stage[t] = "record" /\ pc' = [pc EXCEPT ![t] = "entered"]
        /\ job' = [job EXCEPT ![t] =
                     TransitionJob(traced[t].kind, traced[t].id, exit[t], matched[t],
                                   provenance[t])]
        /\ stage' = [stage EXCEPT ![t] = "prompt"]
    BY <1>7 DEF RecordTransition, Enter, HookEnds, Goto
  <2>2. /\ job'[t].op = "transition" /\ job'[t].kind = traced[t].kind
        /\ job'[t].cmd = traced[t].id /\ job'[t].ok = exit[t]
        /\ traced[t].id \in Commands /\ stage'[t] = "prompt"
    BY <1>4, <2>1, CommandNumbers DEF TransitionJob, NoJob, TermInv
  <2>3. job'[Cli] = job[Cli] /\ pc'[Cli] = pc[Cli]
    BY <1>4, <2>1
  <2>4. /\ traced[t].id <= started
        /\ traced[t].kind = "mutation" => session[t].gate
        /\ traced[t].kind = "verification" => Older(started)
        /\ session[t].pending.kind # "verification"
        /\ exit[t] => started \in passed
        /\ ~session[t].gate => Backed
        /\ session[t].pending \in Command => session[t].pending.id <= started
    BY <1>1, <2>1 DEF ZeroExitOf
  <2>5. Clears(job'[t], "verification-pending") => Backed
    BY <1>3, <2>2, <2>4 DEF Clears
  <2>6. ZeroExitOf(t)'
    BY <1>2, <1>3, <2>2, <2>4, <2>5 DEF ZeroExitOf
  <2> QED BY <1>1, <1>3, <2>2, <2>3, <2>6 DEF ZeroExitInv, OneTerminal
<1> QED BY <1>5, <1>6, <1>7

\* What a step of a section does to pc and job.
SectionMoves(p) ==
  \/ Leave(p)
  \/ \E x \in {"appended", "completing"} : pc' = [pc EXCEPT ![p] = x] /\ job' = job

\* A section goes on, or ends, and what it appends is covered by the history
\* of the commands.
LEMMA SectionZeroExit ==
  ASSUME IInv, TermInv, ZeroExitInv, OneTerminal, NEW p \in Procs, pc[p] # "idle",
         UNCHANGED termVars, SectionMoves(p),
         Older(started + 1)', PassedAfter',
         \A t \in Terminals :
            /\ ~session[t].gate /\ Backed => Backed'
            /\ session[t].pending.kind = "verification" /\ Older(started) => Older(started)'
            /\ stage[t] \in {"preexec", "locate", "intent", "lookup", "inspect", "record"} /\ Older(started)
                 => Older(started)'
            /\ pc[t] # "idle" /\ Clears(job[t], "verification-pending") /\ Backed => Backed'
  PROVE  ZeroExitInv'
<1>1. /\ pc \in [Procs -> {"idle", "entered", "appended", "completing"}] /\ job \in [Procs -> Jobs]
      /\ Cli \in Procs /\ \A t \in Terminals : t \in Procs /\ t # Cli
  BY TerminalsAssumption DEF IInv, TypeOK
<1>2. \A q \in Procs : pc'[q] # "idle" => pc[q] # "idle" /\ job'[q] = job[q]
  BY <1>1 DEF SectionMoves, Leave
<1>3. /\ started' = started /\ passed' = passed /\ cmd' = cmd /\ exit' = exit
      /\ session' = session /\ stage' = stage /\ traced' = traced
  BY DEF termVars, world, hook
<1>4. ASSUME NEW t \in Terminals PROVE ZeroExitOf(t)'
  <2>1. ZeroExitOf(t)
    BY DEF ZeroExitInv
  <2>2. pc'[t] # "idle" => pc[t] # "idle" /\ job'[t] = job[t]
    BY <1>1, <1>2
  <2> QED BY <1>3, <2>1, <2>2 DEF ZeroExitOf
<1> QED BY <1>1, <1>2, <1>4 DEF ZeroExitInv

\* The intents and passing checks that an append adds.
LEMMA AppendZeroExit ==
  ASSUME IInv, TermInv, ZeroExitInv, OneTerminal, NEW p \in Procs, NEW k \in 0..3,
         Grows(p, k), UNCHANGED termVars, SectionMoves(p)
  PROVE  ZeroExitInv'
<1> DEFINE j == job[p]
           s == snap[p].status
           b == Batch(j, s)
<1>1. /\ pc[p] = "entered" /\ j.op # "mark" /\ j \in Jobs /\ s \in Statuses
      /\ k \in 0..Len(b) /\ Len(b) \in 1..3 /\ Len(trace) \in Nat
      /\ DOMAIN trace = 1..Len(trace) /\ DOMAIN trace' = 1..(Len(trace) + k)
      /\ \A i \in DOMAIN trace : i \in DOMAIN trace' /\ trace'[i] = trace[i]
      /\ \A i \in DOMAIN trace' : i > Len(trace) =>
           i - Len(trace) \in 1..k /\ trace'[i].input = b[i - Len(trace)]
  BY DEF Grows
<1> HIDE DEF b
<1>2. /\ started' = started /\ passed' = passed /\ session' = session /\ stage' = stage
  BY DEF termVars, world, hook
<1>3. /\ Commands \subseteq Nat /\ started \in Nat
      /\ \A t \in Terminals : t # Cli /\ Procs = Terminals \cup {Cli}
  BY CommandNumbers, TerminalsAssumption
<1>4. p = Cli => j.op = "complete"
  BY <1>1 DEF ZeroExitInv
<1>5. \A t \in Terminals : p \in Terminals => t = p
  BY DEF OneTerminal
<1>6. ASSUME NEW i \in DOMAIN trace', i > Len(trace),
             trace'[i].input.type = "verification_required"
      PROVE  p \in Terminals /\ (j.op = "intent" \/ RanMutation(j)) /\ trace'[i].input.cmd = j.cmd
  <2>1. i - Len(trace) \in 1..Len(b) /\ b[i - Len(trace)].type = "verification_required"
    BY <1>1, <1>6
  <2>2. (j.op = "intent" \/ RanMutation(j)) /\ b[i - Len(trace)].cmd = j.cmd
    BY <1>1, <2>1, BatchEvents DEF b
  <2>3. p \in Terminals
    BY <1>4, <2>2, TerminalsAssumption DEF RanMutation
  <2> QED BY <1>1, <1>6, <2>2, <2>3
<1>7. ASSUME NEW i \in DOMAIN trace', i > Len(trace), IsPassing(trace'[i].input)
      PROVE  p \in Terminals /\ Clears(j, s) /\ i = Len(trace) + 2
  <2>1. i - Len(trace) \in 1..Len(b) /\ IsPassing(b[i - Len(trace)])
    BY <1>1, <1>7
  <2>2. Clears(j, s) /\ i - Len(trace) = 2
    BY <1>1, <2>1, BatchEvents DEF b
  <2>3. p \in Terminals
    BY <1>4, <2>2, TerminalsAssumption DEF Clears
  <2> QED BY <1>1, <2>2, <2>3
<1>8. ASSUME NEW c \in Commands, HasIntent(trace', c)
      PROVE  \/ HasIntent(trace, c)
             \/ p \in Terminals /\ (j.op = "intent" \/ RanMutation(j)) /\ c = j.cmd
  <2>1. PICK i \in DOMAIN trace' : /\ trace'[i].input.type = "verification_required"
                                   /\ trace'[i].input.cmd = c
    BY <1>8 DEF HasIntent
  <2>2. CASE i > Len(trace)
    BY <1>6, <2>1, <2>2
  <2>3. CASE ~(i > Len(trace))
    <3>1. i \in DOMAIN trace /\ trace'[i] = trace[i]
      BY <1>1, <2>3
    <3> QED BY <2>1, <3>1 DEF HasIntent
  <2> QED BY <2>2, <2>3
<1>9. ASSUME p \in Terminals
      PROVE  /\ stage[p] \in {"running", "prompt"}
             /\ session[p].pending.kind # "verification"
             /\ j.cmd \in Commands /\ j.cmd <= started
             /\ j.op = "intent" => session[p].gate
             /\ j.kind = "mutation" => session[p].gate
             /\ Clears(j, "verification-pending") => Backed
  BY <1>1, <1>9 DEF ZeroExitInv, ZeroExitOf
<1>10. Older(started + 1)'
  <2> SUFFICES ASSUME NEW c \in Commands, HasIntent(trace', c) PROVE c < started + 1
    BY <1>2 DEF Older
  <2>1. CASE HasIntent(trace, c)
    BY <2>1 DEF Older, ZeroExitInv
  <2>2. CASE p \in Terminals /\ c = j.cmd
    <3>1. c <= started /\ c \in Nat
      BY <1>3, <1>9, <2>2
    <3> QED BY <1>3, <3>1
  <2> QED BY <1>8, <2>1, <2>2
<1>11. PassedAfter'
  <2> SUFFICES ASSUME NEW i \in DOMAIN trace', NEW m \in DOMAIN trace', NEW c \in Commands,
                      m < i, IsPassing(trace'[i].input),
                      trace'[m].input.type = "verification_required", trace'[m].input.cmd = c
               PROVE  \E d \in passed : d > c
    BY <1>2 DEF PassedAfter, IsPassing
  <2>1. CASE i > Len(trace)
    <3>1. p \in Terminals /\ Clears(j, s) /\ i = Len(trace) + 2
      BY <1>7, <2>1
    <3>2. Clears(j, "verification-pending") /\ ~(j.op = "intent" \/ RanMutation(j))
      BY <3>1 DEF Clears, RanMutation
    <3>3. HasIntent(trace, c)
      BY <1>8, <3>2 DEF HasIntent
    <3> QED BY <1>9, <3>1, <3>2, <3>3 DEF Backed
  <2>2. CASE ~(i > Len(trace))
    <3>1. /\ i \in DOMAIN trace /\ trace'[i] = trace[i]
          /\ m \in DOMAIN trace /\ trace'[m] = trace[m]
      BY <1>1, <2>2
    <3> QED BY <3>1 DEF ZeroExitInv, PassedAfter
  <2> QED BY <2>1, <2>2
<1>12. ASSUME NEW t \in Terminals,
              ~(p \in Terminals /\ (j.op = "intent" \/ RanMutation(j)))
       PROVE  (Backed => Backed') /\ (Older(started) => Older(started)')
  BY <1>2, <1>8, <1>12 DEF Backed, Older
<1>13. ASSUME NEW t \in Terminals, p \in Terminals, j.op = "intent" \/ RanMutation(j)
       PROVE  /\ t = p /\ session[t].gate /\ session[t].pending.kind # "verification"
              /\ stage[t] \in {"running", "prompt"}
              /\ ~Clears(job[t], "verification-pending")
  BY <1>5, <1>9, <1>13 DEF RanMutation, Clears
<1> QED BY <1>1, <1>10, <1>11, <1>12, <1>13, SectionZeroExit

\* The invariant of the history is inductive.
LEMMA ZeroExitKept ==
  ASSUME IInv, TermInv, ZeroExitInv, OneTerminal, [TermNext]_allVars
  PROVE  ZeroExitInv'
<1>1. CASE UNCHANGED allVars
  BY <1>1 DEF allVars, termVars, world, hook, vars, ZeroExitInv, ZeroExitOf, Older, Backed, PassedAfter
<1>2. CASE StartRun \/ Edit \/ CliInspect
  BY <1>2 DEF StartRun, Edit, CliInspect, vars, world, hook, ZeroExitInv, ZeroExitOf, Older,
              Backed, PassedAfter
<1>3. ASSUME NEW p \in Procs, StoreStep(p) PROVE ZeroExitInv'
  <2>1. UNCHANGED termVars
    BY <1>3 DEF StoreStep
  <2>2. ASSUME trace' = trace, pc[p] # "idle", SectionMoves(p) PROVE ZeroExitInv'
    <3>1. started' = started /\ passed' = passed
      BY <2>1 DEF termVars, world
    <3>2. /\ Older(started + 1)' /\ PassedAfter' /\ (Backed => Backed')
          /\ (Older(started) => Older(started)')
      BY <2>2, <3>1 DEF ZeroExitInv, Older, PassedAfter, Backed
    <3> QED BY <2>1, <2>2, <3>2, SectionZeroExit
  <2>3. CASE Refuse(p) \/ WriteRun(p) \/ WriteCompletedAt(p) \/ Crash(p)
    <3>1. trace' = trace /\ pc[p] # "idle" /\ SectionMoves(p)
      BY <2>3 DEF Refuse, WriteRun, WriteCompletedAt, Crash, SectionMoves
    <3> QED BY <2>2, <3>1
  <2>4. CASE AppendLine(p)
    <3>1. SectionMoves(p)
      BY <2>4 DEF AppendLine, SectionMoves
    <3>2. Grows(p, Len(Batch(job[p], snap[p].status)))
      BY <2>4, Appends
    <3>3. Len(Batch(job[p], snap[p].status)) \in 0..3
      BY <3>2 DEF Grows
    <3> QED BY <2>1, <3>1, <3>2, <3>3, AppendZeroExit
  <2>5. ASSUME NEW k \in 0..3, TornAppend(p, k) PROVE ZeroExitInv'
    <3>1. SectionMoves(p)
      BY <2>5 DEF TornAppend, SectionMoves
    <3>2. Grows(p, k)
      BY <2>5, Appends
    <3> QED BY <2>1, <3>1, <3>2, AppendZeroExit
  <2> QED BY <1>3, <2>3, <2>4, <2>5 DEF StoreStep
<1>4. ASSUME NEW t \in Terminals, Terminal(t) PROVE ZeroExitInv'
  BY <1>4, HookZeroExit, OpenZeroExit DEF Terminal
<1>5. CASE CliComplete
  BY <1>5, OpenZeroExit
<1> QED BY <1>1, <1>2, <1>3, <1>4, <1>5 DEF TermNext

\* With one terminal, a mutation that recorded its intent is verified on
\* neither surface before a later command exited with zero: not by a hook
\* that failed, not by a crash inside a section and not by a damaged record.
THEOREM NeedsZeroExit ==
  ASSUME OneTerminal PROVE TermSpec => []EvidenceNeedsZeroExit
<1>1. ZeroExitInv /\ IInv /\ TermInv => EvidenceNeedsZeroExit
  <2> SUFFICES ASSUME ZeroExitInv, IInv, TermInv,
                      NEW t \in Terminals, NEW c \in Commands, HasIntent(trace, c),
                      ~session[t].gate \/ ~Uncovered(trace)
               PROVE  \E d \in passed : d > c
    BY DEF EvidenceNeedsZeroExit
  <2>1. CASE ~session[t].gate
    BY <2>1 DEF ZeroExitInv, ZeroExitOf, Backed
  <2>2. CASE ~Uncovered(trace)
    <3>1. PICK m \in DOMAIN trace : /\ trace[m].input.type = "verification_required"
                                    /\ trace[m].input.cmd = c
      BY DEF HasIntent
    <3>2. PICK i \in DOMAIN trace : i > m /\ IsPassing(trace[i].input)
      BY <2>2, <3>1 DEF Uncovered, IsMutationBoundary
    <3>3. m < i
      BY <3>2, LenProperties DEF IInv, TypeOK
    <3> QED BY <3>1, <3>2, <3>3 DEF ZeroExitInv, PassedAfter
  <2> QED BY <2>1, <2>2
<1>2. TermInit => ZeroExitInv
  BY InitZeroExit
<1>3. IInv /\ TermInv /\ ZeroExitInv /\ [TermNext]_allVars => ZeroExitInv'
  BY ZeroExitKept
<1> QED BY <1>1, <1>2, <1>3, TermInvariance, StoreInvariance, PTL DEF TermSpec

-----------------------------------------------------------------------------
(* One terminal: a mutation holds the gate of the run until a check is     *)
(* recorded, wherever helpers fail and processes die.                      *)

\* Reconciliation never makes a run active whose trace ends with a mutation.
LEMMA ReconciledHeld ==
  ASSUME NEW run \in RunRecord, NEW t \in Seq(Event), Held(run, t), LastIsMutation(t)
  PROVE  Reconciled(run, t).status # "active"
<1>1. CASE run.next = Len(t) + 1
  BY <1>1 DEF Reconciled, Held
<1>2. CASE run.next # Len(t) + 1
  <2>1. PICK i : LastDecision(t, i) /\ IsMutationBoundary(t[i].input)
    BY DEF LastIsMutation
  <2>2. i \in DOMAIN t
    BY <2>1 DEF LastDecision
  <2> DEFINE k == CHOOSE x \in DOMAIN t : LastDecision(t, x)
  <2>3. k = i
    <3>1. LastDecision(t, k)
      BY <2>1, <2>2
    <3> QED BY <2>1, <3>1, LastDecisionUnique
  <2>4. Derived(run, t).status = StatusAfter(t[k].input)
    BY <2>1, <2>2 DEF Derived
  <2>5. StatusAfter(t[i].input) = "verification-pending"
    BY <2>1 DEF StatusAfter, IsMutationBoundary
  <2>6. Derived(run, t).status = "verification-pending"
    BY <2>3, <2>4, <2>5
  <2> HIDE DEF k
  <2> QED BY <1>2, <2>6 DEF Reconciled
<1> QED BY <1>1, <1>2

\* The initial state.
LEMMA InitHold == ASSUME TermInit PROVE HoldInv
<1>1. trace = <<[seq |-> 1, input |-> Input("run_started", TRUE, "none", NoCmd, NoRepo)]>>
  BY DEF TermInit, Init
<1>2. DOMAIN trace = {1} /\ trace[1].input.type = "run_started"
  BY <1>1 DEF Input
<1>3. ~LastIsMutation(trace) /\ \A c \in Commands : ~HasIntent(trace, c)
  BY <1>2 DEF LastIsMutation, LastDecision, IsMutationBoundary, HasIntent
<1>4. \A t \in Terminals : t \in Procs
  BY TerminalsAssumption
<1> QED BY <1>3, <1>4 DEF HoldInv, HoldOf, Held, TermInit, Init

\* Steps of the hooks: what may still be recorded was there before, and a
\* command that is about to start has no intent yet.
LEMMA HookHold ==
  ASSUME IInv, TermInv, ZeroExitInv, HoldInv, OneTerminal, NEW t \in Terminals,
         \/ \E kind \in Kinds : StartCommand(t, kind)
         \/ \E ok, changes \in BOOLEAN : Execute(t, ok, changes)
         \/ Preexec(t) \/ Locate(t) \/ Postexec(t) \/ LookUp(t) \/ Inspect(t)
         \/ HelperFails(t) \/ Damage(t)
  PROVE  HoldInv'
<1>1. /\ UNCHANGED <<trace, pc, job, snap>>
      /\ runFile' \in {runFile, Reconciled(runFile, trace)}
  BY DEF StartCommand, Execute, Preexec, Locate, Postexec, LookUp, Inspect, HelperFails,
         Damage, ReadsOpenRun, ReadsNoRun, ReadRun, vars
<1>2. Held(runFile, trace)'
  <2>1. Held(runFile, trace) /\ runFile \in RunRecord /\ trace \in Seq(Event)
    BY DEF HoldInv, IInv, TypeOK
  <2>2. LastIsMutation(trace) => Reconciled(runFile, trace).status # "active"
    BY <2>1, ReconciledHeld
  <2> QED BY <1>1, <2>1, <2>2 DEF Held, LastIsMutation
<1>3. \A p \in Procs : pc'[p] # "idle" => Held(snap'[p], trace')
  BY <1>1 DEF HoldInv
<1>4. HoldOf(t) /\ ZeroExitOf(t) /\ NoCommand.kind = "other" /\ started \in Nat
  BY CommandNumbers DEF HoldInv, ZeroExitInv
<1>5. SUFFICES HoldOf(t)'
  BY <1>2, <1>3 DEF HoldInv, OneTerminal
<1>6. ASSUME session'[t].pending \in {session[t].pending, NoCommand},
             stage[t] # "prompt" => pc[t] = "idle" \/ stage'[t] = stage[t],
             \/ stage'[t] \notin {"lookup", "inspect", "record"}
             \/ /\ stage[t] \in {"lookup", "inspect", "record"} /\ traced'[t] = traced[t]
             \/ session'[t].pending = NoCommand /\ traced'[t] = session[t].pending,
             stage[t] = "prompt" => pc[t] = "idle" \/ stage'[t] = "prompt"
      PROVE  HoldOf(t)'
  <2>1. \A c : Live(t, c)' => Live(t, c)
    BY <1>1, <1>4, <1>6 DEF Live
  <2>2. \A c \in Commands : ~Ends(trace') /\ HasIntent(trace', c) /\ Live(t, c)' => LastIsMutation(trace')
    BY <1>1, <1>4, <2>1 DEF HoldOf
  <2> QED BY <1>1, <1>4, <1>6, <2>2 DEF HoldOf
<1>7. CASE Preexec(t)
  <2>1. /\ session'[t].pending = cmd[t] /\ cmd[t].id = started /\ Older(started)
        /\ pc[t] = "idle" /\ stage'[t] \in {"locate", "running"}
    BY <1>4, <1>7 DEF Preexec, Goto, TermInv, SessionRecord, ZeroExitOf
  <2>2. \A c \in Commands : Live(t, c)' => ~HasIntent(trace, c)
    BY <1>1, <1>4, <2>1, CommandNumbers DEF Live, Older
  <2> QED BY <1>1, <2>1, <2>2 DEF HoldOf
<1>8. CASE ~Preexec(t)
  <2>1. session'[t].pending \in {session[t].pending, NoCommand}
    BY <1>8 DEF StartCommand, Execute, Locate, Postexec, LookUp, Inspect, HelperFails,
                Damage, TermInv, hook
  <2>2. stage[t] # "prompt" => pc[t] = "idle" \/ stage'[t] = stage[t]
    BY <1>4, <1>8 DEF ZeroExitOf, StartCommand, Execute, Locate, Postexec, LookUp, Inspect,
                     HelperFails, Damage
  <2>3. stage[t] = "prompt" => pc[t] = "idle" \/ stage'[t] = "prompt"
    BY <1>8 DEF StartCommand, Execute, Locate, Postexec, LookUp, Inspect, HelperFails, Damage
  <2>4. CASE Postexec(t)
    BY <1>6, <2>1, <2>2, <2>3, <2>4 DEF Postexec, Goto, TermInv
  <2>5. CASE LookUp(t) \/ Inspect(t)
    BY <1>6, <2>1, <2>2, <2>3, <2>5 DEF LookUp, Inspect, HookEnds, Goto, TermInv
  <2>6. CASE HelperFails(t) \/ Locate(t) \/ Damage(t)
    BY <1>6, <2>1, <2>2, <2>3, <2>6 DEF HelperFails, Locate, Damage, HookEnds, Goto, TermInv, hook
  <2>7. CASE (\E kind \in Kinds : StartCommand(t, kind))
             \/ (\E ok, changes \in BOOLEAN : Execute(t, ok, changes))
    BY <1>6, <2>1, <2>2, <2>3, <2>7 DEF StartCommand, Execute, Goto, TermInv
  <2> QED BY <1>8, <2>4, <2>5, <2>6, <2>7
<1> QED BY <1>7, <1>8

\* Opening a section: the record it reads is reconciled, and a mutation that
\* hands on an intent still decides the status.
LEMMA OpenHold ==
  ASSUME IInv, TermInv, ZeroExitInv, HoldInv, OneTerminal,
         CliComplete \/ \E t \in Terminals : RecordIntent(t) \/ RecordTransition(t)
  PROVE  HoldInv'
<1>1. /\ pc \in [Procs -> {"idle", "entered", "appended", "completing"}] /\ job \in [Procs -> Jobs]
      /\ snap \in [Procs -> RunRecord]
      /\ Cli \in Procs /\ \A t \in Terminals : t \in Procs /\ t # Cli
  BY TerminalsAssumption DEF IInv, TypeOK
<1>2. ASSUME NEW p \in Procs, NEW j, Enter(p, j)
      PROVE  /\ Held(runFile, trace)' /\ \A q \in Procs : pc'[q] # "idle" => Held(snap'[q], trace')
             /\ trace' = trace /\ pc' = [pc EXCEPT ![p] = "entered"]
             /\ job' = [job EXCEPT ![p] = j] /\ pc[p] = "idle"
  <2> DEFINE r == Reconciled(runFile, trace)
  <2>1. /\ runFile' = r /\ snap' = [snap EXCEPT ![p] = r] /\ trace' = trace
        /\ pc' = [pc EXCEPT ![p] = "entered"] /\ job' = [job EXCEPT ![p] = j] /\ pc[p] = "idle"
    BY <1>2 DEF Enter
  <2>2. Held(runFile, trace) /\ runFile \in RunRecord /\ trace \in Seq(Event)
    BY DEF HoldInv, IInv, TypeOK
  <2>3. Held(r, trace)
    BY <2>2, ReconciledHeld DEF Held
  <2> HIDE DEF r
  <2>4. \A q \in Procs : pc'[q] # "idle" => Held(snap'[q], trace')
    BY <1>1, <2>1, <2>3 DEF HoldInv
  <2> QED BY <2>1, <2>3, <2>4
<1>3. CASE CliComplete
  <2>1. Enter(Cli, CompleteJob(cliRepo)) /\ UNCHANGED <<stage, session, traced>>
    BY <1>3 DEF CliComplete, hook
  <2>2. \A t \in Terminals : pc'[t] = pc[t] /\ job'[t] = job[t]
    BY <1>1, <1>2, <2>1
  <2>3. trace' = trace
    BY <1>1, <1>2, <2>1
  <2>4. ASSUME NEW t \in Terminals PROVE HoldOf(t)'
    <3>1. HoldOf(t) /\ \A c : Live(t, c)' => Live(t, c)
      BY <2>1, <2>2 DEF HoldInv, Live
    <3> QED BY <2>1, <2>2, <2>3, <3>1 DEF HoldOf
  <2> QED BY <1>1, <1>2, <2>1, <2>4 DEF HoldInv
<1>4. ASSUME NEW t \in Terminals, RecordIntent(t) PROVE HoldInv'
  <2>1. /\ Enter(t, IntentJob(cmd[t].id)) /\ stage[t] = "intent" /\ stage'[t] = "running"
        /\ UNCHANGED <<session, traced>>
    BY <1>4 DEF RecordIntent, Goto, TermInv, hook
  <2>2. trace' = trace /\ pc'[t] = "entered" /\ job'[t].op = "intent"
    <3>1. trace' = trace /\ pc'[t] = "entered" /\ job'[t] = IntentJob(cmd[t].id)
      BY <1>1, <1>2, <2>1
    <3>2. IntentJob(cmd[t].id).op = "intent"
      BY DEF IntentJob, NoJob
    <3> QED BY <3>1, <3>2
  <2>3. HoldOf(t) /\ \A c : Live(t, c)' => Live(t, c)
    BY <2>1, <2>2 DEF HoldInv, Live, RanMutation
  <2>4. HoldOf(t)'
    BY <2>1, <2>2, <2>3 DEF HoldOf, RanMutation
  <2> QED BY <1>1, <1>2, <2>1, <2>4 DEF HoldInv, OneTerminal
<1>5. ASSUME NEW t \in Terminals, RecordTransition(t) PROVE HoldInv'
  <2> DEFINE j == TransitionJob(traced[t].kind, traced[t].id, exit[t], matched[t], provenance[t])
  <2>1. /\ Enter(t, j) /\ stage[t] = "record" /\ stage'[t] = "prompt" /\ session' = session
    BY <1>5 DEF RecordTransition, HookEnds, Goto, TermInv
  <2>2. /\ j.op = "transition" /\ j.kind = traced[t].kind /\ j.cmd = traced[t].id
        /\ j.matched = matched[t]
    BY DEF TransitionJob, NoJob
  <2> HIDE DEF j
  <2>3. trace' = trace /\ pc'[t] = "entered" /\ job'[t] = j
    BY <1>1, <1>2, <2>1
  <2>4. HoldOf(t) /\ session[t].pending = NoCommand /\ NoCommand.kind = "other"
    BY <2>1 DEF HoldInv, HoldOf, NoCommand
  <2>5. \A c : Live(t, c)' => Live(t, c)
    BY <2>1, <2>2, <2>3, <2>4 DEF Live, RanMutation
  <2>6. matched[t] => traced[t].id \in Commands /\ HasIntent(trace, traced[t].id)
    BY <2>1, CommandNumbers DEF TermInv
  <2>7. HoldOf(t)'
    BY <2>1, <2>2, <2>3, <2>4, <2>5, <2>6 DEF HoldOf, RanMutation
  <2> QED BY <1>1, <1>2, <2>1, <2>7 DEF HoldInv, OneTerminal
<1> QED BY <1>3, <1>4, <1>5

\* What an append means for the last event that decides the status.
LEMMA AppendDecides ==
  ASSUME IInv, NEW p \in Procs, NEW k \in 0..3, Grows(p, k)
  PROVE  LET j == job[p]
             s == snap[p].status
         IN  /\ k = 0 => trace' = trace
             /\ k # 0 /\ j.op = "intent" => LastIsMutation(trace')
             /\ k # 0 /\ j.op = "complete" => Ends(trace') /\ ~LastIsMutation(trace')
             /\ k = Len(Batch(j, s)) /\ Clears(j, s) => ~LastIsMutation(trace')
             /\ j.op = "transition" /\ ~RanMutation(j) /\ ~Clears(j, s) /\ LastIsMutation(trace')
                  => LastIsMutation(trace)
<1> DEFINE j == job[p]
           s == snap[p].status
           b == Batch(j, s)
           n == Len(trace)
<1>1. /\ j.op # "mark" /\ j \in Jobs /\ s \in Statuses
      /\ k \in 0..Len(b) /\ Len(b) \in 1..3 /\ n \in Nat
      /\ trace' \in Seq(Event) /\ trace \in Seq(Event)
      /\ DOMAIN trace = 1..n /\ DOMAIN trace' = 1..(n + k)
      /\ \A i \in DOMAIN trace : i \in DOMAIN trace' /\ trace'[i] = trace[i]
      /\ \A i \in DOMAIN trace' : i > n => i - n \in 1..k /\ trace'[i].input = b[i - n]
      /\ \A m \in 1..k : n + m \in DOMAIN trace' /\ trace'[n + m].input = b[m]
  BY DEF Grows, IInv, TypeOK
<1>2. /\ j.op = "intent" => b = <<Required(j)>>
      /\ j.op = "complete" => b = <<Finished>>
      /\ Clears(j, s) => b = <<Completed(j), Verified(j)>>
      /\ j.op = "transition" /\ ~RanMutation(j) /\ ~Clears(j, s) => b = <<Completed(j)>>
  BY DEF Batch, Clears, RanMutation
<1>3. /\ j.op = "intent" => Len(b) = 1 /\ IsMutationBoundary(b[1])
      /\ j.op = "complete" => Len(b) = 1 /\ b[1].type = "run_completed"
      /\ Clears(j, s) => Len(b) = 2 /\ IsPassing(b[2])
      /\ j.op = "transition" /\ ~RanMutation(j) /\ ~Clears(j, s) =>
           Len(b) = 1 /\ ~Decides(b[1])
  BY <1>2 DEF Required, Finished, Completed, Verified, Input, IsMutationBoundary, IsPassing,
              Decides, RanMutation
<1> HIDE DEF b
<1>4. ASSUME k = 0 PROVE trace' = trace
  <2>1. Len(trace') = Len(trace) /\ \A i \in 1..Len(trace') : trace'[i] = trace[i]
    BY <1>1, <1>4, LenProperties
  <2> QED BY <1>1, <2>1, SeqEqual
<1>5. ASSUME k = Len(b), Decides(b[k])
      PROVE  \A i : LastDecision(trace', i) => trace'[i].input = b[k]
  <2>1. n + k \in DOMAIN trace' /\ trace'[n + k].input = b[k] /\ k \in Nat
    BY <1>1, <1>5
  <2>2. \A i \in DOMAIN trace' : i <= n + k
    BY <1>1, <2>1
  <2>3. LastDecision(trace', n + k)
    BY <1>5, <2>1, <2>2 DEF LastDecision
  <2> QED BY <1>1, <2>1, <2>3, LastDecisionUnique
<1>6. ASSUME k # 0, j.op = "intent" PROVE LastIsMutation(trace')
  <2>0. k = 1 /\ 1 \in 1..k
    <3>1. Len(b) = 1
      BY <1>3, <1>6
    <3>2. k \in 0..1
      BY <1>1, <3>1
    <3> QED BY <1>6, <3>2
  <2>1. k = 1 /\ n + 1 \in DOMAIN trace' /\ trace'[n + 1].input = b[1]
    BY <1>1, <2>0
  <2>2. \A i \in DOMAIN trace' : i <= n + 1
    BY <1>1, <2>1
  <2> QED BY <1>3, <1>6, <2>1, <2>2 DEF LastIsMutation, LastDecision, Decides
<1>7. ASSUME k # 0, j.op = "complete" PROVE Ends(trace') /\ ~LastIsMutation(trace')
  <2>0. k = 1 /\ 1 \in 1..k
    <3>1. Len(b) = 1
      BY <1>3, <1>7
    <3>2. k \in 0..1
      BY <1>1, <3>1
    <3> QED BY <1>7, <3>2
  <2>1. k = 1 /\ n + 1 \in DOMAIN trace' /\ trace'[n + 1].input = b[1] /\ Decides(b[1])
    BY <1>1, <1>3, <1>7, <2>0 DEF Decides
  <2>2. \A i : LastDecision(trace', i) => trace'[i].input = b[1]
    BY <1>3, <1>5, <1>7, <2>1
  <2> QED BY <1>3, <1>7, <2>1, <2>2 DEF Ends, LastIsMutation, IsMutationBoundary
<1>8. ASSUME k = Len(b), Clears(j, s) PROVE ~LastIsMutation(trace')
  <2>1. k = 2 /\ IsPassing(b[k])
    BY <1>3, <1>8
  <2>2. \A i : LastDecision(trace', i) => trace'[i].input = b[k]
    BY <1>5, <1>8, <2>1 DEF Decides, IsPassing
  <2> QED BY <2>1, <2>2 DEF LastIsMutation, IsMutationBoundary, IsPassing
<1>9. ASSUME j.op = "transition", ~RanMutation(j), ~Clears(j, s), LastIsMutation(trace')
      PROVE  LastIsMutation(trace)
  <2>1. PICK i : LastDecision(trace', i) /\ IsMutationBoundary(trace'[i].input)
    BY <1>9 DEF LastIsMutation
  <2>2. i \in DOMAIN trace' /\ Decides(trace'[i].input)
    BY <2>1 DEF LastDecision
  <2>3. ~(i > n)
    <3> SUFFICES ASSUME i > n PROVE FALSE
      OBVIOUS
    <3>1. i - n \in 1..k /\ trace'[i].input = b[i - n] /\ Len(b) = 1 /\ k \in 0..1
      BY <1>1, <1>3, <1>9, <2>2
    <3>2. i - n = 1
      BY <3>1
    <3> QED BY <1>3, <1>9, <2>2, <3>1, <3>2
  <2>4. i \in DOMAIN trace /\ trace'[i] = trace[i]
    BY <1>1, <2>2, <2>3
  <2>5. \A x \in DOMAIN trace : Decides(trace[x].input) => x <= i
    BY <1>1, <2>1 DEF LastDecision
  <2> QED BY <2>1, <2>2, <2>4, <2>5 DEF LastIsMutation, LastDecision
<1> QED BY <1>4, <1>6, <1>7, <1>8, <1>9 DEF b

\* The trace grows: by the intent that decides the status, by a transition
\* that leaves nothing on its way, or by the completion.
LEMMA GrowthHold ==
  ASSUME IInv, TermInv, ZeroExitInv, HoldInv, OneTerminal, NEW p \in Procs, NEW k \in 0..3,
         Grows(p, k), UNCHANGED termVars, SectionMoves(p), pc'[p] # "entered", runFile' = runFile
  PROVE  Held(runFile, trace)' /\ \A t \in Terminals : HoldOf(t)'
<1> DEFINE j == job[p]
<1>1. /\ pc[p] = "entered" /\ j.op # "mark" /\ j \in Jobs /\ Len(trace) \in Nat /\ k \in Nat
      /\ trace' \in Seq(Event) /\ DOMAIN trace' = 1..(Len(trace) + k)
  BY DEF Grows
<1>2. /\ k = 0 => trace' = trace
      /\ k # 0 /\ j.op = "intent" => LastIsMutation(trace')
      /\ k # 0 /\ j.op = "complete" => Ends(trace')
  BY AppendDecides
<1>3. UNCHANGED <<stage, session, traced>>
  BY DEF termVars, hook
<1>4. /\ pc \in [Procs -> {"idle", "entered", "appended", "completing"}] /\ job \in [Procs -> Jobs]
      /\ Procs = Terminals \cup {Cli}
  BY TerminalsAssumption DEF IInv, TypeOK
<1>5. \A q \in Procs : pc'[q] # "idle" => pc[q] # "idle" /\ job'[q] = job[q]
  BY <1>1, <1>4 DEF SectionMoves, Leave
<1>6. \A q \in Procs : pc'[q] = "entered" => pc[q] = "entered" /\ q # p
  BY <1>1, <1>4 DEF SectionMoves, Leave
<1>7. Held(runFile, trace)'
  <2>1. CASE k = 0
    BY <1>2, <2>1 DEF HoldInv
  <2>2. CASE k # 0
    <3>1. Len(trace') = Len(trace) + k
      BY <1>1, LenProperties
    <3>2. runFile.next <= Len(trace) + 1 /\ runFile.next \in Nat
      BY DEF IInv, TypeOK, FileNotAhead, RunRecord
    <3>3. runFile.next # Len(trace') + 1
      BY <1>1, <2>2, <3>1, <3>2
    <3> QED BY <3>3 DEF Held
  <2> QED BY <2>1, <2>2
<1>8. ASSUME NEW t \in Terminals PROVE HoldOf(t)'
  <2>1. HoldOf(t) /\ \A c : Live(t, c)' => Live(t, c)
    BY <1>3, <1>4, <1>5, <1>6 DEF HoldInv, Live
  <2>2. pc'[t] # "entered"
    <3>1. CASE p \in Terminals
      BY <1>1, <1>6, <3>1 DEF OneTerminal
    <3>2. CASE p = Cli
      <4>1. pc[t] = "idle"
        BY <1>1, <1>4, <3>2, Alone, TerminalsAssumption
      <4> QED BY <1>4, <1>6, <4>1
    <3> QED BY <1>4, <3>1, <3>2
  <2>3. ASSUME NEW c \in Commands, ~Ends(trace'), HasIntent(trace', c), Live(t, c)'
        PROVE  LastIsMutation(trace')
    <3>1. CASE k = 0
      BY <1>2, <2>1, <2>3, <3>1 DEF HoldOf
    <3>2. CASE k # 0 /\ j.op = "transition"
      <4>1. p = t
        BY <1>1, <1>4, <3>2 DEF ZeroExitInv, OneTerminal
      <4>2. stage[t] = "prompt" /\ session[t].pending = NoCommand /\ NoCommand.kind = "other"
        BY <1>1, <2>1, <3>2, <4>1 DEF HoldOf, NoCommand
      <4> QED BY <1>3, <2>2, <2>3, <4>2 DEF Live
    <3> QED BY <1>1, <1>2, <2>3, <3>1, <3>2 DEF Jobs
  <2> QED BY <1>3, <1>4, <1>5, <2>1, <2>2, <2>3 DEF HoldOf
<1> QED BY <1>7, <1>8

\* Sections: what they append and the records they write.
LEMMA SectionHold ==
  ASSUME IInv, TermInv, ZeroExitInv, HoldInv, OneTerminal, NEW p \in Procs, StoreStep(p)
  PROVE  HoldInv'
<1>1. UNCHANGED termVars
  BY DEF StoreStep
<1>2. /\ pc \in [Procs -> {"idle", "entered", "appended", "completing"}] /\ job \in [Procs -> Jobs]
      /\ snap \in [Procs -> RunRecord] /\ \A t \in Terminals : t \in Procs
  BY TerminalsAssumption DEF IInv, TypeOK
<1>3. pc[p] # "idle" => \A q \in Procs : q # p => pc[q] = "idle"
  BY Alone
<1>4. ASSUME NEW k \in 0..3, TornAppend(p, k) PROVE HoldInv'
  <2>1. Grows(p, k) /\ SectionMoves(p) /\ pc'[p] = "idle" /\ runFile' = runFile /\ pc[p] = "entered"
    BY <1>2, <1>4, Appends DEF TornAppend, SectionMoves, Leave
  <2>2. \A q \in Procs : pc'[q] = "idle"
    BY <1>2, <1>3, <1>4, <2>1 DEF TornAppend, Leave
  <2> QED BY <1>1, <2>1, <2>2, GrowthHold DEF HoldInv
<1>5. CASE AppendLine(p)
  <2> DEFINE j == job[p]
             s == snap[p].status
             k == Len(Batch(j, s))
  <2>1. /\ Grows(p, k) /\ SectionMoves(p) /\ pc'[p] = "appended" /\ runFile' = runFile
        /\ pc[p] = "entered" /\ pc' = [pc EXCEPT ![p] = "appended"]
        /\ snap'[p].status = NextStatus(j, s)
    BY <1>2, <1>5, Appends DEF AppendLine, SectionMoves, RunRecord
  <2>2. k \in 1..3 /\ j \in Jobs /\ j.op # "mark" /\ Admitted(j, snap[p], trace)
    BY <2>1 DEF Grows
  <2>3. /\ k # 0 /\ j.op = "complete" => ~LastIsMutation(trace')
        /\ Clears(j, s) => ~LastIsMutation(trace')
        /\ j.op = "transition" /\ ~RanMutation(j) /\ ~Clears(j, s) /\ LastIsMutation(trace')
             => LastIsMutation(trace)
    <3>1. k \in 0..3 /\ k = Len(Batch(j, s))
      BY <2>2
    <3> HIDE DEF k
    <3> QED BY <2>1, <3>1, AppendDecides
  <2>4. Held(snap[p], trace) /\ snap[p].next = Len(trace) + 1
    BY <2>1 DEF HoldInv, IInv, SectionInv
  <2>5. ASSUME LastIsMutation(trace') PROVE snap'[p].status # "active"
    <3>1. CASE j.op = "intent"
      <4>1. NextStatus(j, s) = "verification-pending"
        BY <3>1 DEF NextStatus, RanMutation, Clears
      <4> QED BY <2>1, <4>1
    <3>2. CASE j.op = "complete"
      BY <2>2, <2>3, <2>5, <3>2
    <3>3. CASE RanMutation(j) /\ ~j.matched
      <4>1. NextStatus(j, s) = "verification-pending"
        BY <3>3 DEF NextStatus, RanMutation, Clears
      <4> QED BY <2>1, <4>1
    <3>4. CASE RanMutation(j) /\ j.matched
      <4>1. p \in Terminals /\ ~Ends(trace)
        <5>1. p \in Terminals
          BY <2>1, <3>4, TerminalsAssumption DEF ZeroExitInv, RanMutation
        <5>2. snap[p].status \notin Closed
          BY <2>2, <3>4 DEF Admitted, RanMutation
        <5> QED BY <2>1, <2>4, <5>1, <5>2 DEF IInv, SectionInv, Sound
      <4>2. /\ j.cmd \in Commands /\ HasIntent(trace, j.cmd) /\ Live(p, j.cmd) /\ HoldOf(p)
        BY <2>1, <3>4, <4>1 DEF HoldInv, HoldOf, Live
      <4>3. LastIsMutation(trace)
        BY <4>1, <4>2 DEF HoldOf
      <4>4. NextStatus(j, s) = s
        BY <3>4 DEF NextStatus, RanMutation, Clears
      <4> QED BY <2>1, <2>4, <4>3, <4>4 DEF Held
    <3>5. CASE j.op = "transition" /\ ~RanMutation(j) /\ ~Clears(j, s)
      <4>1. NextStatus(j, s) = s
        BY <3>5 DEF NextStatus
      <4> QED BY <2>1, <2>3, <2>4, <2>5, <3>5, <4>1 DEF Held
    <3> QED BY <2>2, <2>3, <2>5, <3>1, <3>2, <3>3, <3>4, <3>5 DEF Jobs
  <2> HIDE DEF k
  <2>6. \A q \in Procs : pc'[q] # "idle" => Held(snap'[q], trace')
    BY <1>2, <1>3, <2>1, <2>5 DEF Held
  <2>7. k \in 0..3
    BY <2>2
  <2> QED BY <1>1, <2>1, <2>6, <2>7, GrowthHold DEF HoldInv
<1>6. CASE Refuse(p) \/ WriteRun(p) \/ WriteCompletedAt(p) \/ Crash(p)
  <2>1. trace' = trace /\ pc[p] # "idle"
    BY <1>6 DEF Refuse, WriteRun, WriteCompletedAt, Crash
  <2>2. /\ \/ Leave(p)
           \/ pc' = [pc EXCEPT ![p] = "completing"] /\ UNCHANGED <<job, snap>>
        /\ \/ runFile' = runFile
           \/ runFile'.next = snap[p].next /\ runFile'.status = snap[p].status
    BY <1>2, <1>6 DEF Refuse, WriteRun, WriteCompletedAt, Crash, RunRecord
  <2>3. /\ \A q \in Procs : pc'[q] # "idle" =>
             pc[q] # "idle" /\ job'[q] = job[q] /\ snap'[q] = snap[q]
        /\ \A q \in Procs : pc'[q] = "entered" => pc[q] = "entered"
    BY <1>2, <2>1, <2>2 DEF Leave
  <2>4. Held(runFile, trace)' /\ \A q \in Procs : pc'[q] # "idle" => Held(snap'[q], trace')
    BY <2>1, <2>2, <2>3 DEF HoldInv, Held
  <2>5. UNCHANGED <<stage, session, traced>>
    BY <1>1 DEF termVars, hook
  <2>6. ASSUME NEW t \in Terminals PROVE HoldOf(t)'
    <3>1. HoldOf(t) /\ \A c : Live(t, c)' => Live(t, c)
      BY <1>2, <2>3, <2>5 DEF HoldInv, Live
    <3> QED BY <1>2, <2>1, <2>3, <2>5, <3>1 DEF HoldOf
  <2> QED BY <2>4, <2>6 DEF HoldInv
<1> QED BY <1>4, <1>5, <1>6 DEF StoreStep

\* The invariant is inductive.
LEMMA HoldKept ==
  ASSUME IInv, TermInv, ZeroExitInv, HoldInv, OneTerminal, [TermNext]_allVars
  PROVE  HoldInv'
<1>1. CASE StartRun \/ Edit \/ CliInspect \/ UNCHANGED allVars
  <2>1. UNCHANGED <<trace, runFile, pc, job, snap, stage, session, traced>>
    BY <1>1 DEF StartRun, Edit, CliInspect, allVars, termVars, world, hook, vars
  <2>2. \A t \in Terminals : HoldOf(t)'
    BY <2>1 DEF HoldInv, HoldOf, Live
  <2> QED BY <2>1, <2>2 DEF HoldInv
<1>2. ASSUME NEW t \in Terminals, Terminal(t) PROVE HoldInv'
  BY <1>2, HookHold, OpenHold DEF Terminal
<1> QED BY <1>1, <1>2, OpenHold, SectionHold DEF TermNext

\* With one terminal, no reader sees an active run after a mutation: not
\* where the transition relies on an intent that was found before the
\* repository was inspected, and not after a crash inside a section.
THEOREM HoldsGate ==
  ASSUME OneTerminal PROVE TermSpec => []MutationHoldsGate
<1>1. HoldInv /\ IInv => MutationHoldsGate
  BY ReconciledHeld DEF HoldInv, IInv, TypeOK, MutationHoldsGate
<1>2. TermInit => ZeroExitInv /\ HoldInv
  BY InitZeroExit, InitHold
<1>3. IInv /\ TermInv /\ (ZeroExitInv /\ HoldInv) /\ [TermNext]_allVars
        => (ZeroExitInv /\ HoldInv)'
  BY ZeroExitKept, HoldKept
<1> QED BY <1>1, <1>2, <1>3, TermAndStore, PTL DEF TermSpec

-----------------------------------------------------------------------------
(* One terminal and no failing helper: the two surfaces agree, a passing   *)
(* check clears the run, and completion relies on the content there is.    *)

\* Where no helper fails the store is readable, and a helper has no reason to.
LEMMA NeverUnreadable ==
  ASSUME IInv, SyncInv, MayFail = FALSE, NEW t \in Terminals
  PROVE  Readable /\ ~HelperFails(t) /\ ~Damage(t)
<1>1. Readable
  BY DEF IInv, FileNotAhead, SyncInv, InStep, Readable
<1> QED BY <1>1 DEF HelperFails, Damage

\* The initial state.
LEMMA InitSync == ASSUME TermInit PROVE SyncInv
<1>1. trace = <<[seq |-> 1, input |-> Input("run_started", TRUE, "none", NoCmd, NoRepo)]>>
  BY DEF TermInit, Init
<1>2. DOMAIN trace = {1} /\ trace[1].input.type = "run_started" /\ Len(trace) = 1
  BY <1>1 DEF Input
<1>3. ~Uncovered(trace) /\ ~Ends(trace) /\ ~RunWasTold
  BY <1>2 DEF Uncovered, Ends, IsMutationBoundary, RunWasTold
<1>4. /\ \A i \in DOMAIN trace : ~IsPassing(trace[i].input)
      /\ \A i \in DOMAIN trace : trace[i].input.type # "command_completed"
  BY <1>2 DEF IsPassing
<1>5. \A q \in Procs : pc[q] = "idle"
  BY DEF TermInit, Init
<1>6. Cli \in Procs /\ \A t \in Terminals : t \in Procs
  BY TerminalsAssumption
<1>7. InStep /\ Unopened
  <2>1. Agrees(runFile.status)
    BY <1>3 DEF Agrees, TermInit, Init
  <2>2. /\ tail = "clean" /\ runFile.next = Len(trace) + 1 /\ cliRepo = NoRepo
        /\ \A t \in Terminals : stage[t] = "prompt"
    BY <1>2 DEF TermInit, Init
  <2> QED BY <1>2, <1>5, <1>6, <2>1, <2>2 DEF InStep, Unopened
<1>8. PassingKnown /\ ReadContent
  BY <1>4 DEF PassingKnown, ReadContent, LastPassing
<1>9. ASSUME NEW t \in Terminals PROVE SyncOf(t)
  <2>1. stage[t] = "prompt" /\ pc[t] = "idle" /\ session[t].pending = NoCommand
    BY <1>5, <1>6 DEF TermInit
  <2>2. GateOf(t)
    BY <1>3, <2>1 DEF GateOf, Ahead, Mutating, Checked, OnItsWay, Coupled
  <2> QED BY <1>4, <2>1, <2>2 DEF SyncOf, Placed, ReadBy, ClearedBy, LastCompleted
<1> QED BY <1>7, <1>8, <1>9 DEF SyncInv

\* What a step that leaves the trace alone keeps.
LEMMA TraceAlone ==
  ASSUME trace' = trace
  PROVE  /\ Uncovered(trace') = Uncovered(trace) /\ Ends(trace') = Ends(trace)
         /\ RunWasTold' = RunWasTold
         /\ \A i : LastPassing(i)' <=> LastPassing(i)
         /\ \A i : LastCompleted(i)' <=> LastCompleted(i)
<1>1. \A i : LastPassing(i)' <=> LastPassing(i)
  BY DEF LastPassing
<1>2. \A i : LastCompleted(i)' <=> LastCompleted(i)
  BY DEF LastCompleted
<1>3. RunWasTold' = RunWasTold
  BY DEF RunWasTold
<1> QED BY <1>1, <1>2, <1>3

\* And a step that leaves the store alone as well.
LEMMA StoreAlone ==
  ASSUME SyncInv, UNCHANGED vars, started \in Nat, started' \in Nat, started' >= started,
         Commands \subseteq Nat
  PROVE  InStep' /\ PassingKnown'
<1>1. trace' = trace /\ UNCHANGED <<tail, runFile, lock, pc, job, snap>>
  BY DEF vars
<1>2. InStep'
  BY <1>1 DEF SyncInv, InStep, Agrees
<1>3. PassingKnown'
  <2> SUFFICES ASSUME NEW i \in DOMAIN trace, IsPassing(trace[i].input)
               PROVE  /\ RunWasTold' /\ trace[i].input.repo \in Repos
                      /\ trace[i].input.cmd \in Commands /\ trace[i].input.cmd <= started'
                      /\ \E k \in DOMAIN trace : LastPassing(k)'
    BY <1>1 DEF PassingKnown
  <2>1. /\ RunWasTold /\ trace[i].input.repo \in Repos
        /\ trace[i].input.cmd \in Commands /\ trace[i].input.cmd <= started
        /\ \E k \in DOMAIN trace : LastPassing(k)
    BY DEF SyncInv, PassingKnown
  <2>2. \A n \in Nat : n <= started => n <= started'
    OBVIOUS
  <2> QED BY <1>1, <2>1, <2>2, TraceAlone
<1> QED BY <1>2, <1>3

\* An active run is read as it is.
LEMMA ReadInStep ==
  ASSUME IInv, SyncInv, NEW p \in Procs, ReadsOpenRun(p) \/ ReadsNoRun(p)
  PROVE  UNCHANGED vars /\ (ReadsNoRun(p) => ~opened \/ Ends(trace))
<1>1. ASSUME ReadRun(p)
      PROVE  /\ UNCHANGED vars
             /\ Reconciled(runFile, trace).status \in Closed => Ends(trace)
  <2>1. /\ runFile' = Reconciled(runFile, trace) /\ lock = NoProc
        /\ UNCHANGED <<trace, tail, lock, pc, job, snap>>
    BY <1>1 DEF ReadRun
  <2>2. runFile.next = Len(trace) + 1 /\ Agrees(runFile.status)
    BY <2>1 DEF SyncInv, InStep
  <2>3. Reconciled(runFile, trace) = runFile
    BY <2>2 DEF Reconciled
  <2> QED BY <2>1, <2>2, <2>3 DEF Agrees, Closed, vars
<1> QED BY <1>1 DEF ReadsOpenRun, ReadsNoRun

\* A run that was not opened, or that has ended, asks nothing of the gate.
LEMMA NothingTold ==
  ASSUME SyncInv, ~opened
  PROVE  /\ ~Uncovered(trace) /\ ~RunWasTold
         /\ \A i : ~LastCompleted(i) /\ ~LastPassing(i)
<1>1. \A i \in DOMAIN trace : trace[i].input.type = "run_started"
  BY DEF SyncInv, Unopened
<1> QED BY <1>1 DEF Uncovered, IsMutationBoundary, RunWasTold, LastCompleted, LastPassing,
                    IsPassing

\* An edit by no command is hidden: what was read is read.
LEMMA EditSync ==
  ASSUME TermInv, SyncInv, Edit
  PROVE  SyncInv'
<1>1. /\ UNCHANGED vars /\ content' = content + 1 /\ hidden' = hidden \cup {content + 1}
      /\ UNCHANGED <<opened, started, seen, passed, stage, cmd, exit, session, traced,
                     matched, provenance, cliRepo>>
  BY DEF Edit, hook
<1>2. trace' = trace /\ UNCHANGED <<tail, runFile, lock, pc, job, snap>>
  BY <1>1 DEF vars
<1>3. \A c \in Commands : ReadAll(c) => ReadAll(c)'
  <2> SUFFICES ASSUME NEW c \in Commands, (seen[c] + 1)..content \subseteq hidden
               PROVE  (seen[c] + 1)..(content + 1) \subseteq hidden \cup {content + 1}
    BY <1>1 DEF ReadAll
  <2>1. seen[c] \in Nat /\ content \in Nat
    BY MaxContentAssumption DEF TermInv
  <2> QED BY <2>1
<1>4. started \in Nat /\ Commands \subseteq Nat
  BY CommandNumbers
<1>5. InStep' /\ PassingKnown' /\ Unopened'
  BY <1>1, <1>2, <1>4, StoreAlone DEF SyncInv, Unopened
<1>6. ReadContent'
  BY <1>2, <1>3, TraceAlone DEF SyncInv, ReadContent, PassingKnown, LastPassing
<1>7. ASSUME NEW t \in Terminals PROVE SyncOf(t)'
  <2>1. Placed(t) /\ (~Ends(trace) => GateOf(t)) /\ ReadBy(t) /\ ClearedBy(t)
    BY DEF SyncInv, SyncOf
  <2>2. Placed(t)'
    BY <1>1, <1>2, <2>1, TraceAlone DEF Placed, Inspected
  <2>3. ~Ends(trace) => GateOf(t)'
    BY <1>1, <1>2, <2>1, TraceAlone
       DEF GateOf, Ahead, Mutating, Checked, OnItsWay, KindOf, OkOf, Coupled
  <2>4. started \in Commands \/ (stage[t] = "prompt" /\ pc[t] # "entered")
    <3>1. CASE stage[t] # "prompt"
      BY <2>1, <3>1, CommandNumbers DEF Placed, TermInv
    <3>2. CASE stage[t] = "prompt" /\ pc[t] = "entered"
      BY <2>1, <3>2 DEF Placed
    <3> QED BY <3>1, <3>2
  <2>5. ReadBy(t)'
    BY <1>1, <1>2, <1>3, <2>1, <2>4 DEF ReadBy
  <2>6. ClearedBy(t)'
    BY <1>1, <1>2, <2>1, TraceAlone DEF ClearedBy
  <2> QED BY <1>2, <2>2, <2>3, <2>5, <2>6, TraceAlone DEF SyncOf
<1> QED BY <1>5, <1>6, <1>7 DEF SyncInv

\* Steps of the hooks that find the store in step, and leave it alone.
LEMMA HookSync ==
  ASSUME IInv, TermInv, SyncInv, OneTerminal, MayFail = FALSE, NEW t \in Terminals,
         \/ \E kind \in Kinds : StartCommand(t, kind)
         \/ \E ok, changes \in BOOLEAN : Execute(t, ok, changes)
         \/ Preexec(t) \/ Locate(t) \/ Postexec(t) \/ LookUp(t) \/ Inspect(t)
  PROVE  SyncInv'
<1>1. UNCHANGED vars
  BY ReadInStep, TerminalsAssumption
     DEF StartCommand, Execute, Preexec, Locate, Postexec, LookUp, Inspect
<1>2. trace' = trace /\ pc' = pc /\ job' = job
  BY <1>1 DEF vars
<1>3. /\ Commands \subseteq Nat /\ started \in Nat /\ started' \in Nat /\ started' >= started
      /\ (started' # started => \E kind \in Kinds : StartCommand(t, kind))
      /\ UNCHANGED <<opened, cliRepo, hidden>>
  BY CommandNumbers DEF StartCommand, Execute, Preexec, Locate, Postexec, LookUp, Inspect, world
<1>4. /\ InStep' /\ PassingKnown'
      /\ Uncovered(trace') = Uncovered(trace) /\ Ends(trace') = Ends(trace)
      /\ RunWasTold' = RunWasTold
      /\ \A i : LastPassing(i)' <=> LastPassing(i)
      /\ \A i : LastCompleted(i)' <=> LastCompleted(i)
  BY <1>1, <1>2, <1>3, StoreAlone, TraceAlone
<1>5. /\ Placed(t) /\ (~Ends(trace) => GateOf(t)) /\ ReadBy(t) /\ ClearedBy(t)
      /\ ReadContent /\ PassingKnown /\ Unopened
  BY DEF SyncInv, SyncOf
<1>6. Unopened'
  <2>1. ASSUME ~opened PROVE \A u \in Terminals : stage'[u] \notin {"intent", "inspect", "record"}
    BY <1>5, <2>1 DEF Unopened, StartCommand, Execute, Preexec, Locate, Postexec, LookUp, Inspect,
                      ReadsOpenRun, HookEnds, Goto, TermInv
  <2> QED BY <1>2, <1>3, <1>5, <2>1 DEF Unopened
<1>7. SUFFICES ReadContent' /\ SyncOf(t)'
  BY <1>4, <1>6 DEF SyncInv, OneTerminal
<1>8. ASSUME content' = content, seen' = seen PROVE ReadContent'
  BY <1>2, <1>3, <1>4, <1>5, <1>8 DEF ReadContent, ReadAll
<1>9. CASE \E kind \in Kinds : StartCommand(t, kind)
  <2>1. /\ stage[t] = "prompt" /\ pc[t] = "idle" /\ stage'[t] = "preexec"
        /\ started' = started + 1 /\ cmd'[t].id = started + 1
        /\ session' = session /\ seen' = seen /\ content' = content
    BY <1>9 DEF StartCommand, Goto, TermInv, hook
  <2>2. Placed(t)'
    BY <1>2, <1>5, <2>1 DEF Placed
  <2>3. ~Ends(trace) => GateOf(t)'
    BY <1>2, <1>4, <1>5, <2>1 DEF GateOf, Ahead, Mutating, Checked, OnItsWay, Coupled
  <2>4. ReadBy(t)'
    <3>1. \A n \in Nat : n <= started => n < started + 1
      BY <1>3
    <3>2. \A i \in DOMAIN trace : IsPassing(trace[i].input) => trace[i].input.cmd < started'
      BY <1>3, <1>5, <2>1, <3>1 DEF PassingKnown
    <3> QED BY <1>2, <2>1, <3>2 DEF ReadBy
  <2>5. ClearedBy(t)'
    BY <2>1 DEF ClearedBy
  <2> QED BY <1>4, <1>8, <2>1, <2>2, <2>3, <2>4, <2>5 DEF SyncOf
<1>10. ASSUME NEW ok \in BOOLEAN, NEW changes \in BOOLEAN, Execute(t, ok, changes)
       PROVE  ReadContent' /\ SyncOf(t)'
  <2>1. /\ stage[t] = "running" /\ pc[t] = "idle" /\ stage'[t] = "ran" /\ exit'[t] = ok
        /\ started' = started /\ cmd' = cmd /\ session' = session
        /\ content' = (IF changes THEN content + 1 ELSE content)
        /\ changes => cmd[t].kind = "mutation"
        /\ seen' = IF cmd[t].kind = "verification"
                     THEN [seen EXCEPT ![cmd[t].id] = content] ELSE seen
    BY <1>10 DEF Execute, Goto, TermInv, hook
  <2>2. cmd[t].id = started /\ started \in Commands
    BY <1>5, <2>1, CommandNumbers DEF Placed, TermInv
  <2>3. cmd[t].kind = "verification" => ReadAll(started)'
    <3> SUFFICES ASSUME cmd[t].kind = "verification" PROVE (seen'[started] + 1)..content' \subseteq hidden'
      BY <1>3, <2>1 DEF ReadAll
    <3>1. seen'[started] = content /\ content' = content /\ content \in Nat
      BY <2>1, <2>2, MaxContentAssumption DEF TermInv
    <3> QED BY <3>1
  <2>4. ReadContent'
    <3> SUFFICES ASSUME ~Ends(trace), ~Uncovered(trace), NEW i \in DOMAIN trace, LastPassing(i)
                 PROVE  ReadAll(trace[i].input.cmd)'
      BY <1>2, <1>4 DEF ReadContent
    <3>1. RunWasTold /\ trace[i].input.cmd < started /\ trace[i].input.cmd \in Commands
      BY <1>5, <2>1 DEF ReadBy, LastPassing, PassingKnown
    <3>2. cmd[t].kind # "mutation"
      BY <1>5, <2>1, <3>1 DEF GateOf, Ahead, Mutating, Checked, OnItsWay, KindOf, Coupled
    <3>3. trace[i].input.cmd # started
      BY <1>3, <3>1
    <3>4. ReadAll(trace[i].input.cmd)
      BY <1>5 DEF ReadContent
    <3>5. seen'[trace[i].input.cmd] = seen[trace[i].input.cmd]
      BY <2>1, <2>2, <3>1, <3>3 DEF TermInv
    <3> QED BY <1>2, <1>3, <2>1, <3>2, <3>4, <3>5 DEF ReadAll
  <2>5. Placed(t)'
    BY <1>2, <1>5, <2>1 DEF Placed
  <2>6. ~Ends(trace) => GateOf(t)'
    BY <1>2, <1>4, <1>5, <2>1 DEF GateOf, Ahead, Mutating, Checked, OnItsWay, KindOf, Coupled
  <2>7. ReadBy(t)'
    BY <1>2, <1>5, <2>1, <2>3 DEF ReadBy
  <2>8. ClearedBy(t)'
    BY <2>1 DEF ClearedBy
  <2> QED BY <1>4, <2>4, <2>5, <2>6, <2>7, <2>8 DEF SyncOf
<1>11. CASE Preexec(t)
  <2>1. /\ stage[t] = "preexec" /\ pc[t] = "idle"
        /\ stage'[t] = IF cmd[t].kind = "mutation" THEN "locate" ELSE "running"
        /\ started' = started /\ cmd' = cmd /\ seen' = seen /\ content' = content
        /\ session'[t].gate = (session[t].gate \/ cmd[t].kind = "mutation")
        /\ session'[t].pending = cmd[t]
    BY <1>5, <1>11, CommandNumbers DEF Preexec, Goto, TermInv, SessionRecord, Placed, world
  <2>2. Placed(t)'
    BY <1>2, <1>5, <2>1 DEF Placed
  <2>3. ~Ends(trace) => GateOf(t)'
    <3>1. ~Ends(trace) => Coupled(t)
      BY <1>5, <2>1 DEF GateOf, Ahead, Checked, OnItsWay
    <3>2. CASE cmd[t].kind = "mutation"
      BY <2>1, <3>2 DEF GateOf, Ahead, Checked, OnItsWay
    <3>3. CASE cmd[t].kind # "mutation"
      <4>1. stage'[t] = "running" /\ session'[t].gate = session[t].gate
        BY <2>1, <3>3, CommandNumbers DEF SessionRecord
      <4> QED BY <1>2, <1>4, <2>1, <3>1, <3>3, <4>1
              DEF GateOf, Ahead, Mutating, Checked, OnItsWay, KindOf, Coupled
    <3> QED BY <3>2, <3>3
  <2>4. ReadBy(t)'
    BY <1>2, <1>5, <2>1 DEF ReadBy
  <2>5. ClearedBy(t)'
    BY <2>1 DEF ClearedBy
  <2> QED BY <1>4, <1>8, <2>1, <2>2, <2>3, <2>4, <2>5 DEF SyncOf
<1>12. CASE Locate(t)
  <2>1. /\ stage[t] = "locate" /\ pc[t] = "idle" /\ stage'[t] \in {"intent", "running"}
        /\ stage'[t] = "running" => ~opened \/ Ends(trace)
        /\ UNCHANGED <<started, content, seen, cmd, session>>
    BY <1>5, <1>12, ReadInStep, TerminalsAssumption
       DEF Locate, Goto, TermInv, Placed, world, hook
  <2>2. Placed(t)'
    BY <1>2, <1>5, <2>1 DEF Placed
  <2>3. ~Ends(trace) => GateOf(t)'
    <3>1. CASE stage'[t] = "intent"
      BY <1>5, <2>1, <3>1 DEF GateOf, Ahead, Checked, OnItsWay
    <3>2. CASE stage'[t] = "running" /\ ~opened
      BY <1>2, <1>4, <1>5, <2>1, <3>2, NothingTold
         DEF GateOf, Ahead, Mutating, Checked, OnItsWay, Coupled
    <3> QED BY <2>1, <3>1, <3>2
  <2>4. ReadBy(t)'
    BY <1>2, <1>5, <2>1 DEF ReadBy
  <2>5. ClearedBy(t)'
    BY <2>1 DEF ClearedBy
  <2> QED BY <1>4, <1>8, <2>1, <2>2, <2>3, <2>4, <2>5 DEF SyncOf
<1>13. CASE Postexec(t)
  <2>1. /\ stage[t] = "ran" /\ pc[t] = "idle" /\ cmd[t] \in Command
        /\ session[t].pending = cmd[t] /\ cmd[t] # NoCommand
    BY <1>5, <1>13, CommandNumbers DEF Postexec, Placed, TermInv
  <2>2. /\ stage'[t] = "lookup" /\ traced'[t] = cmd[t]
        /\ session'[t].gate = GateAfter(session[t], exit[t])
        /\ session'[t].pending = NoCommand
        /\ started' = started /\ cmd' = cmd /\ exit' = exit /\ seen' = seen /\ content' = content
    BY <1>13, <2>1 DEF Postexec, Goto, TermInv, world
  <2>3. Placed(t)'
    BY <1>2, <1>5, <2>1, <2>2 DEF Placed
  <2>4. ~Ends(trace) => GateOf(t)'
    <3>1. ~Ends(trace) => Coupled(t) /\ (cmd[t].kind = "mutation" => session[t].gate)
      BY <1>5, <2>1 DEF GateOf, Ahead, Mutating, Checked, OnItsWay, KindOf
    <3>2. /\ cmd[t].kind = "mutation" => session'[t].gate = TRUE
          /\ cmd[t].kind = "verification" /\ exit[t] => session'[t].gate = FALSE
          /\ cmd[t].kind # "mutation" /\ ~(cmd[t].kind = "verification" /\ exit[t]) =>
               session'[t].gate = session[t].gate
      BY <2>1, <2>2 DEF GateAfter
    <3> QED BY <1>2, <1>4, <2>2, <3>1, <3>2
            DEF GateOf, Ahead, Mutating, Checked, OnItsWay, KindOf, OkOf, Coupled
  <2>5. ReadBy(t)'
    BY <1>2, <1>3, <1>5, <2>1, <2>2 DEF ReadBy, ReadAll
  <2>6. ClearedBy(t)'
    BY <2>2 DEF ClearedBy
  <2> QED BY <1>4, <1>8, <2>2, <2>3, <2>4, <2>5, <2>6 DEF SyncOf
<1>14. CASE LookUp(t)
  <2>1. /\ stage[t] = "lookup" /\ pc[t] = "idle" /\ stage'[t] \in {"inspect", "prompt"}
        /\ stage'[t] = "prompt" => ~opened \/ Ends(trace)
        /\ stage'[t] = "inspect" => traced' = traced
        /\ UNCHANGED <<started, content, seen, cmd, exit, session>>
    BY <1>5, <1>14, ReadInStep, TerminalsAssumption
       DEF LookUp, HookEnds, Goto, TermInv, Placed, world
  <2>2. Placed(t)'
    BY <1>2, <1>5, <2>1 DEF Placed
  <2>3. ~Ends(trace) => GateOf(t)'
    <3>1. CASE stage'[t] = "inspect"
      BY <1>2, <1>4, <1>5, <2>1, <3>1
         DEF GateOf, Ahead, Mutating, Checked, OnItsWay, KindOf, OkOf, Coupled
    <3>2. CASE stage'[t] = "prompt" /\ ~opened
      BY <1>2, <1>4, <2>1, <3>2, NothingTold
         DEF GateOf, Ahead, Mutating, Checked, OnItsWay, Coupled
    <3> QED BY <2>1, <3>1, <3>2
  <2>4. ReadBy(t)'
    BY <1>2, <1>3, <1>5, <2>1 DEF ReadBy, ReadAll
  <2>5. ClearedBy(t)'
    BY <1>2, <1>4, <2>1, NothingTold DEF ClearedBy
  <2> QED BY <1>4, <1>8, <2>1, <2>2, <2>3, <2>4, <2>5 DEF SyncOf
<1>15. CASE Inspect(t)
  <2>1. /\ stage[t] = "inspect" /\ stage'[t] = "record"
        /\ Inspected(t) => provenance'[t] \in Repos
        /\ UNCHANGED <<started, content, cmd, exit, session, traced, seen>>
    BY <1>15, FingerprintAssumption DEF Inspect, Goto, TermInv, world
  <2>2. Placed(t)'
    BY <1>2, <1>5, <2>1 DEF Placed, Inspected
  <2>3. ~Ends(trace) => GateOf(t)'
    BY <1>2, <1>4, <1>5, <2>1
       DEF GateOf, Ahead, Mutating, Checked, OnItsWay, KindOf, OkOf, Coupled
  <2>4. ReadBy(t)'
    BY <1>2, <1>3, <1>5, <2>1 DEF ReadBy, ReadAll
  <2>5. ClearedBy(t)'
    BY <2>1 DEF ClearedBy
  <2> QED BY <1>4, <1>8, <2>1, <2>2, <2>3, <2>4, <2>5 DEF SyncOf
<1> QED BY <1>9, <1>10, <1>11, <1>12, <1>13, <1>14, <1>15

\* Opening a section finds run.json in step, so that it stays as it is.
LEMMA EnterInStep ==
  ASSUME IInv, SyncInv, NEW p \in Procs, NEW j \in Jobs, Enter(p, j),
         p = Cli => j.op = "complete"
  PROVE  /\ InStep'
         /\ trace' = trace /\ pc[p] = "idle"
         /\ pc' = [pc EXCEPT ![p] = "entered"] /\ job' = [job EXCEPT ![p] = j]
<1>1. /\ pc[p] = "idle" /\ lock = NoProc /\ lock' = p
      /\ runFile' = Reconciled(runFile, trace)
      /\ snap' = [snap EXCEPT ![p] = Reconciled(runFile, trace)]
      /\ job' = [job EXCEPT ![p] = j] /\ pc' = [pc EXCEPT ![p] = "entered"]
      /\ trace' = trace /\ tail' = tail
  BY DEF Enter
<1>2. tail = "clean" /\ runFile.next = Len(trace) + 1 /\ Agrees(runFile.status)
  BY <1>1 DEF SyncInv, InStep
<1>3. Reconciled(runFile, trace) = runFile
  BY <1>2 DEF Reconciled
<1>4. /\ pc \in [Procs -> {"idle", "entered", "appended", "completing"}]
      /\ job \in [Procs -> Jobs] /\ snap \in [Procs -> RunRecord] /\ lock' # NoProc
  BY <1>1, NoProcAssumption DEF IInv, TypeOK
<1>5. \A q \in Procs : pc'[q] # "idle" => Agrees(snap'[q].status)
  BY <1>1, <1>2, <1>3, <1>4 DEF SyncInv, InStep
<1>6. pc'[Cli] # "idle" => job'[Cli].op = "complete"
  BY <1>1, <1>4, TerminalsAssumption DEF SyncInv, InStep
<1> QED BY <1>1, <1>2, <1>4, <1>5, <1>6 DEF InStep, Agrees

\* Opening a section.
LEMMA OpenSync ==
  ASSUME IInv, TermInv, SyncInv, OneTerminal, MayFail = FALSE,
         CliComplete \/ \E t \in Terminals : RecordIntent(t) \/ RecordTransition(t)
  PROVE  SyncInv'
<1>1. /\ trace' = trace
      /\ UNCHANGED <<opened, started, content, hidden, cmd, exit, session, seen>>
  BY DEF CliComplete, RecordIntent, RecordTransition, Enter, world, hook
<1>2. /\ Uncovered(trace') = Uncovered(trace) /\ Ends(trace') = Ends(trace)
      /\ RunWasTold' = RunWasTold
      /\ \A i : LastPassing(i)' <=> LastPassing(i)
      /\ \A i : LastCompleted(i)' <=> LastCompleted(i)
  BY <1>1, TraceAlone
<1>2a. PassingKnown' /\ ReadContent'
  BY <1>1, <1>2 DEF SyncInv, PassingKnown, ReadContent, ReadAll
<1>3. \A u \in Terminals : /\ Placed(u) /\ (~Ends(trace) => GateOf(u))
                           /\ ReadBy(u) /\ ClearedBy(u)
  BY DEF SyncInv, SyncOf
<1>4. /\ pc \in [Procs -> {"idle", "entered", "appended", "completing"}] /\ job \in [Procs -> Jobs]
      /\ Cli \in Procs /\ \A t \in Terminals : t \in Procs /\ t # Cli
  BY TerminalsAssumption DEF IInv, TypeOK
<1>4a. opened /\ Unopened'
  BY <1>1 DEF SyncInv, Unopened, CliComplete, RecordIntent, RecordTransition
<1>5. CASE CliComplete
  <2>1. /\ cliRepo \in Repos /\ Enter(Cli, CompleteJob(cliRepo))
        /\ stage' = stage /\ traced' = traced /\ provenance' = provenance
    BY <1>5 DEF CliComplete, TermInv, hook
  <2>2. CompleteJob(cliRepo) \in Jobs /\ CompleteJob(cliRepo).op = "complete"
    BY <2>1, JobType DEF CompleteJob, NoJob
  <2>3. /\ InStep' /\ pc' = [pc EXCEPT ![Cli] = "entered"]
        /\ job' = [job EXCEPT ![Cli] = CompleteJob(cliRepo)]
    BY <1>4, <2>1, <2>2, EnterInStep
  <2>4. \A u \in Terminals : pc'[u] = pc[u] /\ job'[u] = job[u]
    BY <1>4, <2>3
  <2>5. ASSUME NEW u \in Terminals PROVE SyncOf(u)'
    <3>1. Placed(u)'
      BY <1>1, <1>2, <1>3, <2>1, <2>4 DEF Placed, Inspected
    <3>2. ~Ends(trace) => GateOf(u)'
      BY <1>1, <1>2, <1>3, <2>1, <2>4
         DEF GateOf, Ahead, Mutating, Checked, OnItsWay, KindOf, OkOf, Coupled
    <3>3. ReadBy(u)' /\ ClearedBy(u)'
      BY <1>1, <1>2, <1>3, <2>1, <2>4 DEF ReadBy, ReadAll, ClearedBy
    <3> QED BY <1>2, <3>1, <3>2, <3>3 DEF SyncOf
  <2> QED BY <1>2a, <1>4a, <2>3, <2>5 DEF SyncInv
<1>6. ASSUME NEW t \in Terminals, RecordIntent(t) PROVE SyncInv'
  <2>1. /\ stage[t] = "intent" /\ stage'[t] = "running"
        /\ cmd[t] \in Command /\ cmd[t].id \in Commands
        /\ Enter(t, IntentJob(cmd[t].id))
    BY <1>6, CommandNumbers DEF RecordIntent, Goto, TermInv
  <2>2. IntentJob(cmd[t].id) \in Jobs /\ IntentJob(cmd[t].id).op = "intent"
    BY <2>1, JobType DEF IntentJob, NoJob
  <2>3. /\ InStep' /\ pc' = [pc EXCEPT ![t] = "entered"]
        /\ job' = [job EXCEPT ![t] = IntentJob(cmd[t].id)]
    BY <1>4, <2>1, <2>2, EnterInStep
  <2>4. pc'[t] = "entered" /\ job'[t].op = "intent" /\ cmd[t].kind = "mutation"
    BY <1>3, <1>4, <2>1, <2>2, <2>3 DEF Placed
  <2>5. Placed(t)'
    BY <1>1, <1>3, <2>1, <2>4 DEF Placed
  <2>6. ~Ends(trace) => GateOf(t)'
    BY <1>1, <1>2, <1>3, <2>1, <2>4 DEF GateOf, Ahead, Checked, OnItsWay
  <2>7. ReadBy(t)' /\ ClearedBy(t)'
    BY <1>1, <1>2, <1>3, <2>1, <2>4 DEF ReadBy, ClearedBy
  <2> QED BY <1>2, <1>2a, <1>4a, <2>3, <2>5, <2>6, <2>7 DEF SyncInv, SyncOf, OneTerminal
<1>7. ASSUME NEW t \in Terminals, RecordTransition(t) PROVE SyncInv'
  <2> DEFINE j == TransitionJob(traced[t].kind, traced[t].id, exit[t], matched[t], provenance[t])
  <2>1. /\ stage[t] = "record" /\ stage'[t] = "prompt" /\ pc[t] = "idle"
        /\ cmd[t] \in Command /\ cmd[t].id \in Commands /\ cmd[t].kind \in Kinds
        /\ Enter(t, j) /\ session' = session
    BY <1>7, CommandNumbers DEF RecordTransition, Enter, HookEnds, Goto, TermInv
  <2>2. /\ traced[t] = cmd[t] /\ cmd[t].id = started /\ session[t].pending = NoCommand
        /\ Inspected(t) => provenance[t] \in Repos
    BY <1>3, <2>1 DEF Placed
  <2>3. /\ j.op = "transition" /\ j.kind = cmd[t].kind /\ j.ok = exit[t]
        /\ j.cmd = started /\ j.matched = matched[t]
        /\ j.kind = "verification" /\ j.ok => j.repo \in Repos
    BY <2>2 DEF TransitionJob, NoJob, Inspected
  <2>4. j \in Jobs
    <3>1. matched[t] \in BOOLEAN /\ provenance[t] \in Repos \cup {NoRepo} /\ exit[t] \in BOOLEAN
      BY DEF TermInv
    <3> QED BY <2>1, <2>2, <3>1, JobType
  <2>4a. j.matched => RunWasTold
    BY <2>3 DEF TermInv, HasIntent, RunWasTold
  <2> HIDE DEF j
  <2>5. InStep' /\ pc' = [pc EXCEPT ![t] = "entered"] /\ job' = [job EXCEPT ![t] = j]
    BY <1>4, <2>1, <2>4, EnterInStep
  <2>6. pc'[t] = "entered" /\ job'[t] = j
    BY <1>4, <2>5
  <2>7. Placed(t)'
    BY <1>1, <1>2, <2>1, <2>2, <2>3, <2>4a, <2>6 DEF Placed
  <2>8. ~Ends(trace) => GateOf(t)'
    BY <1>1, <1>2, <1>3, <2>1, <2>3, <2>6
       DEF GateOf, Ahead, Mutating, Checked, OnItsWay, KindOf, OkOf, Coupled
  <2>9. ReadBy(t)' /\ ClearedBy(t)'
    BY <1>1, <1>2, <1>3, <2>1, <2>3, <2>6 DEF ReadBy, ReadAll, ClearedBy
  <2> QED BY <1>2, <1>2a, <1>4a, <2>5, <2>7, <2>8, <2>9 DEF SyncInv, SyncOf, OneTerminal
<1> QED BY <1>5, <1>6, <1>7

\* A section goes on, or ends, without touching the trace.
LEMMA QuietSync ==
  ASSUME IInv, TermInv, SyncInv, OneTerminal, UNCHANGED termVars, NEW p \in Procs,
         Refuse(p) \/ WriteRun(p) \/ WriteCompletedAt(p)
  PROVE  SyncInv'
<1>1. trace' = trace /\ tail' = tail /\ pc[p] # "idle"
  BY DEF Refuse, WriteRun, WriteCompletedAt
<1>2. UNCHANGED <<opened, started, content, hidden, stage, cmd, exit, session, traced,
                  provenance, seen>>
  BY DEF termVars, world, hook
<1>3. /\ Uncovered(trace') = Uncovered(trace) /\ Ends(trace') = Ends(trace)
      /\ RunWasTold' = RunWasTold
      /\ \A i : LastPassing(i)' <=> LastPassing(i)
      /\ \A i : LastCompleted(i)' <=> LastCompleted(i)
  BY <1>1, TraceAlone
<1>3a. PassingKnown' /\ ReadContent'
  BY <1>1, <1>2, <1>3 DEF SyncInv, PassingKnown, ReadContent, ReadAll
<1>3b. Unopened'
  BY <1>1, <1>2 DEF SyncInv, Unopened
<1>4. /\ pc \in [Procs -> {"idle", "entered", "appended", "completing"}] /\ job \in [Procs -> Jobs]
      /\ snap \in [Procs -> RunRecord]
      /\ Cli \in Procs /\ \A t \in Terminals : t \in Procs /\ t # Cli
  BY TerminalsAssumption DEF IInv, TypeOK
<1>5. /\ snap[p].next = Len(trace) + 1 /\ Agrees(snap[p].status) /\ lock = p
      /\ pc[p] = "entered" => snap[p] = runFile
      /\ snap[p] \in RunRecord
  BY <1>1, <1>4 DEF IInv, SectionInv, SyncInv, InStep
<1>6. ASSUME NEW t \in Terminals PROVE job[t].op # "complete"
                                       \/ pc[t] = "idle"
  BY DEF SyncInv, SyncOf, Placed
<1>7. ASSUME WriteRun(p), job[p].op = "complete"
      PROVE  /\ p = Cli /\ pc' = [pc EXCEPT ![p] = "completing"]
             /\ UNCHANGED <<lock, job, snap>>
  BY <1>1, <1>6, <1>7, TerminalsAssumption DEF WriteRun
<1>8. \/ Leave(p) /\ runFile'.next = Len(trace) + 1 /\ runFile'.status = snap[p].status
      \/ /\ p = Cli /\ pc' = [pc EXCEPT ![p] = "completing"]
         /\ UNCHANGED <<lock, job, snap>>
  <2>1. CASE Refuse(p)
    BY <1>5, <2>1 DEF Refuse
  <2>2. CASE WriteRun(p)
    BY <1>5, <1>7, <2>2 DEF WriteRun
  <2>3. CASE WriteCompletedAt(p)
    <3>1. runFile' = [snap[p] EXCEPT !.finished = TRUE] /\ Leave(p)
      BY <2>3 DEF WriteCompletedAt
    <3>2. runFile'.next = snap[p].next /\ runFile'.status = snap[p].status
      BY <1>5, <3>1 DEF RunRecord
    <3> QED BY <1>5, <3>1, <3>2
  <2> QED BY <2>1, <2>2, <2>3
<1>9. InStep'
  <2>1. CASE Leave(p) /\ runFile'.next = Len(trace) + 1 /\ runFile'.status = snap[p].status
    <3>1. \A q \in Procs : pc'[q] = "idle"
      BY <1>1, <1>4, <2>1, Alone DEF Leave
    <3> QED BY <1>1, <1>3, <1>4, <1>5, <2>1, <3>1 DEF InStep, Agrees, SyncInv
  <2>2. CASE /\ p = Cli /\ pc' = [pc EXCEPT ![p] = "completing"]
             /\ UNCHANGED <<lock, job, snap>>
    <3>1. lock' # NoProc
      BY <1>5, <2>2, NoProcAssumption
    <3>2. \A q \in Procs : pc'[q] # "idle" => pc[q] # "idle"
      BY <1>1, <1>4, <2>2
    <3> QED BY <1>1, <1>3, <1>4, <2>2, <3>1, <3>2 DEF InStep, Agrees, SyncInv
  <2> QED BY <1>8, <2>1, <2>2
<1>10. ASSUME NEW t \in Terminals
       PROVE  \/ pc'[t] = pc[t] /\ job'[t] = job[t]
              \/ t = p /\ pc'[t] = "idle"
  BY <1>4, <1>8 DEF Leave
<1>11. ASSUME NEW t \in Terminals, t = p, pc[t] = "entered" PROVE Ends(trace)
  <2>1. job[t].op \in {"intent", "transition"}
    BY <1>11 DEF SyncInv, SyncOf, Placed
  <2>2. Refuse(p) /\ snap[p].status \in Closed
    BY <1>11, <2>1 DEF Refuse, WriteRun, WriteCompletedAt, Admitted
  <2> QED BY <1>5, <2>2 DEF Agrees, Closed
<1>12. ASSUME NEW t \in Terminals PROVE SyncOf(t)'
  <2>1. Placed(t) /\ (~Ends(trace) => GateOf(t)) /\ ReadBy(t) /\ ClearedBy(t)
    BY DEF SyncInv, SyncOf
  <2>2. CASE pc'[t] = pc[t] /\ job'[t] = job[t]
    <3>1. Placed(t)'
      BY <1>2, <1>3, <2>1, <2>2 DEF Placed, Inspected
    <3>2. ~Ends(trace) => GateOf(t)'
      BY <1>2, <1>3, <2>1, <2>2
         DEF GateOf, Ahead, Mutating, Checked, OnItsWay, KindOf, OkOf, Coupled
    <3>3. ReadBy(t)' /\ ClearedBy(t)'
      BY <1>1, <1>2, <1>3, <2>1, <2>2 DEF ReadBy, ReadAll, ClearedBy
    <3> QED BY <1>3, <3>1, <3>2, <3>3 DEF SyncOf
  <2>3. CASE t = p /\ pc'[t] = "idle"
    <3>1. Placed(t)'
      BY <1>2, <2>1, <2>3 DEF Placed, Inspected
    <3>2. stage[t] \in {"running", "prompt"} /\ (~Ends(trace) => pc[t] # "entered")
      BY <1>1, <1>11, <2>1, <2>3 DEF Placed
    <3>3. ~Ends(trace) => GateOf(t)'
      BY <1>2, <1>3, <2>1, <2>3, <3>2
         DEF GateOf, Ahead, Mutating, Checked, OnItsWay, KindOf, OkOf, Coupled
    <3>4. ReadBy(t)' /\ ClearedBy(t)'
      BY <1>1, <1>2, <1>3, <2>1, <2>3, <3>2 DEF ReadBy, ReadAll, ClearedBy
    <3> QED BY <1>3, <3>1, <3>3, <3>4 DEF SyncOf
  <2> QED BY <1>10, <2>2, <2>3
<1> QED BY <1>3a, <1>3b, <1>9, <1>12 DEF SyncInv

\* What a whole batch does to the gate of the run.
LEMMA WholeAppend ==
  ASSUME IInv, NEW p \in Procs, Grows(p, Len(Batch(job[p], snap[p].status)))
  PROVE  LET j == job[p]
             s == snap[p].status
             n == Len(trace)
         IN  /\ ~Ends(trace)
             /\ Ends(trace') <=> j.op = "complete"
             /\ j.op = "intent" \/ RanMutation(j) => Uncovered(trace')
             /\ Clears(j, s) => /\ ~Uncovered(trace') /\ n + 2 \in DOMAIN trace'
                                /\ DOMAIN trace' = 1..(n + 2)
                                /\ IsPassing(trace'[n + 2].input)
                                /\ trace'[n + 2].input.cmd = j.cmd
                                /\ trace'[n + 2].input.repo = j.repo
             /\ j.op = "transition" /\ ~RanMutation(j) /\ ~Clears(j, s) =>
                  Uncovered(trace') = Uncovered(trace)
             /\ ~Clears(j, s) => \A i \in DOMAIN trace' :
                  IsPassing(trace'[i].input) => i \in DOMAIN trace
             /\ \A i \in DOMAIN trace' : IsPassing(trace'[i].input) =>
                  i \in DOMAIN trace \/ i = n + 2
             /\ j.op = "transition" =>
                  /\ n + 1 \in DOMAIN trace' /\ trace'[n + 1].input = Completed(j)
                  /\ \A i \in DOMAIN trace' :
                       i > n /\ trace'[i].input.type = "command_completed" => i = n + 1
             /\ RunWasTold => RunWasTold'
             /\ Clears(j, s) => RunWasTold'
             /\ (/\ j.op = "transition" /\ j.kind # "mutation"
                 /\ ~(j.kind = "verification" /\ j.ok)
                 /\ RunWasTold') => RunWasTold
<1> DEFINE j == job[p]
           s == snap[p].status
           b == Batch(j, s)
           n == Len(trace)
           k == Len(b)
<1>1. /\ pc[p] = "entered" /\ j.op # "mark" /\ j \in Jobs /\ s \in Statuses
      /\ Admitted(j, snap[p], trace)
      /\ k \in 1..3 /\ n \in Nat
      /\ DOMAIN trace = 1..n /\ DOMAIN trace' = 1..(n + k)
      /\ \A i \in DOMAIN trace : i \in DOMAIN trace' /\ trace'[i] = trace[i]
      /\ \A i \in DOMAIN trace' : i > n =>
           i - n \in 1..k /\ trace'[i].input = b[i - n]
      /\ \A m \in 1..k : n + m \in DOMAIN trace' /\ trace'[n + m].input = b[m]
  BY DEF Grows
<1>2. /\ b[1].type = "run_completed" <=> j.op = "complete"
      /\ \A m \in 1..k :
           /\ IsPassing(b[m]) => Clears(j, s) /\ m = 2 /\ k = 2
           /\ b[m].type = "run_completed" <=> j.op = "complete"
           /\ IsMutationBoundary(b[m]) => j.op = "intent" \/ RanMutation(j)
           /\ b[m].type = "command_completed" => m = 1
  BY <1>1, BatchEvents
<1>3. /\ j.op = "intent" \/ RanMutation(j) => IsMutationBoundary(b[k])
      /\ Clears(j, s) => /\ k = 2 /\ IsPassing(b[2])
                         /\ b[2].cmd = j.cmd /\ b[2].repo = j.repo
      /\ j.op = "transition" => b[1] = Completed(j)
  <2>1. CASE j.op = "intent"
    BY <2>1 DEF Batch, RanMutation, Clears, Required, Input, IsMutationBoundary
  <2>2. CASE j.op = "complete"
    BY <2>2 DEF RanMutation, Clears
  <2>3. CASE RanMutation(j) /\ j.matched
    BY <2>3 DEF Batch, RanMutation, Clears, Mutated, Input, IsMutationBoundary
  <2>4. CASE RanMutation(j) /\ ~j.matched
    BY <2>4 DEF Batch, RanMutation, Clears, Required, Input, IsMutationBoundary
  <2>5. CASE Clears(j, s)
    BY <2>5 DEF Batch, RanMutation, Clears, Verified, Input, IsPassing
  <2>6. CASE j.op = "transition" /\ ~RanMutation(j) /\ ~Clears(j, s)
    BY <2>6 DEF Batch
  <2> QED BY <1>1, <2>1, <2>2, <2>3, <2>4, <2>5, <2>6 DEF Jobs
<1>3a. 1 \in 1..k /\ k \in 1..k /\ k \in Nat
  <2>1. \A x \in 1..3 : 1 \in 1..x /\ x \in 1..x /\ x \in Nat
    OBVIOUS
  <2>2. k \in 1..3
    BY <1>1
  <2> QED BY <2>1, <2>2
<1> HIDE DEF b
<1>4. ~Ends(trace)
  <2>1. s \notin Closed
    BY <1>1 DEF Admitted, Closed, Jobs
  <2> QED BY <1>1, <2>1 DEF IInv, SectionInv, Sound
<1>5. Ends(trace') <=> j.op = "complete"
  <2>1. ASSUME Ends(trace') PROVE j.op = "complete"
    <3>1. PICK i \in DOMAIN trace' : trace'[i].input.type = "run_completed"
      BY <2>1 DEF Ends
    <3>2. i > n
      BY <1>1, <1>4, <3>1 DEF Ends
    <3>3. i - n \in 1..k /\ b[i - n].type = "run_completed"
      BY <1>1, <3>1, <3>2
    <3> QED BY <1>2, <3>3
  <2>2. ASSUME j.op = "complete" PROVE Ends(trace')
    <3>2. n + 1 \in DOMAIN trace' /\ trace'[n + 1].input.type = "run_completed"
      BY <1>1, <1>2, <1>3a, <2>2
    <3> QED BY <3>2 DEF Ends
  <2> QED BY <2>1, <2>2
<1>6. ASSUME j.op = "intent" \/ RanMutation(j) PROVE Uncovered(trace')
  <2>1. k \in 1..k /\ n + k \in Nat
    BY <1>1, <1>3a
  <2>2. n + k \in DOMAIN trace' /\ IsMutationBoundary(trace'[n + k].input)
    BY <1>1, <1>3, <1>6, <2>1
  <2>3. \A v \in DOMAIN trace' : ~(v > n + k)
    BY <1>1, <2>1
  <2> QED BY <2>2, <2>3 DEF Uncovered
<1>7. ASSUME Clears(j, s)
      PROVE  /\ ~Uncovered(trace') /\ n + 2 \in DOMAIN trace' /\ DOMAIN trace' = 1..(n + 2)
             /\ IsPassing(trace'[n + 2].input)
             /\ trace'[n + 2].input.cmd = j.cmd /\ trace'[n + 2].input.repo = j.repo
  <2>0. k = 2
    BY <1>3, <1>7
  <2>1. k = 2 /\ 2 \in 1..k /\ j.op = "transition" /\ ~RanMutation(j)
    BY <1>7, <1>3a, <2>0 DEF Clears, RanMutation
  <2>2. /\ n + 2 \in DOMAIN trace' /\ DOMAIN trace' = 1..(n + 2)
        /\ trace'[n + 2].input = b[2] /\ IsPassing(b[2])
    BY <1>1, <1>3, <1>7, <2>1
  <2>3. ASSUME NEW x \in DOMAIN trace', IsMutationBoundary(trace'[x].input) PROVE n + 2 > x
    <3>1. CASE x > n
      BY <1>1, <1>2, <2>1, <2>3, <3>1
    <3>2. CASE ~(x > n)
      BY <1>1, <3>2
    <3> QED BY <3>1, <3>2
  <2>4. ~Uncovered(trace')
    BY <2>2, <2>3 DEF Uncovered
  <2> QED BY <1>3, <1>7, <2>2, <2>4
<1>8. ASSUME ~Clears(j, s), NEW i \in DOMAIN trace', IsPassing(trace'[i].input)
      PROVE  i \in DOMAIN trace
  <2>1. ~(i > n)
    BY <1>1, <1>2, <1>8
  <2> QED BY <1>1, <2>1
<1>9. ASSUME NEW i \in DOMAIN trace', IsPassing(trace'[i].input)
      PROVE  i \in DOMAIN trace \/ i = n + 2
  <2>1. CASE i > n
    <3>1. i - n = 2
      BY <1>1, <1>2, <1>9, <2>1
    <3> QED BY <1>1, <3>1
  <2>2. CASE ~(i > n)
    BY <1>1, <2>2
  <2> QED BY <2>1, <2>2
<1>10. ASSUME j.op = "transition", ~RanMutation(j), ~Clears(j, s)
       PROVE  Uncovered(trace') = Uncovered(trace)
  <2>1. ASSUME NEW x \in DOMAIN trace', IsMutationBoundary(trace'[x].input)
        PROVE  x \in DOMAIN trace /\ trace'[x] = trace[x]
    <3>1. ~(x > n)
      BY <1>1, <1>2, <1>10, <2>1
    <3> QED BY <1>1, <3>1
  <2>2. ASSUME Uncovered(trace') PROVE Uncovered(trace)
    <3>1. PICK x \in DOMAIN trace' : /\ IsMutationBoundary(trace'[x].input)
                                     /\ \A v \in DOMAIN trace' : v > x => ~IsPassing(trace'[v].input)
      BY <2>2 DEF Uncovered
    <3>2. x \in DOMAIN trace /\ trace'[x] = trace[x]
      BY <2>1, <3>1
    <3>3. \A v \in DOMAIN trace : v > x => ~IsPassing(trace[v].input)
      BY <1>1, <3>1
    <3> QED BY <3>1, <3>2, <3>3 DEF Uncovered
  <2>3. ASSUME Uncovered(trace) PROVE Uncovered(trace')
    <3>1. PICK x \in DOMAIN trace : /\ IsMutationBoundary(trace[x].input)
                                    /\ \A v \in DOMAIN trace : v > x => ~IsPassing(trace[v].input)
      BY <2>3 DEF Uncovered
    <3>2. x \in DOMAIN trace' /\ trace'[x] = trace[x]
      BY <1>1
    <3>3. \A v \in DOMAIN trace' : v > x => ~IsPassing(trace'[v].input)
      BY <1>1, <1>8, <1>10, <3>1
    <3> QED BY <3>1, <3>2, <3>3 DEF Uncovered
  <2>4. Uncovered(trace) \in BOOLEAN /\ Uncovered(trace') \in BOOLEAN
    BY DEF Uncovered
  <2> QED BY <2>2, <2>3, <2>4
<1>11. ASSUME j.op = "transition"
       PROVE  /\ n + 1 \in DOMAIN trace' /\ trace'[n + 1].input = Completed(j)
              /\ \A i \in DOMAIN trace' :
                   i > n /\ trace'[i].input.type = "command_completed" => i = n + 1
  <2>1. n + 1 \in DOMAIN trace' /\ trace'[n + 1].input = Completed(j)
    BY <1>1, <1>3, <1>3a, <1>11
  <2>2. ASSUME NEW i \in DOMAIN trace', i > n, trace'[i].input.type = "command_completed"
        PROVE  i = n + 1
    <3>1. i - n = 1
      BY <1>1, <1>2, <2>2
    <3> QED BY <1>1, <3>1
  <2> QED BY <2>1, <2>2
<1>12. RunWasTold => RunWasTold'
  BY <1>1 DEF RunWasTold
<1>13. ASSUME Clears(j, s) PROVE RunWasTold'
  <2>1. n + 1 \in DOMAIN trace' /\ trace'[n + 1].input = Completed(j)
    BY <1>11, <1>13 DEF Clears
  <2>2. /\ Completed(j).type = "command_completed"
        /\ Completed(j).kind = "verification" /\ Completed(j).ok
    BY <1>13 DEF Clears, Completed, Input
  <2> QED BY <2>1, <2>2 DEF RunWasTold
<1>14. ASSUME j.op = "transition", j.kind # "mutation", ~(j.kind = "verification" /\ j.ok),
              RunWasTold'
       PROVE  RunWasTold
  <2>1. PICK i \in DOMAIN trace' :
          \/ trace'[i].input.type = "verification_required"
          \/ /\ trace'[i].input.type = "command_completed"
             /\ \/ trace'[i].input.kind = "mutation"
                \/ trace'[i].input.kind = "verification" /\ trace'[i].input.ok
    BY <1>14 DEF RunWasTold
  <2>2. ~RanMutation(j) /\ j.op # "intent"
    BY <1>14 DEF RanMutation
  <2>3. ~(i > n)
    <3> SUFFICES ASSUME i > n PROVE FALSE
      OBVIOUS
    <3>1. i - n \in 1..k /\ trace'[i].input = b[i - n]
      BY <1>1, <2>1
    <3>2. ~IsMutationBoundary(b[i - n])
      BY <1>2, <2>2, <3>1
    <3>3. trace'[i].input.type = "command_completed"
      BY <2>1, <3>1, <3>2 DEF IsMutationBoundary
    <3>4. trace'[i].input = Completed(j)
      BY <1>11, <1>14, <2>1, <3>3
    <3>5. Completed(j).kind = j.kind /\ Completed(j).ok = j.ok
      BY DEF Completed, Input
    <3> QED BY <1>14, <2>1, <3>3, <3>4, <3>5
  <2>4. i \in DOMAIN trace /\ trace'[i] = trace[i]
    BY <1>1, <2>3
  <2> QED BY <2>1, <2>4 DEF RunWasTold
<1> QED BY <1>4, <1>5, <1>6, <1>7, <1>8, <1>9, <1>10, <1>11, <1>12, <1>13, <1>14

\* An append: the outcome on its way reaches the trace, and the gates agree.
LEMMA AppendSync ==
  ASSUME IInv, TermInv, SyncInv, OneTerminal, UNCHANGED termVars,
         NEW p \in Procs, AppendLine(p)
  PROVE  SyncInv'
<1> DEFINE j == job[p]
           s == snap[p].status
           n == Len(trace)
<1>1. /\ pc[p] = "entered" /\ pc' = [pc EXCEPT ![p] = "appended"]
      /\ tail' = IF tail = "clean" THEN "clean" ELSE "broken"
      /\ UNCHANGED <<runFile, lock, job>> /\ j.op # "mark"
      /\ snap' = [snap EXCEPT ![p].status = NextStatus(j, s),
                              ![p].next = snap[p].next
                                + Len(Stamped(Batch(j, s), snap[p]))]
  BY DEF AppendLine
<1>2. UNCHANGED <<opened, started, content, hidden, stage, cmd, exit, session, traced,
                  provenance, seen>>
  BY DEF termVars, world, hook
<1>3. Grows(p, Len(Batch(j, s)))
  BY Appends
<1>4. /\ n \in Nat /\ DOMAIN trace = 1..n /\ j \in Jobs /\ s \in Statuses
      /\ \A i \in DOMAIN trace : i \in DOMAIN trace' /\ trace'[i] = trace[i]
      /\ DOMAIN trace' = 1..(n + Len(Batch(j, s)))
  BY <1>3 DEF Grows
<1>5. /\ ~Ends(trace)
      /\ Ends(trace') <=> j.op = "complete"
      /\ j.op = "intent" \/ RanMutation(j) => Uncovered(trace')
      /\ Clears(j, s) => /\ ~Uncovered(trace') /\ n + 2 \in DOMAIN trace'
                         /\ DOMAIN trace' = 1..(n + 2)
                         /\ IsPassing(trace'[n + 2].input)
                         /\ trace'[n + 2].input.cmd = j.cmd
                         /\ trace'[n + 2].input.repo = j.repo
      /\ j.op = "transition" /\ ~RanMutation(j) /\ ~Clears(j, s) =>
           Uncovered(trace') = Uncovered(trace)
      /\ ~Clears(j, s) => \A i \in DOMAIN trace' :
           IsPassing(trace'[i].input) => i \in DOMAIN trace
      /\ \A i \in DOMAIN trace' : IsPassing(trace'[i].input) =>
           i \in DOMAIN trace \/ i = n + 2
      /\ j.op = "transition" =>
           /\ n + 1 \in DOMAIN trace' /\ trace'[n + 1].input = Completed(j)
           /\ \A i \in DOMAIN trace' :
                i > n /\ trace'[i].input.type = "command_completed" => i = n + 1
  BY <1>3, WholeAppend
<1>5a. /\ RunWasTold => RunWasTold'
       /\ Clears(j, s) => RunWasTold'
       /\ (/\ j.op = "transition" /\ j.kind # "mutation" /\ ~(j.kind = "verification" /\ j.ok)
           /\ RunWasTold') => RunWasTold
  BY <1>3, WholeAppend
<1>6. /\ pc \in [Procs -> {"idle", "entered", "appended", "completing"}] /\ job \in [Procs -> Jobs]
      /\ snap \in [Procs -> RunRecord] /\ lock = p /\ lock' # NoProc
      /\ Procs = Terminals \cup {Cli} /\ Cli \notin Terminals
  BY <1>1, TerminalsAssumption, NoProcAssumption DEF IInv, TypeOK, SectionInv
<1>7. /\ InStep /\ PassingKnown /\ ReadContent /\ Unopened
      /\ \A t \in Terminals : Placed(t) /\ GateOf(t) /\ ReadBy(t) /\ ClearedBy(t)
  BY <1>5 DEF SyncInv, SyncOf
<1>8. s = IF Uncovered(trace) THEN "verification-pending" ELSE "active"
  BY <1>1, <1>5, <1>7 DEF InStep, Agrees
<1>9. p = Cli => j.op = "complete"
  BY <1>1, <1>7 DEF InStep
<1>10. ASSUME p \in Terminals
       PROVE  \/ stage[p] = "running" /\ j.op = "intent" /\ cmd[p].kind = "mutation"
              \/ /\ stage[p] = "prompt" /\ j.op = "transition"
                 /\ j.cmd \in Commands /\ j.cmd = started
                 /\ j.kind = "verification" /\ j.ok => j.repo \in Repos
                 /\ j.kind = "mutation" /\ j.matched => RunWasTold
  BY <1>1, <1>7, <1>10 DEF Placed
<1>11. ASSUME p \in Terminals, j.op = "transition"
       PROVE  /\ j.kind = "mutation" => session[p].gate /\ (RunWasTold => Uncovered(trace))
              /\ j.kind = "verification" /\ j.ok => ~session[p].gate
              /\ j.kind # "mutation" /\ ~(j.kind = "verification" /\ j.ok) => Coupled(p)
  <2>1. stage[p] = "prompt" /\ OnItsWay(p) /\ KindOf(p) = j.kind /\ OkOf(p) = j.ok
    BY <1>1, <1>10, <1>11 DEF OnItsWay, KindOf, OkOf
  <2>2. GateOf(p)
    BY <1>7, <1>11
  <2> QED BY <2>1, <2>2 DEF GateOf, Ahead, Mutating, Checked, Coupled
<1>12. ASSUME p \in Terminals, j.op = "transition", j.kind = "verification", j.ok
       PROVE  ~Uncovered(trace')
  <2>1. CASE s = "verification-pending"
    BY <1>5, <1>12, <2>1 DEF Clears
  <2>2. CASE s # "verification-pending"
    <3>1. ~Uncovered(trace) /\ ~Clears(j, s) /\ ~RanMutation(j)
      BY <1>8, <1>12, <2>2 DEF Clears, RanMutation
    <3> QED BY <1>5, <1>12, <3>1
  <2> QED BY <2>1, <2>2
<1>13. Ends(trace') \/ NextStatus(j, s) = IF Uncovered(trace') THEN "verification-pending"
                                                             ELSE "active"
  <2>1. CASE p = Cli
    BY <1>5, <1>9, <2>1
  <2>2. CASE p \in Terminals /\ j.op = "intent"
    BY <1>5, <2>2 DEF NextStatus
  <2>3. CASE p \in Terminals /\ RanMutation(j)
    <3>1. Uncovered(trace') /\ (j.matched => s = "verification-pending")
      BY <1>5, <1>8, <1>10, <1>11, <2>3 DEF RanMutation
    <3>2. NextStatus(j, s) = IF j.matched THEN s ELSE "verification-pending"
      BY <2>3 DEF NextStatus, RanMutation, Clears
    <3> QED BY <3>1, <3>2
  <2>4. CASE p \in Terminals /\ Clears(j, s)
    BY <1>5, <2>4 DEF NextStatus, RanMutation, Clears
  <2>5. CASE p \in Terminals /\ j.op = "transition" /\ ~RanMutation(j) /\ ~Clears(j, s)
    <3>1. NextStatus(j, s) = s
      BY <2>5 DEF NextStatus
    <3> QED BY <1>5, <1>8, <2>5, <3>1
  <2> QED BY <1>6, <1>10, <2>1, <2>2, <2>3, <2>4, <2>5
<1>14. InStep'
  <2>1. \A q \in Procs : q # p => pc[q] = "idle"
    BY <1>1, Alone
  <2>2. snap'[p].status = NextStatus(j, s)
    BY <1>1, <1>6 DEF RunRecord
  <2>3. ASSUME NEW q \in Procs, pc'[q] # "idle" PROVE Agrees(snap[q].status)'
    <3>1. q = p
      BY <1>1, <1>6, <2>1, <2>3
    <3> QED BY <1>13, <2>2, <3>1 DEF Agrees
  <2>4. pc'[Cli] # "idle" => job'[Cli].op = "complete"
    BY <1>1, <1>6, <1>7 DEF InStep
  <2>5. tail' = "clean"
    BY <1>1, <1>7 DEF InStep
  <2> QED BY <1>6, <2>3, <2>4, <2>5 DEF InStep
<1>15. ASSUME NEW i, ~Clears(j, s) PROVE LastPassing(i)' <=> LastPassing(i)
  <2>1. ASSUME NEW x \in DOMAIN trace', IsPassing(trace'[x].input)
        PROVE  x \in DOMAIN trace /\ trace'[x] = trace[x]
    BY <1>4, <1>5, <1>15, <2>1
  <2>2. ASSUME NEW x \in DOMAIN trace, IsPassing(trace[x].input)
        PROVE  x \in DOMAIN trace' /\ IsPassing(trace'[x].input)
    BY <1>4, <2>2
  <2> QED BY <2>1, <2>2 DEF LastPassing, IsPassing
<1>16. ASSUME Clears(j, s)
       PROVE  \A i : LastPassing(i)' <=> i = n + 2
  <2>1. ASSUME NEW i, i = n + 2 PROVE LastPassing(i)'
    <3>1. \A x \in DOMAIN trace' : x <= n + 2
      BY <1>4, <1>5, <1>16
    <3>2. n + 2 \in DOMAIN trace' /\ IsPassing(trace'[n + 2].input)
      BY <1>5, <1>16
    <3> QED BY <2>1, <3>1, <3>2 DEF LastPassing, IsPassing
  <2>2. ASSUME NEW i, LastPassing(i)' PROVE i = n + 2
    <3>1. i \in 1..(n + 2) /\ n + 2 <= i
      BY <1>5, <1>16, <2>2 DEF LastPassing, IsPassing
    <3> QED BY <1>4, <3>1
  <2> QED BY <2>1, <2>2
<1>17. Clears(j, s) => /\ j.cmd \in Commands /\ j.cmd = started /\ j.repo \in Repos
                       /\ ReadAll(started) /\ started \in Nat
  <2> SUFFICES ASSUME Clears(j, s)
               PROVE  /\ j.cmd \in Commands /\ j.cmd = started /\ j.repo \in Repos
                      /\ ReadAll(started) /\ started \in Nat
    OBVIOUS
  <2>1. p \in Terminals /\ j.op = "transition" /\ j.kind = "verification" /\ j.ok
    BY <1>6, <1>9 DEF Clears
  <2> QED BY <1>1, <1>7, <1>10, <2>1, CommandNumbers DEF ReadBy
<1>18. PassingKnown'
  <2> SUFFICES ASSUME NEW i \in DOMAIN trace', IsPassing(trace'[i].input)
               PROVE  /\ RunWasTold' /\ trace'[i].input.repo \in Repos
                      /\ trace'[i].input.cmd \in Commands /\ trace'[i].input.cmd <= started
                      /\ \E k \in DOMAIN trace' : LastPassing(k)'
    BY <1>2 DEF PassingKnown, IsPassing
  <2>1. CASE i \in DOMAIN trace
    <3>1. /\ RunWasTold /\ trace[i].input.repo \in Repos
          /\ trace[i].input.cmd \in Commands /\ trace[i].input.cmd <= started
          /\ \E k \in DOMAIN trace : LastPassing(k)
      BY <1>4, <1>7, <2>1 DEF PassingKnown
    <3>2. \E k \in DOMAIN trace' : LastPassing(k)'
      BY <1>4, <1>5, <1>15, <1>16, <3>1
    <3> QED BY <1>4, <1>5a, <2>1, <3>1, <3>2
  <2>2. CASE i \notin DOMAIN trace
    <3>1. Clears(j, s) /\ i = n + 2
      BY <1>5, <2>2
    <3> QED BY <1>5, <1>5a, <1>16, <1>17, <3>1
  <2> QED BY <2>1, <2>2
<1>19. ReadContent'
  <2> SUFFICES ASSUME ~Ends(trace'), ~Uncovered(trace'), NEW i \in DOMAIN trace', LastPassing(i)'
               PROVE  ReadAll(trace'[i].input.cmd)
    BY <1>2 DEF ReadContent, ReadAll
  <2>1. CASE Clears(j, s)
    BY <1>5, <1>16, <1>17, <2>1
  <2>2. CASE ~Clears(j, s)
    <3>1. LastPassing(i) /\ i \in DOMAIN trace
      BY <1>15, <2>2 DEF LastPassing
    <3>2. ~Uncovered(trace)
      BY <1>5, <1>6, <1>9, <1>10, <2>2
    <3>3. ReadAll(trace[i].input.cmd)
      BY <1>5, <1>7, <3>1, <3>2 DEF ReadContent
    <3> QED BY <1>4, <3>1, <3>3
  <2> QED BY <2>1, <2>2
<1>20. ASSUME NEW t \in Terminals, t # p PROVE SyncOf(t)'
  <2>1. p = Cli /\ Ends(trace') /\ ~Clears(j, s)
    BY <1>5, <1>6, <1>9, <1>20 DEF OneTerminal, Clears
  <2>2. pc'[t] = pc[t] /\ job'[t] = job[t]
    BY <1>1, <1>6, <1>20
  <2>3. Placed(t)'
    BY <1>2, <1>5a, <1>7, <2>2 DEF Placed, Inspected
  <2>4. ReadBy(t)'
    <3>1. \A i \in DOMAIN trace' : IsPassing(trace'[i].input) =>
            i \in DOMAIN trace /\ trace'[i] = trace[i]
      BY <1>4, <1>5, <2>1
    <3>2. stage[t] # "prompt" => \A i \in DOMAIN trace' :
            IsPassing(trace'[i].input) => trace'[i].input.cmd < started
      BY <1>7, <3>1 DEF ReadBy
    <3> QED BY <1>2, <1>7, <2>2, <3>2 DEF ReadBy, ReadAll, IsPassing
  <2> QED BY <2>1, <2>3, <2>4 DEF SyncOf, ClearedBy
<1>21. ASSUME p \in Terminals PROVE SyncOf(p)'
  <2>1. pc'[p] = "appended" /\ job'[p] = j /\ stage'[p] = stage[p]
    BY <1>1, <1>2, <1>6
  <2>2. Placed(p)'
    BY <1>1, <1>2, <1>5a, <1>7, <1>21, <2>1 DEF Placed, Inspected
  <2>3. CASE stage[p] = "running"
    <3>1. j.op = "intent" /\ cmd[p].kind = "mutation" /\ ~Clears(j, s)
      BY <1>10, <1>21, <2>3 DEF Clears
    <3>2. session[p].gate
      BY <1>1, <1>7, <1>21, <2>3 DEF GateOf, Ahead
    <3>3. GateOf(p)'
      BY <1>2, <1>5, <2>1, <2>3, <3>1, <3>2 DEF GateOf, Ahead, Checked, OnItsWay, Coupled
    <3>4. ReadBy(p)'
      <4>1. \A i \in DOMAIN trace' : IsPassing(trace'[i].input) =>
              i \in DOMAIN trace /\ trace'[i] = trace[i]
        BY <1>4, <1>5, <3>1
      <4>2. \A i \in DOMAIN trace' :
              IsPassing(trace'[i].input) => trace'[i].input.cmd < started
        BY <1>7, <1>21, <2>3, <4>1 DEF ReadBy
      <4> QED BY <1>2, <2>1, <2>3, <4>2 DEF ReadBy, IsPassing
    <3>5. ClearedBy(p)'
      BY <2>1, <2>3 DEF ClearedBy
    <3> QED BY <2>2, <3>3, <3>4, <3>5 DEF SyncOf
  <2>4. CASE stage[p] = "prompt"
    <3>1. j.op = "transition" /\ ~Ends(trace')
      BY <1>5, <1>10, <1>21, <2>4
    <3>2. Coupled(p)'
      <4>1. CASE j.kind = "mutation"
        BY <1>2, <1>5, <1>11, <1>21, <3>1, <4>1 DEF RanMutation, Coupled
      <4>2. CASE j.kind = "verification" /\ j.ok
        BY <1>2, <1>11, <1>12, <1>21, <3>1, <4>2 DEF Coupled
      <4>3. CASE j.kind # "mutation" /\ ~(j.kind = "verification" /\ j.ok)
        <5>1. ~RanMutation(j) /\ ~Clears(j, s)
          BY <4>3 DEF RanMutation, Clears
        <5>2. Uncovered(trace') = Uncovered(trace) /\ (RunWasTold' => RunWasTold)
          BY <1>5, <1>5a, <3>1, <4>3, <5>1
        <5> QED BY <1>2, <1>11, <1>21, <3>1, <4>3, <5>2 DEF Coupled
      <4> QED BY <4>1, <4>2, <4>3
    <3>3. GateOf(p)'
      BY <1>2, <2>1, <2>4, <3>2 DEF GateOf, Ahead, Mutating, Checked, OnItsWay
    <3>4. ReadBy(p)'
      BY <2>1, <2>4 DEF ReadBy
    <3>5. ClearedBy(p)'
      <4> SUFFICES ASSUME NEW i \in DOMAIN trace', LastCompleted(i)',
                          trace'[i].input.kind = "verification", trace'[i].input.ok
                   PROVE  ~Uncovered(trace')
        BY DEF ClearedBy
      <4>1. n + 1 \in DOMAIN trace' /\ trace'[n + 1].input.type = "command_completed"
        BY <1>5, <3>1 DEF Completed, Input
      <4>2. n + 1 <= i /\ trace'[i].input.type = "command_completed"
        BY <4>1 DEF LastCompleted
      <4>3. i > n
        BY <1>4, <4>2
      <4>4. trace'[i].input = Completed(j)
        BY <1>5, <3>1, <4>2, <4>3
      <4>5. j.kind = "verification" /\ j.ok
        BY <4>4 DEF Completed, Input
      <4> QED BY <1>12, <1>21, <3>1, <4>5
    <3> QED BY <2>2, <3>3, <3>4, <3>5 DEF SyncOf
  <2> QED BY <1>10, <1>21, <2>3, <2>4
<1>22. Unopened'
  BY <1>1, <1>2, <1>7 DEF Unopened
<1> QED BY <1>14, <1>18, <1>19, <1>20, <1>21, <1>22 DEF SyncInv
\* The agreement of the surfaces is inductive.
LEMMA SyncKept ==
  ASSUME IInv, TermInv, SyncInv, OneTerminal, MayFail = FALSE, [TermNext]_allVars
  PROVE  SyncInv'
<1>1. TypeOK /\ started \in Nat /\ Commands \subseteq Nat
  BY CommandNumbers, CommandsAssumption DEF IInv, TermInv
<1>2. ASSUME UNCHANGED vars, UNCHANGED <<started, content, hidden, stage, cmd, exit, hook, seen>>,
             Unopened'
      PROVE  SyncInv'
  <2>1. trace' = trace /\ UNCHANGED <<tail, runFile, lock, pc, job, snap>>
    BY <1>2 DEF vars
  <2>2. UNCHANGED <<session, traced, matched, provenance>>
    BY <1>2 DEF hook
  <2>3. /\ Uncovered(trace') = Uncovered(trace) /\ Ends(trace') = Ends(trace)
        /\ RunWasTold' = RunWasTold
        /\ \A i : LastPassing(i)' <=> LastPassing(i)
        /\ \A i : LastCompleted(i)' <=> LastCompleted(i)
    BY <2>1, TraceAlone
  <2>4. InStep' /\ PassingKnown'
    BY <1>1, <1>2, StoreAlone
  <2>5. \A c : ReadAll(c)' <=> ReadAll(c)
    BY <1>2 DEF ReadAll
  <2>6. ReadContent'
    BY <2>1, <2>3, <2>5 DEF SyncInv, ReadContent
  <2>7. ASSUME NEW t \in Terminals PROVE SyncOf(t)'
    <3>1. SyncOf(t)
      BY DEF SyncInv
    <3>2. Placed(t)'
      BY <1>2, <2>1, <2>2, <2>3, <3>1 DEF SyncOf, Placed, Inspected
    <3>3. (~Ends(trace) => GateOf(t))'
      BY <1>2, <2>1, <2>2, <2>3, <3>1
         DEF SyncOf, GateOf, Coupled, Ahead, Mutating, Checked, OnItsWay, KindOf, OkOf
    <3>4. ReadBy(t)'
      BY <1>2, <2>1, <2>5, <3>1 DEF SyncOf, ReadBy
    <3>5. ClearedBy(t)'
      BY <1>2, <2>1, <2>3, <3>1 DEF SyncOf, ClearedBy
    <3> QED BY <3>2, <3>3, <3>4, <3>5 DEF SyncOf
  <2> QED BY <1>2, <2>4, <2>6, <2>7 DEF SyncInv
<1>3. CASE UNCHANGED allVars
  <2>1. UNCHANGED vars /\ UNCHANGED <<opened, started, content, hidden, stage, cmd, exit, hook,
                                      seen, cliRepo>>
    BY <1>3 DEF allVars, termVars, world
  <2>2. Unopened'
    BY <2>1 DEF SyncInv, Unopened, vars
  <2> QED BY <1>2, <2>1, <2>2
<1>4. CASE StartRun
  <2>1. Unopened'
    BY <1>4 DEF StartRun, Unopened
  <2> QED BY <1>2, <1>4, <2>1 DEF StartRun
<1>5. CASE CliInspect
  <2>1. Unopened'
    BY <1>5 DEF CliInspect, Unopened, world
  <2> QED BY <1>2, <1>5, <2>1 DEF CliInspect, world
<1>6. ASSUME NEW t \in Terminals, Terminal(t) PROVE SyncInv'
  BY <1>6, NeverUnreadable, HookSync, OpenSync DEF Terminal
<1>7. CASE CliComplete
  BY <1>7, OpenSync
<1>8. ASSUME NEW p \in Procs, StoreStep(p) PROVE SyncInv'
  BY <1>8, AppendSync, QuietSync DEF StoreStep
<1> QED BY <1>3, <1>4, <1>5, <1>6, <1>7, <1>8, EditSync DEF TermNext

\* Every reachable state of one terminal whose helpers do not fail.
THEOREM Synchronised ==
  ASSUME OneTerminal, MayFail = FALSE PROVE TermSpec => []SyncInv
<1>1. TermInit => SyncInv
  BY InitSync
<1>2. IInv /\ TermInv /\ SyncInv /\ [TermNext]_allVars => SyncInv'
  BY SyncKept
<1> QED BY <1>1, <1>2, TermInvariance, StoreInvariance, PTL DEF TermSpec

\* Whenever the terminal is at its prompt and the run is open: a run that is
\* pending has a session that is pending, and conversely once the run was
\* told of a mutation or a passing check.
THEOREM TwoSurfaces ==
  ASSUME OneTerminal, MayFail = FALSE PROVE TermSpec => []SurfacesAgree
<1>1. IInv /\ SyncInv => SurfacesAgree
  <2> DEFINE status == Reconciled(runFile, trace).status
  <2> SUFFICES ASSUME IInv, SyncInv, NEW t \in Terminals, Settled, AtPrompt(t),
                      status \notin Closed
               PROVE  /\ status = "verification-pending" => session[t].gate
                      /\ session[t].gate /\ RunWasTold => status = "verification-pending"
    BY DEF SurfacesAgree
  <2>1. runFile.next = Len(trace) + 1 /\ Agrees(runFile.status) /\ SyncOf(t)
    BY DEF SyncInv, InStep, Settled
  <2>2. Reconciled(runFile, trace) = runFile
    BY <2>1 DEF Reconciled
  <2>3. ~Ends(trace)
    BY <2>1, <2>2 DEF IInv, Sound
  <2>4. Coupled(t)
    BY <2>1, <2>3 DEF SyncOf, GateOf, Ahead, Checked, OnItsWay, AtPrompt
  <2>5. runFile.status = IF Uncovered(trace) THEN "verification-pending" ELSE "active"
    BY <2>1, <2>3 DEF Agrees
  <2> QED BY <2>2, <2>4, <2>5 DEF Coupled
<1> QED BY <1>1, Synchronised, StoreInvariance, PTL

\* A check that exited with zero, recorded last, satisfies completion.
THEOREM PassingClears ==
  ASSUME OneTerminal, MayFail = FALSE PROVE TermSpec => []PassingCheckClears
<1>1. IInv /\ SyncInv => PassingCheckClears
  <2> SUFFICES ASSUME IInv, SyncInv, ~Ends(trace), Settled,
                      \A t \in Terminals : AtPrompt(t),
                      NEW i, LastCompleted(i), trace[i].input.kind = "verification",
                      trace[i].input.ok
               PROVE  \E r \in Repos : FreshEvidence(trace, r)
    BY DEF PassingCheckClears, LastCompleted
  <2>1. DOMAIN trace = 1..Len(trace) /\ Len(trace) \in Nat
    BY LenProperties DEF IInv, TypeOK
  <2>2. CASE \A m \in DOMAIN trace : ~IsMutationBoundary(trace[m].input)
    <3>1. Fingerprint[0] \in Repos
      BY FingerprintAssumption, MaxContentAssumption
    <3> QED BY <2>2, <3>1 DEF FreshEvidence
  <2>3. CASE ~\A m \in DOMAIN trace : ~IsMutationBoundary(trace[m].input)
    <3>1. PICK b \in DOMAIN trace : IsMutationBoundary(trace[b].input)
      BY <2>3
    <3>2. PICK t \in Terminals : TRUE
      BY DEF OneTerminal
    <3>3. ~Uncovered(trace)
      BY <3>2 DEF SyncInv, SyncOf, ClearedBy, LastCompleted, AtPrompt
    <3>4. \A l \in DOMAIN trace : IsMutationBoundary(trace[l].input) =>
            \E v \in DOMAIN trace : v > l /\ IsPassing(trace[v].input)
      BY <3>3 DEF Uncovered
    <3>5. PICK k \in DOMAIN trace : LastPassing(k)
      BY <3>1, <3>4 DEF SyncInv, PassingKnown
    <3>6. trace[k].input.repo \in Repos /\ IsPassing(trace[k].input)
      BY <3>5 DEF SyncInv, PassingKnown, LastPassing
    <3>7. \A l \in DOMAIN trace : IsPassing(trace[l].input) => l <= k
      BY <3>5 DEF LastPassing
    <3>8. ASSUME NEW l \in DOMAIN trace, l > k
          PROVE  ~IsMutationBoundary(trace[l].input) /\ ~IsPassing(trace[l].input)
      BY <2>1, <3>4, <3>7, <3>8
    <3> QED BY <3>6, <3>8, NoRepoAssumption DEF FreshEvidence
  <2> QED BY <2>2, <2>3
<1> QED BY <1>1, Synchronised, StoreInvariance, PTL

\* The step that completes a run in which something was mutated finds that
\* the last passing check has read all that recognised mutations had made.
THEOREM CompletionOnContent ==
  ASSUME OneTerminal, MayFail = FALSE PROVE TermSpec => CompletionSawContent
<1> DEFINE Saw == (~Ends(trace) /\ Ends(trace)' /\ MutationHappened) =>
                     \E i \in DOMAIN trace :
                        LastPassing(i) /\ (seen[trace[i].input.cmd] + 1)..content \subseteq hidden
<1>1. ASSUME IInv, TermInv, SyncInv, TermNext PROVE Saw
  <2> SUFFICES ASSUME ~Ends(trace), Ends(trace'), MutationHappened
               PROVE  \E i \in DOMAIN trace :
                        LastPassing(i) /\ (seen[trace[i].input.cmd] + 1)..content \subseteq hidden
    BY DEF Saw
  <2>1. PICK p \in Procs : AppendLine(p)
    <3>1. trace' # trace
      OBVIOUS
    <3>2. ASSUME NEW t \in Terminals, Terminal(t) PROVE trace' = trace
      BY <3>2 DEF Terminal, StartCommand, Preexec, Locate, RecordIntent, Execute, Postexec, LookUp,
                  ReadsOpenRun, ReadsNoRun, ReadRun, Inspect, RecordTransition, HelperFails, Damage,
                  Enter, vars
    <3>3. StartRun \/ Edit \/ CliInspect \/ CliComplete => trace' = trace
      BY DEF StartRun, Edit, CliInspect, CliComplete, Enter, vars
    <3>4. \E p \in Procs : StoreStep(p)
      BY <1>1, <3>1, <3>2, <3>3 DEF TermNext
    <3> QED BY <3>1, <3>4 DEF StoreStep, Refuse, WriteRun, WriteCompletedAt
  <2>2. Grows(p, Len(Batch(job[p], snap[p].status)))
    BY <1>1, <2>1, Appends
  <2>3. job[p].op = "complete"
    BY <1>1, <2>2, WholeAppend
  <2>4. FreshEvidence(trace, job[p].repo)
    BY <2>2, <2>3 DEF Grows, Admitted
  <2>5. PICK m \in DOMAIN trace : IsMutationBoundary(trace[m].input)
    BY DEF MutationHappened
  <2>6. PICK v \in DOMAIN trace :
          /\ IsPassing(trace[v].input)
          /\ \A l \in DOMAIN trace : l > v => ~IsMutationBoundary(trace[l].input)
                                           /\ ~IsPassing(trace[l].input)
    BY <2>4, <2>5 DEF FreshEvidence
  <2>7. DOMAIN trace = 1..Len(trace) /\ Len(trace) \in Nat
    BY <2>2 DEF Grows
  <2>8. LastPassing(v)
    BY <2>6, <2>7 DEF LastPassing
  <2>9. ~Uncovered(trace)
    <3> SUFFICES ASSUME NEW b \in DOMAIN trace, IsMutationBoundary(trace[b].input)
                 PROVE  v > b
      BY <2>6 DEF Uncovered
    <3>1. b # v /\ ~(b > v)
      BY <2>6 DEF IsMutationBoundary, IsPassing
    <3> QED BY <2>7, <3>1
  <2> QED BY <1>1, <2>8, <2>9 DEF SyncInv, ReadContent, ReadAll
<1>2. IInv /\ TermInv /\ SyncInv /\ [TermNext]_allVars => [Saw]_allVars
  BY <1>1
<1> QED BY <1>2, Synchronised, StoreInvariance, TermInvariance, PTL
        DEF TermSpec, CompletionSawContent
=============================================================================


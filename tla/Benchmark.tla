------------------------------- MODULE Benchmark -------------------------------
(***************************************************************************)
(* A benchmark run (baseline and compare in src/cli.ts): two workers take  *)
(* scenarios from one queue, run an agent for each as a process            *)
(* (src/process.ts) in a directory under runRoot, a candidate's in a       *)
(* capsule (src/capsule.ts), check what it left, and the results are       *)
(* collected.                                                              *)
(*                                                                         *)
(* An agent is a process tree: "codex" is the process itself, "child" what *)
(* it has started, which may leave the group and ignore SIGTERM but keeps  *)
(* the marker of its environment, and "late" what was started between the  *)
(* listing and the signals of a killTree, outside every group that is      *)
(* signalled.  The listing (ps) is taken to succeed.  Results are reduced  *)
(* to what the properties tell apart; module Evaluation has the numbers.   *)
(***************************************************************************)
EXTENDS Naturals, Sequences, FiniteSets

CONSTANTS
  Workers,      \* the two workers of runWithTwoWorkers
  ScenarioIds,  \* 1..n in the order of the scenario set
  NoScenario

ASSUME BenchmarkAssumption ==
  /\ IsFiniteSet(ScenarioIds) /\ ScenarioIds = 1..Cardinality(ScenarioIds)
  /\ NoScenario \notin ScenarioIds /\ Workers # {}

VARIABLES
  modes,     \* the modes that are left, the current one first
  queue,     \* pending
  work,      \* of each worker: where it is, and with which scenario
  completed, \* completed: scenarios with their results, in the order they end
  agent,     \* of each scenario: the process tree of its agent
  killing,   \* the scenario whose tree killTree has listed and not signalled yet
  capsule,   \* of each scenario: its temporary CODEX_HOME
  runRoot,   \* does the directory of the run exist?
  outcome    \* "none", "published" or "thrown"

benchVars == <<modes, queue, work, completed, agent, killing, capsule, runRoot, outcome>>

Mode == Head(modes)
Running(procs) == [procs |-> procs, pipe |-> procs, exit |-> 0, timedOut |-> FALSE, killed |-> FALSE]
NoAgent == Running({})
NewAgent == Running({"codex"})
Idle == [w \in Workers |-> [at |-> "idle", id |-> NoScenario]]

BenchInit ==
  /\ modes \in {<<"control">>, <<"control", "candidate">>}
  /\ queue = [i \in ScenarioIds |-> i]
  /\ work = Idle
  /\ completed = <<>>
  /\ agent = [s \in ScenarioIds |-> NoAgent]
  /\ killing = NoScenario
  /\ capsule = [s \in ScenarioIds |-> "none"]
  /\ runRoot = TRUE
  /\ outcome = "none"

Moves(w, s, at) == work' = [work EXCEPT ![w] = [at |-> at, id |-> s]]
Has(w, s, at) == work[w] = [at |-> at, id |-> s]

\* The worker's function rejects: the worker ends, the other one goes on.
Rejects(w) == Moves(w, NoScenario, "rejected")

-----------------------------------------------------------------------------
\* The workers

\* while (pending.length > 0): the next scenario; its fixture is copied below
\* runRoot, which may fail.
TakeNext(w) ==
  /\ work[w].at = "idle"
  /\ IF queue = <<>> THEN Moves(w, NoScenario, "resolved") /\ UNCHANGED queue
     ELSE /\ queue' = Tail(queue)
          /\ \/ Moves(w, Head(queue), IF Mode = "control" THEN "spawn" ELSE "capsule")
             \/ Rejects(w)
  /\ UNCHANGED <<killing, modes, completed, agent, capsule, runRoot, outcome>>

\* createCapsule: what fails on the way removes the directory again.
MakeCapsule(w, s) ==
  /\ Has(w, s, "capsule")
  /\ \/ capsule' = [capsule EXCEPT ![s] = "there"] /\ Moves(w, s, "spawn")
     \/ Rejects(w) /\ UNCHANGED capsule
  /\ UNCHANGED <<killing, modes, queue, completed, agent, runRoot, outcome>>

\* Bun.spawn may throw: the capsule is destroyed, and the scenario rejects.
Spawn(w, s) ==
  /\ Has(w, s, "spawn")
  /\ \/ /\ agent' = [agent EXCEPT ![s] = NewAgent]
        /\ Moves(w, s, "agent")
        /\ UNCHANGED capsule
     \/ /\ Rejects(w)
        /\ capsule' = [capsule EXCEPT ![s] = IF @ = "there" THEN "destroyed" ELSE @]
        /\ UNCHANGED agent
  /\ UNCHANGED <<killing, modes, queue, completed, runRoot, outcome>>

\* finally of agentRun: the promise of the agent is returned and not awaited, so
\* the capsule is destroyed beside the agent; its result counts only after that.
DropCapsule(w, s) ==
  /\ Has(w, s, "agent") /\ capsule[s] = "there"
  /\ capsule' = [capsule EXCEPT ![s] = "destroyed"]
  /\ UNCHANGED <<killing, modes, queue, work, completed, agent, runRoot, outcome>>

-----------------------------------------------------------------------------
\* runProcess

\* A process of the agent starts another one, which may keep the pipes.
Fork(s) ==
  /\ agent[s].procs # {}
  /\ LET new == IF killing = s \/ agent[s].procs = {"late"} THEN "late" ELSE "child"
     IN  \E pipe \in {{}, IF agent[s].pipe = {} THEN {} ELSE {new}} :
           agent' = [agent EXCEPT ![s].procs = @ \cup {new}, ![s].pipe = @ \cup pipe]
  /\ UNCHANGED <<killing, modes, queue, work, completed, capsule, runRoot, outcome>>

\* A process ends by itself.
Exits(s) ==
  /\ \E p \in agent[s].procs, code \in {0, 1} :
       agent' = [agent EXCEPT ![s].procs = @ \ {p}, ![s].pipe = @ \ {p},
                              ![s].exit = IF p = "codex" THEN code ELSE @]
  /\ UNCHANGED <<killing, modes, queue, work, completed, capsule, runRoot, outcome>>

\* The timer: SIGTERM to the whole tree, which some of it survives, as does what is
\* started meanwhile; a process may answer it by ending with any code.
TimesOut(s) ==
  /\ \E w \in Workers : Has(w, s, "agent")
  /\ ~agent[s].timedOut
  /\ \E rest \in SUBSET agent[s].procs, code \in {0, 1} :
       agent' = [agent EXCEPT ![s].procs = rest, ![s].pipe = @ \cap rest, ![s].timedOut = TRUE,
                              ![s].exit = IF "codex" \in agent[s].procs \ rest THEN code ELSE @]
  /\ UNCHANGED <<killing, modes, queue, work, completed, capsule, runRoot, outcome>>

\* killTree lists the processes that have the marker, or an ancestor it knows.
Known(procs) == IF "late" \in procs THEN (procs \ {"late"}) \cup {"child"} ELSE procs
Lists(s) ==
  /\ killing' = s
  /\ agent' = [agent EXCEPT ![s].procs = Known(@), ![s].pipe = Known(@)]

\* The grace period is over.
ListsForKill(s) ==
  /\ agent[s].timedOut /\ ~agent[s].killed
  /\ Lists(s)
  /\ UNCHANGED <<modes, queue, work, completed, capsule, runRoot, outcome>>

\* Mutant: the process is killed, and not the tree.
MutForceKill(s) ==
  /\ killing = s /\ agent[s].timedOut /\ ~agent[s].killed
  /\ killing' = NoScenario
  /\ agent' = [agent EXCEPT ![s].procs = @ \ {"codex"}, ![s].pipe = @ \ {"codex"}, ![s].killed = TRUE]
  /\ UNCHANGED <<modes, queue, work, completed, capsule, runRoot, outcome>>

\* SIGKILL to all that was listed.
ForceKill(s) ==
  /\ killing = s /\ agent[s].timedOut /\ ~agent[s].killed
  /\ killing' = NoScenario
  /\ agent' = [agent EXCEPT ![s].procs = @ \cap {"late"}, ![s].pipe = @ \cap {"late"}, ![s].killed = TRUE,
                            ![s].exit = IF "codex" \in agent[s].procs THEN 1 ELSE @]
  /\ UNCHANGED <<modes, queue, work, completed, capsule, runRoot, outcome>>

\* Mutant: a late exit code hides the timeout.
MutCompletionExitCode(exit, timedOut) == exit

completionExitCode(exit, timedOut) == IF timedOut THEN 124 ELSE exit

\* The pipes are closed and the process has ended; finally waits for the forced
\* kill when there was a timeout.
Ended(s) ==
  /\ "codex" \notin agent[s].procs /\ agent[s].pipe = {}
  /\ agent[s].timedOut => agent[s].killed

ListsWhatIsLeft(w, s) ==
  /\ Has(w, s, "agent") /\ Ended(s) /\ capsule[s] # "there"
  /\ Lists(s)
  /\ UNCHANGED <<modes, queue, work, completed, capsule, runRoot, outcome>>

\* Mutant: what the agent left running is not killed after a normal end.
MutReturns(w, s) ==
  /\ killing = s /\ Has(w, s, "agent") /\ Ended(s)
  /\ killing' = NoScenario
  /\ Moves(w, s, "checks")
  /\ agent' = [agent EXCEPT ![s].exit = completionExitCode(@, agent[s].timedOut)]
  /\ UNCHANGED <<modes, queue, completed, capsule, runRoot, outcome>>

\* finally: SIGKILL to all that was listed, and the exit code is returned.
Returns(w, s) ==
  /\ killing = s /\ Has(w, s, "agent") /\ Ended(s)
  /\ killing' = NoScenario
  /\ Moves(w, s, "checks")
  /\ agent' = [agent EXCEPT ![s].procs = @ \cap {"late"}, ![s].exit = completionExitCode(@, agent[s].timedOut)]
  /\ UNCHANGED <<modes, queue, completed, capsule, runRoot, outcome>>

-----------------------------------------------------------------------------
\* The sandboxed checks pass, fail or throw; the result of the scenario follows
\* from them and the agent's exit code.
Check(w, s) ==
  /\ Has(w, s, "checks")
  /\ \/ \E checksPass \in BOOLEAN :
          /\ completed' = Append(completed, [id |-> s, passed |-> checksPass /\ agent[s].exit = 0])
          /\ Moves(w, NoScenario, "idle")
     \/ Rejects(w) /\ UNCHANGED completed
  /\ UNCHANGED <<killing, modes, queue, agent, capsule, runRoot, outcome>>

Settled == \A w \in Workers : work[w].at \in {"resolved", "rejected"}
Failed == \E w \in Workers : work[w].at = "rejected"

\* Mutant: Promise.all, which rejects with the first worker that does.
MutCollect ==
  /\ outcome = "none" /\ (Settled \/ Failed)
  /\ outcome' = IF Failed THEN "thrown" ELSE "published"
  /\ runRoot' = FALSE
  /\ UNCHANGED <<killing, modes, queue, work, completed, agent, capsule>>

\* Both workers have settled: a failure is thrown; otherwise the next mode
\* begins, or the evidence is published.  Either end removes runRoot.
Collect ==
  /\ outcome = "none" /\ Settled
  /\ IF Failed \/ Len(modes) = 1
       THEN /\ outcome' = IF Failed THEN "thrown" ELSE "published"
            /\ runRoot' = FALSE
            /\ UNCHANGED <<killing, modes, queue, work, completed, agent, capsule>>
       ELSE /\ modes' = Tail(modes)
            /\ queue' = [i \in ScenarioIds |-> i]
            /\ work' = Idle
            /\ completed' = <<>>
            /\ agent' = [s \in ScenarioIds |-> NoAgent]
            /\ UNCHANGED <<killing, capsule, runRoot, outcome>>

\* The workers go on, the timers fire, and nothing is asked of the agents.  While
\* the tree of one is killed the program does nothing else.
Progress ==
  \/ /\ killing = NoScenario
     /\ \/ Collect
        \/ \E w \in Workers :
             \/ TakeNext(w)
             \/ \E s \in ScenarioIds : MakeCapsule(w, s) \/ Spawn(w, s) \/ DropCapsule(w, s)
                                       \/ ListsWhatIsLeft(w, s) \/ Check(w, s)
        \/ \E s \in ScenarioIds : TimesOut(s) \/ ListsForKill(s)
  \/ \E s \in ScenarioIds : ForceKill(s) \/ \E w \in Workers : Returns(w, s)

BenchNext == Progress \/ \E s \in ScenarioIds : Fork(s) \/ Exits(s)

BenchSpec == BenchInit /\ [][BenchNext]_benchVars /\ WF_benchVars(Progress)
-----------------------------------------------------------------------------
Processes == {"codex", "child", "late"}

BenchTypeOK ==
  /\ modes \in {<<"control">>, <<"candidate">>, <<"control", "candidate">>}
  /\ queue \in Seq(ScenarioIds) /\ completed \in Seq([id : ScenarioIds, passed : BOOLEAN])
  /\ work \in [Workers -> [at : {"idle", "capsule", "spawn", "agent", "checks", "resolved", "rejected"},
                           id : ScenarioIds \cup {NoScenario}]]
  /\ agent \in [ScenarioIds -> [procs : SUBSET Processes, pipe : SUBSET Processes,
                                exit : {0, 1, 124}, timedOut : BOOLEAN, killed : BOOLEAN]]
  /\ killing \in ScenarioIds \cup {NoScenario}
  /\ capsule \in [ScenarioIds -> {"none", "there", "destroyed"}]
  /\ runRoot \in BOOLEAN /\ outcome \in {"none", "published", "thrown"}

\* No process of an agent outlives the call that started it, whatever it forked,
\* however it took the signals and whichever worker failed: none runs while its
\* repository is checked, and none when the directory of the run is removed.  The
\* one exception is what was started between the listing and the signals of the
\* last killTree, outside every group that is signalled.
NoAgentLeft ==
  \A s \in ScenarioIds :
    agent[s].procs \subseteq {"late"} \/ (runRoot /\ \E w \in Workers : Has(w, s, "agent"))

\* A process that the forced kill missed keeps the pipes open: nothing else will
\* end the call.
HeldUp(s) == agent[s].killed /\ "late" \in agent[s].pipe

\* What is published is one result for every scenario, and a scenario whose agent
\* was stopped by the time limit has not passed, even if the agent ended with 0.
EvidenceIsComplete ==
  outcome = "published" =>
    /\ Len(completed) = Cardinality(ScenarioIds)
    /\ \A s \in ScenarioIds : \E i \in 1..Len(completed) :
         completed[i].id = s /\ (agent[s].timedOut => ~completed[i].passed)
=============================================================================

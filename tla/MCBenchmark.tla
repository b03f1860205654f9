------------------------------ MODULE MCBenchmark ------------------------------
(***************************************************************************)
(* The benchmark: its run, the verdict on its results and the publication  *)
(* of its evidence, each explored by itself.                               *)
(***************************************************************************)
EXTENDS Publication, Benchmark, Evaluation

VARIABLE explored

mcVars == <<explored, pubVars, benchVars, evalVars>>

Base == [id |-> 1, exit |-> 0, checks |-> {"visible-tests", "hidden"}, failing |-> {},
         expected |-> {"skill"}, observed |-> {"skill", "shell"}, usage |-> 2, duration |-> 2, errors |-> 0]

\* A scenario that went well, and what may differ.
MCSamples ==
  {Base, [Base EXCEPT !.exit = 124], [Base EXCEPT !.failing = {"visible-tests"}],
   [Base EXCEPT !.failing = {"hidden"}], [Base EXCEPT !.observed = {"shell"}], [Base EXCEPT !.checks = {}],
   [Base EXCEPT !.usage = Unknown], [Base EXCEPT !.usage = Unknown, !.duration = 1], [Base EXCEPT !.usage = -1],
   [Base EXCEPT !.usage = 1, !.duration = 1], [Base EXCEPT !.usage = 1, !.duration = 1, !.exit = 124],
   [Base EXCEPT !.errors = 1], [Base EXCEPT !.usage = 0]}

\* Two scenarios; the control may name one twice.
MCControls == {<<a, [b EXCEPT !.id = rest]>> : a, b \in MCSamples, rest \in {1, 2}}
MCCandidates == {<<a, [b EXCEPT !.id = 2]>> : a, b \in MCSamples}

\* What is not explored stands still at one of its initial states.
StillPub == PubInit /\ final = NoFiles /\ sees
StillBench == BenchInit /\ Len(modes) = 1
StillEval == evidence = [control |-> <<Base>>, candidate |-> <<Base>>] /\ verdict = "none"

MCInit ==
  \/ explored = "publication" /\ PubInit /\ StillBench /\ StillEval
  \/ explored = "run" /\ StillPub /\ BenchInit /\ StillEval
  \/ explored = "verdict" /\ StillPub /\ StillBench /\ EvalInit

MCNext ==
  /\ UNCHANGED explored
  /\ \/ explored = "publication" /\ PubNext /\ UNCHANGED <<benchVars, evalVars>>
     \/ explored = "run" /\ BenchNext /\ UNCHANGED <<pubVars, evalVars>>
     \/ explored = "verdict" /\ Judge /\ UNCHANGED <<pubVars, benchVars>>

MCFairness == WF_mcVars(explored = "run" /\ Progress /\ UNCHANGED <<explored, pubVars, evalVars>>)

MCSpec == MCInit /\ [][MCNext]_mcVars /\ MCFairness

\* The run of a benchmark ends, published or not, whatever the agents do: one that
\* hangs, ignores SIGTERM, or leaves a descendant that keeps the pipes open holds it
\* up only until its time limit.  The one that can hold it up for good is a process
\* that the forced kill missed, as long as it keeps the pipes.
RunEnds == explored = "run" => <>(outcome # "none") \/ <>[](\E s \in ScenarioIds : HeldUp(s))
=============================================================================

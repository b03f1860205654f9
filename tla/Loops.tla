--------------------------------- MODULE Loops ---------------------------------
(***************************************************************************)
(* Three classes that tell an agent whether to try once more: LoopGovernor *)
(* (loop-governor.ts), GoalLoopOrchestrator (goal-orchestrator.ts) and     *)
(* evaluateConvergenceLoop (deliberation-gate.ts), fed with the results of *)
(* one agent that follows one of them.                                     *)
(*                                                                         *)
(* A result is a level: a pass rate, a score or a number of passing checks *)
(* out of Top.  Histories are kept as far as the classes look back; the    *)
(* length stops counting where no class tells lengths apart (MaxLength).   *)
(***************************************************************************)
EXTENDS Naturals, Sequences, SequencesExt, FiniteSetsExt

CONSTANTS
  Top,              \* the level at which every check passes
  target,           \* targetPassRate and targetScore
  maxIterations,
  plateauThreshold,
  SubGoals

ASSUME LoopsAssumption ==
  /\ Top \in Nat \ {0} /\ target \in 1..Top
  /\ maxIterations \in Nat \ {0} /\ plateauThreshold \in Nat \ {0}

VARIABLES
  follows,  \* the class whose answer the agent obeys
  recent,   \* the last results, latest last
  length,   \* how many there were
  step,     \* the number that the agent gave to the last one
  governor, \* LoopGovernor: what it answered, with the best rate
  goal,     \* GoalLoopOrchestrator: its fields and what it answered
  turns     \* evaluateConvergenceLoop: what it answered

loopVars == <<follows, recent, length, step, governor, goal, turns>>

Window == 3 \* of evaluateConvergenceLoop
Back == Max({Window, plateauThreshold})
MaxLength == Max({maxIterations, plateauThreshold + 1, Window})

LoopInit ==
  /\ follows \in {"governor", "goal", "turns"}
  /\ recent = <<>> /\ length = 0 /\ step = 0
  /\ governor = [status |-> "CONTINUE", best |-> 0]
  /\ goal = [status |-> "CONTINUE", iteration |-> 0, score |-> 0, completed |-> {}]
  /\ turns = "in_progress"

-----------------------------------------------------------------------------
Lately(rates, n) == SubSeq(rates, Len(rates) - n + 1, Len(rates))

\* Mutant: every result must be below the first of them.
MutStagnant(rates, n) == LET last == Lately(rates, n)
                         IN  \A k \in 1..n : last[k] < last[1]

\* None of the last n results is better than the first of them.
Stagnant(rates, n) == LET last == Lately(rates, n)
                      IN  \A k \in 1..n : last[k] <= last[1]

recordIteration(rates, len, n) ==
  [best |-> Max({governor.best, Last(rates)}),
   status |-> IF Last(rates) >= target THEN "CONVERGED"
              ELSE IF len > plateauThreshold /\ Stagnant(rates, plateauThreshold) THEN "PLATEAUED_HALT"
              ELSE IF n >= maxIterations THEN "MAX_ITERATIONS_HALT"
              ELSE "CONTINUE"]

\* evaluateIteration: once it has ended, it stays as it is.
Evaluated(rate, subgoals) ==
  IF goal.status # "CONTINUE" THEN goal
  ELSE LET score == Max({goal.score, rate})
           iteration == goal.iteration + 1
       IN  [iteration |-> iteration, score |-> score, completed |-> goal.completed \cup subgoals,
            status |-> IF score >= target THEN "CONVERGED"
                       ELSE IF iteration >= maxIterations THEN "HALTED_MAX_ITERATIONS"
                       ELSE "CONTINUE"]

\* evaluateConvergenceLoop.
Converges(rates, len) ==
  IF Last(rates) = Top THEN "converged"
  ELSE IF len >= maxIterations \/ (len >= Window /\ Stagnant(rates, Window)) THEN "stalled"
  ELSE "in_progress"

ToldToGoOn ==
  CASE follows = "governor" -> governor.status = "CONTINUE"
    [] follows = "goal" -> goal.status = "CONTINUE"
    [] OTHER -> turns = "in_progress"

\* The agent tries once more.  It may give the number of the last try again, as
\* it does when it takes one up anew.
Iterate ==
  /\ ToldToGoOn
  /\ \E rate \in 0..Top, n \in {step, Min({step + 1, MaxLength})}, subgoals \in SUBSET SubGoals :
       LET rates == LET all == Append(recent, rate) IN Lately(all, Min({Len(all), Back}))
           len == Min({length + 1, MaxLength})
       IN  /\ recent' = rates /\ length' = len /\ step' = n
           /\ governor' = recordIteration(rates, len, n)
           /\ goal' = Evaluated(rate, subgoals)
           /\ turns' = Converges(rates, len)
  /\ UNCHANGED follows

LoopNext == Iterate
=============================================================================

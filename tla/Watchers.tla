-------------------------------- MODULE Watchers --------------------------------
(***************************************************************************)
(* Classes that keep count of what an agent does: WatchdogInterceptor      *)
(* (watchdog-interceptor.ts), AutoResearchEngine (auto-research.ts) and    *)
(* AgentLifecycleStateMachine with its listeners.                          *)
(*                                                                         *)
(* Prompts and percentages as numbers are left out; of an improvement the  *)
(* sign is kept that it has as it is reported, after it was rounded to     *)
(* hundredths of a percent.  Bounds: the watchdog's counts stop at its     *)
(* threshold; MaxExperiments; MaxDepth calls of transition inside one      *)
(* another.                                                                *)
(***************************************************************************)
EXTENDS Integers, Sequences, SequencesExt, FiniteSets

CONSTANTS
  Commands, Errors, \* of the agent's turns
  NoError,          \* errorMessage is undefined
  maxRepeatThreshold,
  Measures,         \* what an experiment may measure
  MaxExperiments,
  Listeners,        \* 1..n, in the order of their registration
  Reentrant,        \* those that call transition when they are told
  MaxDepth

ASSUME WatchersAssumption ==
  /\ maxRepeatThreshold \in Nat \ {0} /\ MaxExperiments \in Nat /\ MaxDepth \in Nat
  /\ Measures \subseteq Int
  /\ Listeners = 1..Cardinality(Listeners) /\ IsFiniteSet(Listeners) /\ Reentrant \subseteq Listeners

VARIABLES
  watch,    \* SessionState of the last turn, and what was decided
  seen,     \* history: the last turns, as many as the threshold
  research, \* the hypothesis, bestValue, the winner, and what was kept
  measured, \* history: what was measured so far
  currentState, \* of the agent
  calls,    \* the calls of transition that have not returned, innermost last
  told      \* history: the state each listener was told last

watchVars == <<watch, seen>>
researchVars == <<research, measured>>
lifeVars == <<currentState, calls, told>>

WatchersInit ==
  /\ watch = [command |-> "none", error |-> NoError, repeat |-> 0, failing |-> 0, reason |-> "none"] /\ seen = <<>>
  /\ research \in [direction : {"MINIMIZE", "MAXIMIZE"}, baseline : Measures, best : Measures, winner : {0},
                   kept : {FALSE}, sign : {0}]
  /\ research.best = research.baseline /\ measured = <<>>
  /\ currentState = "IDLE" /\ calls = <<>> /\ told = [l \in Listeners |-> "IDLE"]

-----------------------------------------------------------------------------
Capped(n) == IF n > maxRepeatThreshold THEN maxRepeatThreshold ELSE n

\* Mutant: a success in between does not start the count anew.
MutFailing(success, error) ==
  IF watch.error = error \/ success THEN watch.failing + (IF success THEN 0 ELSE 1) ELSE 1

Failing(success, error) ==
  IF success THEN 0 ELSE IF seen # <<>> /\ watch.error = error THEN watch.failing + 1 ELSE 1

\* evaluateTurn.
Turn(command, success, error) ==
  LET repeat == Capped(IF seen # <<>> /\ watch.command = command THEN watch.repeat + 1 ELSE 1)
      failing == Capped(Failing(success, error))
      all == Append(seen, [command |-> command, success |-> success, error |-> error])
  IN  /\ watch' = [command |-> command, error |-> error, repeat |-> repeat, failing |-> failing,
                   reason |-> IF repeat >= maxRepeatThreshold THEN "repeated_command"
                              ELSE IF failing >= maxRepeatThreshold THEN "looping_failure" ELSE "none"]
      /\ seen' = IF Len(all) > maxRepeatThreshold THEN Tail(all) ELSE all

WatchNext ==
  \E command \in Commands, error \in Errors \cup {NoError}, success \in BOOLEAN :
    (success => error = NoError) /\ Turn(command, success, error)

Abs(n) == IF n < 0 THEN -n ELSE n

\* Half a hundredth of a percent is one part in so many.
Resolution == 20000

\* The sign of gain / baseline in percent, with two decimals: half a hundredth and
\* more is rounded up.  Of a baseline of 0 it is that of an infinity, or no number.
ReportedSign(gain, baseline) ==
  IF gain = 0 \/ Resolution * Abs(gain) < Abs(baseline) THEN 0 ELSE IF (gain > 0) <=> (baseline >= 0) THEN 1 ELSE -1

\* evaluateCandidate; the percentage is of the baseline, whatever its sign.
evaluateCandidate(value) ==
  LET minimize == research.direction = "MINIMIZE"
      gain == IF minimize THEN research.baseline - value ELSE value - research.baseline
      kept == IF minimize THEN value < research.best ELSE value > research.best
  IN  /\ research' = [research EXCEPT !.best = IF kept THEN value ELSE @,
                                      !.winner = IF kept THEN Len(measured) + 1 ELSE @,
                                      !.kept = kept, !.sign = ReportedSign(gain, research.baseline)]
      /\ measured' = Append(measured, value)

ResearchNext == Len(measured) < MaxExperiments /\ \E value \in Measures : evaluateCandidate(value)

-----------------------------------------------------------------------------
\* TRANSITION_MAP.
TRANSITION_MAP ==
  [IDLE |-> {<<"START", "TURNING">>, <<"STOP", "STOPPED">>},
   TURNING |-> {<<"MUTATE", "MUTATING">>, <<"TICK_INTERVAL", "CHECKPOINT_DUE">>, <<"VERIFY", "VERIFYING">>,
                <<"STOP", "STOPPED">>},
   MUTATING |-> {<<"VERIFY", "VERIFYING">>, <<"TICK_INTERVAL", "CHECKPOINT_DUE">>, <<"STOP", "STOPPED">>},
   CHECKPOINT_DUE |-> {<<"VERIFY", "VERIFYING">>, <<"STOP", "STOPPED">>},
   VERIFYING |-> {<<"COMPLETE_VERIFICATION", "TURNING">>, <<"STOP", "STOPPED">>},
   STOPPED |-> {<<"RESET", "IDLE">>, <<"STOP", "STOPPED">>}]

\* Mutant: the listeners are told of a state that is not set.
MutTransition(new) == calls' = Append(calls, [new |-> new, next |-> 1]) /\ UNCHANGED currentState

\* transition: the state is set, then the listeners are told one by one.
Transition(new) == calls' = Append(calls, [new |-> new, next |-> 1]) /\ currentState' = new

FromOutside ==
  /\ calls = <<>>
  /\ \E t \in TRANSITION_MAP[currentState] : Transition(t[2])
  /\ UNCHANGED told

\* The innermost call tells its next listener, or returns.
Tell ==
  /\ calls # <<>>
  /\ LET call == Last(calls)
         rest == Front(calls)
     IN  IF call.next \notin Listeners THEN calls' = rest /\ UNCHANGED <<currentState, told>>
         ELSE /\ told' = [told EXCEPT ![call.next] = call.new]
              /\ calls' = Append(rest, [call EXCEPT !.next = @ + 1]) /\ UNCHANGED currentState

\* A listener calls transition from within, just after it was told.
FromListener ==
  /\ calls # <<>> /\ Len(calls) < MaxDepth
  /\ Last(calls).next - 1 \in Reentrant
  /\ \E t \in TRANSITION_MAP[currentState] : Transition(t[2])
  /\ UNCHANGED told

LifeNext == FromOutside \/ Tell \/ FromListener

LifeSpec == WatchersInit /\ [][LifeNext]_lifeVars

\* The watchdog and the engine of one session.
CountsNext ==
  \/ WatchNext /\ UNCHANGED researchVars
  \/ ResearchNext /\ UNCHANGED watchVars

CountsSpec == WatchersInit /\ [][CountsNext]_<<watchVars, researchVars>>
-----------------------------------------------------------------------------
\* The counts that are carried from turn to turn say what the turns themselves say:
\* the watchdog fires on a threshold of equal commands or of failures with the
\* same error and no success in between, and on nothing else; the winner is the
\* first of the best experiments, if one is better than the baseline; and what is
\* kept over a baseline that is not negative is never reported as a change for the
\* worse, and as none at all only where it is less than half a hundredth of a percent.
CountsAreExact ==
  LET all(P(_)) == Len(seen) = maxRepeatThreshold /\ \A k \in DOMAIN seen : P(seen[k])
      beats(a, b) == IF research.direction = "MINIMIZE" THEN a < b ELSE a > b
      best == {k \in DOMAIN measured : /\ beats(measured[k], research.baseline)
                                       /\ \A j \in DOMAIN measured : ~beats(measured[j], measured[k])
                                       /\ \A j \in 1..k - 1 : measured[j] # measured[k]}
  IN  /\ (watch.reason = "repeated_command") <=> all(LAMBDA t : t.command = watch.command)
      /\ (watch.reason = "looping_failure") <=>
           ~all(LAMBDA t : t.command = watch.command) /\ all(LAMBDA t : ~t.success /\ t.error = watch.error)
      /\ best = {research.winner} \ {0}
      /\ research.kept /\ research.baseline >= 0 =>
           \/ research.sign = 1
           \/ research.sign = 0 /\ Resolution * Abs(research.best - research.baseline) < research.baseline

\* When transition has returned, the listeners up to the first that calls it from
\* within know the agent's state; those after it may have been told an old one
\* last.
ListenersKnow ==
  calls = <<>> =>
    \A l \in Listeners : (\A r \in Reentrant : l <= r) => told[l] = currentState
=============================================================================

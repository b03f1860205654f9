------------------------------- MODULE Evaluation -------------------------------
(***************************************************************************)
(* From the evidence of agents to a verdict: deriveScenarioResult          *)
(* (src/harness.ts), extractTelemetry, summarizeBenchmark and              *)
(* compareBenchmarks (src/runner.ts).                                      *)
(*                                                                         *)
(* Events and texts are left out: the evidence of a scenario is the exit   *)
(* code of its agent, the checks that failed, the tools seen, the usage    *)
(* that was reported, its duration and the errors counted.  Rates are      *)
(* exact integers in units of 1/Unit.  A reduction keeps its sign only.    *)
(***************************************************************************)
EXTENDS Integers, Sequences, FiniteSets

CONSTANTS
  Controls, Candidates, \* the evidence of a control's and a candidate's scenarios
  Unit,     \* a multiple of every number of checks and tools
  Unknown,  \* null: no usage was reported
  Spends    \* the tokens a scenario may have used when none were reported

Evidence == [id : Nat, exit : Nat, checks : SUBSET STRING, failing : SUBSET STRING,
             expected : SUBSET STRING, observed : SUBSET STRING,
             usage : Int \cup {Unknown}, duration : Nat, errors : Nat]

ASSUME EvaluationAssumption ==
  /\ \A es \in Controls \cup Candidates : es \in Seq(Evidence)
  /\ Spends \subseteq Nat

VARIABLES
  evidence,  \* of the control and of the candidate
  verdict    \* compareBenchmarks: "none", "accepted" or "rejected"

evalVars == <<evidence, verdict>>

Total(numbers) ==
  LET sum[i \in 0..Len(numbers)] == IF i = 0 THEN 0 ELSE sum[i - 1] + numbers[i]
  IN  sum[Len(numbers)]
Column(records, field) == [i \in DOMAIN records |-> records[i][field]]
Count(results, test(_)) == Cardinality({i \in DOMAIN results : test(results[i])})
Rate(part, whole, none) == IF whole = 0 THEN none ELSE (Unit * part) \div whole

\* usageAvailable: usage counts only when it is there and not negative.
Tokens(usage) == IF usage # Unknown /\ usage >= 0 THEN usage ELSE Unknown

\* The tests an agent can see do not count for the quality.
Quality(checks) == checks \ {"visible-tests"}

\* Mutant: checks count alone, whatever the agent's exit code.
MutDerive(e) ==
  [id |-> e.id,
   passed |-> e.checks # {} /\ e.failing = {},
   checksPassed |-> Cardinality(e.checks \ e.failing),
   checksTotal |-> Cardinality(e.checks),
   testQuality |-> Rate(Cardinality(Quality(e.checks) \ e.failing), Cardinality(Quality(e.checks)), 0),
   toolAccuracy |-> Rate(Cardinality(e.expected \cap e.observed), Cardinality(e.expected), Unit),
   tokens |-> Tokens(e.usage), duration |-> e.duration, errors |-> e.errors]

deriveScenarioResult(e) ==
  [id |-> e.id,
   passed |-> e.exit = 0 /\ e.checks # {} /\ e.failing = {},
   checksPassed |-> Cardinality(e.checks \ e.failing),
   checksTotal |-> Cardinality(e.checks),
   testQuality |-> Rate(Cardinality(Quality(e.checks) \ e.failing), Cardinality(Quality(e.checks)), 0),
   toolAccuracy |-> Rate(Cardinality(e.expected \cap e.observed), Cardinality(e.expected), Unit),
   tokens |-> Tokens(e.usage), duration |-> e.duration, errors |-> e.errors]

\* Rates are sums here: they are compared over the same number of scenarios, or
\* the verdict is no anyway.
summarizeBenchmark(results) ==
  [passed |-> Count(results, LAMBDA r : r.passed),
   scenarios |-> Len(results),
   completion |-> Rate(Count(results, LAMBDA r : r.passed), Len(results), 0),
   testQuality |-> Total(Column(results, "testQuality")),
   toolAccuracy |-> Total(Column(results, "toolAccuracy")),
   duration |-> Total(Column(results, "duration")),
   errors |-> Total(Column(results, "errors"))]

reduction(control, candidate) ==
  IF control = 0 THEN (IF candidate = 0 THEN 0 ELSE -1) ELSE control - candidate

Ids(results) == {results[i].id : i \in DOMAIN results}

uniqueScenarioSetMatches(control, candidate) ==
  /\ Cardinality(Ids(control)) = Len(control)
  /\ Cardinality(Ids(candidate)) = Len(candidate)
  /\ Ids(control) = Ids(candidate)

KnownTokens(results) == [i \in DOMAIN results |-> IF results[i].tokens = Unknown THEN 0 ELSE results[i].tokens]

\* The control's missing usage is left out, the candidate's is a refusal.
conservativeTokenReduction(control, candidate) ==
  IF (\E i \in DOMAIN candidate : candidate[i].tokens = Unknown) \/ Total(KnownTokens(control)) = 0 THEN -1
  ELSE reduction(Total(KnownTokens(control)), Total(KnownTokens(candidate)))

candidateEvidenceComplete(candidate) ==
  \A i \in DOMAIN candidate : LET r == candidate[i]
                              IN  r.passed /\ r.checksTotal > 0 /\ r.checksPassed = r.checksTotal
                                  /\ r.tokens # Unknown

noQualityRegression(control, candidate) ==
  /\ candidate.completion >= control.completion
  /\ candidate.testQuality >= control.testQuality
  /\ candidate.toolAccuracy >= control.toolAccuracy

\* accepted
compareBenchmarks(control, candidate, rollbackVerified) ==
  LET a == summarizeBenchmark(control)
      b == summarizeBenchmark(candidate)
  IN  /\ rollbackVerified
      /\ uniqueScenarioSetMatches(control, candidate)
      /\ candidateEvidenceComplete(candidate)
      /\ b.passed = b.scenarios
      /\ noQualityRegression(a, b)
      /\ reduction(a.duration, b.duration) > 0
      /\ conservativeTokenReduction(control, candidate) > 0
      /\ reduction(a.errors, b.errors) >= 0

\* The evidence as it stands, one record per scenario.
EvalInit == evidence \in [control : Controls, candidate : Candidates] /\ verdict = "none"

Results(es) == [i \in DOMAIN es |-> deriveScenarioResult(es[i])]

\* rollbackVerified compares the global state around the candidate's runs.
Judge ==
  /\ verdict = "none"
  /\ \E rollbackVerified \in BOOLEAN :
       verdict' = IF compareBenchmarks(Results(evidence.control), Results(evidence.candidate), rollbackVerified)
                  THEN "accepted" ELSE "rejected"
  /\ UNCHANGED evidence

EvalSpec == EvalInit /\ [][Judge]_evalVars
-----------------------------------------------------------------------------
\* The tokens a scenario may have used, and those of all.
MaySpend(e) == IF Tokens(e.usage) = Unknown THEN Spends ELSE {e.usage}
Spendings(es) == {f \in [DOMAIN es -> UNION {MaySpend(es[i]) : i \in DOMAIN es}] :
                    \A i \in DOMAIN es : f[i] \in MaySpend(es[i])}

\* An accepted candidate is really better: every agent ended with 0 and passed
\* every check, for each of the control's scenarios; it was faster in sum, with
\* no more errors; and its tokens are fewer whatever the control spent where
\* its usage is unknown.
AcceptedIsBetter ==
  verdict = "accepted" =>
    LET es == evidence.candidate
        cs == evidence.control
    IN  /\ \A i \in DOMAIN es : es[i].exit = 0 /\ es[i].failing = {} /\ es[i].checks # {}
        /\ \A i \in DOMAIN cs : \E j \in DOMAIN es : es[j].id = cs[i].id
        /\ Total(Column(es, "duration")) < Total(Column(cs, "duration"))
        /\ Total(Column(es, "errors")) <= Total(Column(cs, "errors"))
        /\ \A x \in Spendings(cs), u \in Spendings(es) : Total(u) < Total(x)
=============================================================================

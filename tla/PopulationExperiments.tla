------------------------- MODULE PopulationExperiments -------------------------
(***************************************************************************)
(* The executors that ask the population quantities of one cell:           *)
(* experiments/solver_validation.py, safety.py, timing.py, feasibility.py, *)
(* decision_value.py, failure_boundaries.py, foreign_information.py and    *)
(* real_trajectory.py.  An experiment calls the solver once for each of    *)
(* its budgets and summaries, in order, and judges the answers: against    *)
(* the oracle of math/oracle.py, against each other, and against a risk    *)
(* budget.  The same judgement is written in several places, with a guard  *)
(* in some and without it in others.                                       *)
(***************************************************************************)
EXTENDS HiddenMassSolver, Sequences

CONSTANTS
  ComparisonGuard,   \* comparison_guard, in units of information and in ticks
  IdentityMass,      \* identity_atol, in ticks
  FloorOffset,       \* compatibility_floor_offset
  SharpnessOffset,   \* sharpness_diagnostic_offset
  BoundaryMargin,    \* boundary_margin, in ticks
  HarmOffset,        \* resolved_harm_boundary_offset, in ticks
  Tightening,        \* materiality: ticks a bound must gain ...
  RelativeGain,      \* ... and percent of the unresolved mass
  Experiments

ASSUME ToleranceAssumption ==
  /\ ComparisonGuard \in Nat /\ IdentityMass \in Nat
  /\ FloorOffset > ComparisonGuard /\ SharpnessOffset > ComparisonGuard
  /\ 2 * RootAtol =< IdentityMass
  /\ BoundaryMargin \in Nat /\ HarmOffset \in Nat \ {0} /\ Tightening \in Int
  /\ \A r \in Roundings : Magnitude(r) =< ComparisonGuard

\* What the hidden mass adds to the timing information is a matter of the three masses:
\* of the terms of the profile only the floor sees the bands.
SameMasses(p, q) ==
  p.harmful = q.harmful /\ p.correct = q.correct /\ p.unresolved = q.unresolved
ASSUME MassesAssumption ==
  \A p, q \in Populations : SameMasses(p, q) /\ HasResolved(p) =>
    \A u \in 0..p.unresolved : Excess(p, u) = Excess(q, u)

\* The three masses add up to one within comparison_guard, and so the latent risk of the
\* point of minimum information, a quotient, is that far from the risk of its hidden mass.
ASSUME LatentRiskAssumption ==
  \A p \in Populations : HasResolved(p) =>
    /\ ThetaDagger(p) \in Nat
    /\ Magnitude(ThetaDagger(p) - (p.harmful + Dagger(p))) =< ComparisonGuard

VARIABLES
  experiment,   \* what the cell evaluates
  asked,        \* how many of its calls the solver has been given
  answers       \* what the solver returned to them

experimentVars == <<experiment, asked, answers>>

Call(p, rho) == [population |-> p, rho |-> rho]

\* Mutant: the information at the horizon as it was computed.
HorizonInformationUnclamped(e) ==
  LET information == Information(e.population, e.truth) + e.rounding
  IN IF HasResolved(e.population) /\ information >= 0 THEN information ELSE 0

\* _horizon_information: that of the true hidden mass as computed, but at
\* least tau
HorizonInformation(e) ==
  LET information == Information(e.population, e.truth) + e.rounding
  IN IF ~HasResolved(e.population) THEN 0
     ELSE IF information < Tau(e.population) THEN Tau(e.population) ELSE information

\* _foreign_path_summary: the masses of the local law under the timing of the
\* foreign one; _naive_pooled_summary: the mean of the two laws.  A point is
\* the foreign law, or a blend of it with the local one.
PathSummary(local, point) == [local EXCEPT !.floor = point.pathFloor]
PooledSummary(local, point) ==
  [harmful |-> (local.harmful + point.harmful) \div 2,
   correct |-> (local.correct + point.correct) \div 2,
   unresolved |-> (local.unresolved + point.unresolved) \div 2,
   floor |-> point.pooledFloor]

\* evaluate_failure_boundary: where the axis moves a budget and not the law
BoundaryRho(e) ==
  IF e.axis = "INFORMATION_MARGIN" THEN TauOrZero(e.population) + e.level ELSE e.rho
BoundaryBeta(e) ==
  LET offset == e.level + IF HasResolved(e.population) THEN ThetaDagger(e.population) ELSE 0
  IN IF e.axis # "RISK_OFFSET" THEN e.beta
     ELSE IF offset < 0 THEN 0 ELSE IF offset > Whole THEN Whole ELSE offset

SharpnessCalls(p) == <<Call(p, TauOrZero(p) + SharpnessOffset)>>

\* Below, at and above the floor; no call with a negative budget
FloorCalls(p) ==
  LET tau == TauOrZero(p)
  IN (IF tau < FloorOffset THEN <<>> ELSE <<Call(p, tau - FloorOffset)>>)
     \o <<Call(p, tau), Call(p, tau + FloorOffset)>>

\* The local law, then every point under its path and pooled
ForeignCalls(e) ==
  <<Call(e.population, e.rho)>> \o
  [i \in 1..(2 * Len(e.points)) |->
     LET point == e.points[(i + 1) \div 2]
     IN Call(IF i % 2 = 1 THEN PathSummary(e.population, point)
                          ELSE PooledSummary(e.population, point), e.rho)]

\* The grid, the diagnostic budget, the floor and the horizon's information
TrajectoryCalls(e) ==
  LET p == e.population
  IN <<Call(p, e.rho), Call(p, TauOrZero(p) + SharpnessOffset)>>
     \o (IF HasResolved(p) THEN <<Call(p, Tau(p))>> ELSE <<>>)
     \o <<Call(p, HorizonInformation(e))>>

\* The solver calls of an experiment, in the order its executor makes them
Calls(e) ==
  CASE e.kind = "SHARPNESS" -> SharpnessCalls(e.population)
    [] e.kind = "FLOOR" -> FloorCalls(e.population)
    [] e.kind \in {"COHERENCE", "ENDPOINT"} -> <<Call(e.population, e.rho), Call(e.other, e.rho)>>
    [] e.kind = "FOREIGN" -> ForeignCalls(e)
    [] e.kind = "SOLVER" -> <<Call(e.population, e.rho)>>
    [] e.kind = "BOUNDARY" -> <<Call(e.population, BoundaryRho(e))>>
    [] e.kind = "TRAJECTORY" -> TrajectoryCalls(e)

\* How far rounding moves the crossing of a budget: of two masses on one side of the point of
\* minimum information, the one farther out may show as within, the nearer one as beyond it.
CrossingIsSharp(p, rho) ==
  HasResolved(p) /\ p.floor < rho =>
    \A within, beyond \in 0..p.unresolved : \A r, s \in Roundings \cup {0} :
      /\ \/ within < beyond /\ beyond =< Dagger(p)
         \/ Dagger(p) =< beyond /\ beyond < within
      /\ Information(p, within) + s =< rho /\ rho =< Information(p, beyond) + r
      => 2 * (RootAtol + Magnitude(within - beyond)) =< IdentityMass

\* The call at the information of the horizon, the last one of a trajectory
AtHorizon(e, i) == e.kind = "TRAJECTORY" /\ i = Len(Calls(e))

\* The budgets a study configures are on the floor or well above it, where the profile is
\* steep against its rounding. The information of a horizon may be anywhere above the floor.
ASSUME CrossingAssumption ==
  \A e \in Experiments : \A i \in DOMAIN Calls(e) :
    AtHorizon(e, i) \/ CrossingIsSharp(Calls(e)[i].population, Calls(e)[i].rho)

\* The experiments of a study, by what their summaries are made from: a coarse summary
\* and one without timing have the masses of the other, and coarsening loses timing
\* information; timing_gain raises for a summary without resolved mass.
ASSUME ExperimentsAssumption ==
  \A e \in Experiments :
    /\ e.population \in Populations
    /\ Calls(e) \in Seq([population : Populations, rho : Nat])
    /\ e.kind \in {"COHERENCE", "ENDPOINT"} => SameMasses(e.population, e.other)
    /\ e.kind = "COHERENCE" => HasResolved(e.population) /\ e.other.floor =< e.population.floor
    /\ e.kind \in {"FOREIGN", "TRAJECTORY"} => e.truth \in 0..e.population.unresolved
    /\ e.kind = "FOREIGN" => Len(e.points) \in Nat /\ DOMAIN e.points = 1..Len(e.points)
    /\ e.kind = "TRAJECTORY" => e.rounding \in Roundings
    /\ e.kind = "BOUNDARY" => e.beta \in Nat /\ e.level \in Int

-----------------------------------------------------------------------------
(* The oracle                                                              *)

\* The golden section ends on the point of minimum information and the two
\* bisections on the ends of the masses within the budget, far inside a tick.
MassesWithin(p, rho) == {u \in 0..p.unresolved : Information(p, u) =< rho}
Lowest(S) == CHOOSE x \in S : \A y \in S : x =< y
Highest(S) == CHOOSE x \in S : \A y \in S : y =< x

\* _solve_information_oracle_data: the equality with the floor is judged
\* within the guard, and before the unresolved mass is looked at.
OracleRegime(p, rho) ==
  IF ~HasResolved(p) THEN "NO_RESOLVED_MASS"
  ELSE IF rho < p.floor - ComparisonGuard THEN "MODEL_INCOMPATIBLE"
  ELSE IF Magnitude(rho - p.floor) =< ComparisonGuard THEN "MINIMUM_INFORMATION_SINGLETON"
  ELSE IF p.unresolved = 0 THEN "NO_UNRESOLVED_MASS" ELSE "COMPATIBLE_INTERVAL"

OracleInterval(p, rho) ==
  LET regime == OracleRegime(p, rho)
  IN CASE regime = "MODEL_INCOMPATIBLE" -> Nothing
       [] regime = "NO_RESOLVED_MASS" -> [lower |-> 0, upper |-> p.unresolved]
       [] regime = "MINIMUM_INFORMATION_SINGLETON" -> [lower |-> Dagger(p), upper |-> Dagger(p)]
       [] OTHER -> [lower |-> Lowest(MassesWithin(p, rho)), upper |-> Highest(MassesWithin(p, rho))]

Apart(x, y) == Magnitude(x.lower - y.lower) > IdentityMass \/ Magnitude(x.upper - y.upper) > IdentityMass

\* compare_production_solver_to_oracle
Agrees(a) ==
  LET oracle == OracleInterval(a.population, a.rho)
      brackets == {r \in {a.roots.lower, a.roots.upper} : r.status # "NONE"}
  IN /\ Regime(a.population, a.rho) = OracleRegime(a.population, a.rho)
     /\ (a.interval = Nothing) = (oracle = Nothing)
     /\ a.interval # Nothing => ~Apart(a.interval, oracle)
     /\ \A r \in brackets : /\ BracketWidth(r) =< RootAtol
                            /\ r.status # "EXACT_BOUNDARY" => r.residual =< IdentityInformation

-----------------------------------------------------------------------------
(* Judgements of one answer                                                *)

HasInterval(a) == a.interval # Nothing
RiskLower(a) == a.population.harmful + a.interval.lower
RiskUpper(a) == a.population.harmful + a.interval.upper

\* _population_state of the failure boundaries
BoundaryState(a, beta) ==
  IF ~HasInterval(a) THEN "MODEL_INCOMPATIBLE"
  ELSE IF HasResolved(a.population) /\ Tau(a.population) > a.rho THEN "MODEL_INCOMPATIBLE"
  ELSE IF HasResolved(a.population) /\ ThetaDagger(a.population) > beta
       THEN "INTRINSICALLY_UNCERTIFIABLE"
  ELSE IF RiskUpper(a) =< beta THEN "CERTIFIED" ELSE "UNCERTIFIED"

\* Mutant: the certified margin is compared up to the guard.
FeasibilityGuarded(a, beta) ==
  IF HasResolved(a.population) /\ Tau(a.population) > a.rho + ComparisonGuard
  THEN "MODEL_INCOMPATIBLE"
  ELSE IF HasResolved(a.population) /\ ThetaDagger(a.population) > beta + ComparisonGuard
  THEN "INTRINSICALLY_UNCERTIFIABLE"
  ELSE IF ~HasInterval(a) THEN "MODEL_INCOMPATIBLE"
  ELSE IF beta + ComparisonGuard < RiskUpper(a) THEN "COMPATIBLE_NOT_CERTIFIABLE"
  ELSE "BOUNDARY_CERTIFIABLE"

\* _classify_feasibility
Feasibility(a, beta) ==
  IF HasResolved(a.population) /\ Tau(a.population) > a.rho + ComparisonGuard
  THEN "MODEL_INCOMPATIBLE"
  ELSE IF HasResolved(a.population) /\ ThetaDagger(a.population) > beta + ComparisonGuard
  THEN "INTRINSICALLY_UNCERTIFIABLE"
  ELSE IF ~HasInterval(a) THEN "MODEL_INCOMPATIBLE"
  ELSE IF beta < RiskUpper(a) THEN "COMPATIBLE_NOT_CERTIFIABLE"
  ELSE IF beta - RiskUpper(a) < BoundaryMargin THEN "BOUNDARY_CERTIFIABLE"
  ELSE "STRICTLY_CERTIFIABLE"

\* _STATE_BY_CLASS of the decision values
StateByClass ==
  [STRICTLY_CERTIFIABLE |-> "CERTIFIED", BOUNDARY_CERTIFIABLE |-> "CERTIFIED",
   COMPATIBLE_NOT_CERTIFIABLE |-> "UNCERTIFIED", MODEL_INCOMPATIBLE |-> "MODEL_INCOMPATIBLE",
   INTRINSICALLY_UNCERTIFIABLE |-> "INTRINSICALLY_UNCERTIFIABLE"]

\* _classify_scientific_state of the real trajectories, with events enough
TrajectoryState(a, beta) ==
  IF Regime(a.population, a.rho) = "MODEL_INCOMPATIBLE" THEN "MODEL_INCOMPATIBLE"
  ELSE IF HasResolved(a.population) /\ ThetaDagger(a.population) > beta + ComparisonGuard
  THEN "INTRINSICALLY_UNCERTIFIABLE"
  ELSE IF ~HasInterval(a) THEN "INSUFFICIENT_EVIDENCE"
  ELSE IF RiskUpper(a) =< beta THEN "CERTIFIED" ELSE "UNCERTIFIED"

\* population_sensitivity_utility with population_gain
MateriallyNonvacuous(a) ==
  LET gain == UnresolvedAsHarm(a.population) - RiskUpper(a)
  IN /\ HasInterval(a) /\ a.population.unresolved > 0
     /\ gain >= Tightening /\ 100 * gain >= RelativeGain * a.population.unresolved

\* _contains: the true risk is in the interval, up to identity_atol
Contains(a, risk) ==
  HasInterval(a) /\ RiskLower(a) - IdentityMass =< risk /\ risk =< RiskUpper(a) + IdentityMass

\* safety_and_intrinsic_impossibility
SafetyCasePasses(p, name) ==
  LET beta == SafetyBudgetCases(p, HarmOffset)[name]
  IN beta # None => SafetyRegime(p, beta) = ExpectedRegime[name]

-----------------------------------------------------------------------------
(* Judgements of several answers                                           *)

\* evaluate_partition_coherence, the fine summary first
CoherencePasses(fine, coarse) ==
  /\ Tau(fine.population) + IdentityInformation >= Tau(coarse.population)
  /\ \A u \in 0..fine.population.unresolved :
       Magnitude((Information(fine.population, u) - Information(coarse.population, u))
                  - (Tau(fine.population) - Tau(coarse.population))) =< IdentityInformation
  /\ IF HasInterval(fine) /\ HasInterval(coarse)
     THEN /\ RiskLower(fine) + IdentityMass >= RiskLower(coarse)
          /\ RiskUpper(fine) =< RiskUpper(coarse) + IdentityMass
     ELSE ~HasInterval(fine)

\* evaluate_same_endpoint_different_timing, the summary without timing first
SameEndpoint(p, q) ==
  /\ Magnitude(p.harmful - q.harmful) =< IdentityMass
  /\ Magnitude(Resolved3(p) - p.harmful - (Resolved3(q) - q.harmful)) =< IdentityMass
  /\ Magnitude(p.unresolved - q.unresolved) =< IdentityMass

\* Mutant: the lower ends are compared the other way round.
EndpointPassesReversed(plain, timed) ==
  /\ SameEndpoint(plain.population, timed.population)
  /\ HasInterval(plain) /\ HasInterval(timed) =>
       /\ TauOrZero(timed.population) + IdentityInformation >= TauOrZero(plain.population)
       /\ RiskLower(plain) + IdentityMass >= RiskLower(timed)
       /\ RiskUpper(timed) =< RiskUpper(plain) + IdentityMass

EndpointPasses(plain, timed) ==
  /\ SameEndpoint(plain.population, timed.population)
  /\ HasInterval(plain) /\ HasInterval(timed) =>
       /\ TauOrZero(timed.population) + IdentityInformation >= TauOrZero(plain.population)
       /\ RiskLower(timed) + IdentityMass >= RiskLower(plain)
       /\ RiskUpper(timed) =< RiskUpper(plain) + IdentityMass

\* _fixed_risk_budget of the foreign-information control
FixedRiskBudget(p) ==
  LET cases == SafetyBudgetCases(p, HarmOffset)
  IN IF cases.INTERIOR_SAFETY_FRONTIER # None THEN cases.INTERIOR_SAFETY_FRONTIER
     ELSE cases.ASSUMPTION_FREE_BOUNDARY

\* _evaluate_condition: the errors one condition shows about the true risk
Misses(a, risk) == HasInterval(a) /\ ~Contains(a, risk)
Underestimates(a, risk) == HasInterval(a) /\ RiskUpper(a) < risk - IdentityMass
FalselyCertifies(a, risk, beta) == HasInterval(a) /\ RiskUpper(a) =< beta /\ risk > beta + IdentityMass

\* _introduces_error
IntroducesError(local, other, risk, beta) ==
  \/ Misses(other, risk) /\ ~Misses(local, risk)
  \/ Underestimates(other, risk) /\ ~Underestimates(local, risk)
  \/ FalselyCertifies(other, risk, beta) /\ ~FalselyCertifies(local, risk, beta)

\* _effect
Effect(local, other, risk, beta) ==
  IF ~HasInterval(other) THEN "MODEL_INCOMPATIBLE"
  ELSE IF IntroducesError(local, other, risk, beta) THEN "ERRONEOUS_BOUND"
  ELSE IF ~HasInterval(local) THEN "NO_CHANGE"
  ELSE IF BracketWidth(other.interval) - BracketWidth(local.interval) < -IdentityMass THEN "BENIGN_TIGHTENING"
  ELSE IF BracketWidth(other.interval) - BracketWidth(local.interval) > IdentityMass THEN "CONSERVATIVE_WIDENING"
  ELSE "NO_CHANGE"

\* Mutant: the regimes are compared the other way round.
SpuriousImprovementReversed(local, other, beta) ==
  \/ Severity[SafetyRegime(other.population, beta)] < Severity[SafetyRegime(local.population, beta)]
  \/ /\ HasInterval(local) /\ HasInterval(other)
     /\ BracketWidth(other.interval) - IdentityMass < BracketWidth(local.interval)

\* _is_spurious_improvement
SpuriousImprovement(local, other, beta) ==
  \/ Severity[SafetyRegime(other.population, beta)] > Severity[SafetyRegime(local.population, beta)]
  \/ /\ HasInterval(local) /\ HasInterval(other)
     /\ BracketWidth(other.interval) < BracketWidth(local.interval) - IdentityMass

-----------------------------------------------------------------------------
(* The cell                                                                *)

Given == [population |-> request.population, rho |-> request.rho,
          interval |-> answer, roots |-> roots]

Remaining == asked < Len(Calls(experiment))

AskNext ==
  /\ Remaining
  /\ \E r \in Roundings :
       request' = [population |-> Calls(experiment)[asked + 1].population,
                   rho |-> Calls(experiment)[asked + 1].rho, rounding |-> r]
  /\ Ask
  /\ asked' = asked + 1
  /\ answers' = IF stage = "answered" THEN Append(answers, Given) ELSE answers
  /\ UNCHANGED experiment

Conclude ==
  /\ ~Remaining /\ stage = "answered"
  /\ answers' = Append(answers, Given)
  /\ stage' = "concluded"
  /\ UNCHANGED <<experiment, asked, request, bracket, shortcut, iterations, roots, answer>>

ExperimentInit ==
  /\ experiment \in Experiments /\ asked = 0 /\ answers = <<>>
  /\ request = [population |-> experiment.population, rho |-> 0,
                rounding |-> CHOOSE r \in Roundings : TRUE]
  /\ stage = "idle"
  /\ bracket = Nothing /\ shortcut = Nothing /\ iterations = 0
  /\ roots = [lower |-> NoRoot, upper |-> NoRoot] /\ answer = Nothing

ExperimentNext ==
  \/ AskNext
  \/ Solve /\ UNCHANGED experimentVars
  \/ Conclude

ExperimentSpec == ExperimentInit /\ [][ExperimentNext]_<<solverVars, experimentVars>>

-----------------------------------------------------------------------------
(* Properties                                                              *)

Concluded == stage = "concluded"
Last == answers[Len(answers)]

\* The production solver and the oracle give the same regime and, within the
\* tolerances, the same interval, whatever part of the bisection was skipped.
\* They may differ only where they judge equality with the floor differently:
\* at a budget within the guard of the floor but not on it, or on it with no
\* unresolved mass (compare_production_solver_to_oracle); at the information of
\* a horizon the code does not compare them.
SolverAgreesWithOracle ==
  \A i \in DOMAIN answers :
    LET a == answers[i]
        distance == Magnitude(a.rho - TauOrZero(a.population))
        contested == /\ HasResolved(a.population) /\ distance =< ComparisonGuard
                     /\ distance > 0 \/ a.population.unresolved = 0
    IN Agrees(a) \/ contested \/ AtHorizon(experiment, i)

\* Three modules turn an answer and a risk budget into a state, two with the
\* guard and one without.  They differ only inside the guard; the two with it
\* agree on certification, and the one without certifies nothing they do not.
\* A certified budget is one the safety frontier allows and an uncertified one
\* it forbids, up to identity_atol and where the guard of the latent risk does
\* not decide; a bound that is material certifies a budget the worst case does
\* not; and the cases of safety_budget_cases lie in the regimes they are named
\* for just when no mass is zero, unless the risk of minimum information is
\* within the guard of an end (failure_boundaries.py, feasibility.py,
\* sensitivity.py, real_trajectory.py, safety.py).
VerdictsAgree ==
  Concluded /\ experiment.kind = "BOUNDARY" =>
    LET p == experiment.population
        beta == BoundaryBeta(experiment)
        boundary == BoundaryState(Last, beta)
        decision == StateByClass[Feasibility(Last, beta)]
        trajectory == TrajectoryState(Last, beta)
        inside(x, y) == x < y /\ y =< x + ComparisonGuard
        near(x, y) == Magnitude(x - y) =< ComparisonGuard
        guarded == HasResolved(p) /\ (inside(Last.rho, Tau(p)) \/ inside(beta, ThetaDagger(p)))
        allowed(b) == \/ SafetyRegime(p, b) = "ASSUMPTION_FREE_SAFE"
                      \/ SafetyFrontier(p, b) >= Last.rho
    IN /\ guarded \/ (boundary = decision /\ boundary = trajectory)
       /\ (decision = "CERTIFIED") = (trajectory = "CERTIFIED")
       /\ boundary = "CERTIFIED" => decision = "CERTIFIED"
       /\ boundary = "CERTIFIED" /\ HasResolved(p) =>
            \E b \in beta..beta + IdentityMass : allowed(b)
       /\ boundary = "UNCERTIFIED" /\ HasResolved(p) =>
            ~allowed(beta - IdentityMass) \/ near(beta - IdentityMass, ThetaDagger(p))
       /\ MateriallyNonvacuous(Last) =>
            TrajectoryState(Last, UnresolvedAsHarm(p) - Tightening) = "CERTIFIED"
       /\ IF \A name \in DOMAIN ExpectedRegime : SafetyCasePasses(p, name)
          THEN /\ p.harmful > 0 /\ p.unresolved > 0
               /\ Resolved3(p) > p.harmful \/ near(ThetaDagger(p), UnresolvedAsHarm(p))
          ELSE \/ p.harmful = 0 \/ Resolved3(p) = p.harmful \/ p.unresolved = 0
               \/ near(ThetaDagger(p), p.harmful) \/ near(ThetaDagger(p), UnresolvedAsHarm(p))

\* Finer timing of the same masses can only tighten: a fine summary passes
\* against each coarse one, and of two summaries with the same endpoints the
\* one with more timing information has the narrower interval (timing.py).
TimingOnlyTightens ==
  Concluded =>
    /\ experiment.kind = "COHERENCE" => CoherencePasses(answers[1], answers[2])
    /\ experiment.kind = "ENDPOINT" =>
         (TauOrZero(experiment.population) =< TauOrZero(experiment.other)
            => EndpointPasses(answers[1], answers[2]))

\* Foreign timing that carries no more information than the local one never
\* shows as an error or as an improvement where the local law meets its own
\* budget: only a raised floor can mislead (foreign_information.py).
ForeignErrorNeedsHigherFloor ==
  Concluded /\ experiment.kind = "FOREIGN" =>
    LET local == answers[1]
        beta == FixedRiskBudget(local.population)
        risk == local.population.harmful + experiment.truth
    IN Information(local.population, experiment.truth) =< experiment.rho =>
         \A i \in DOMAIN experiment.points :
           LET path == answers[2 * i]
           IN path.population.floor =< local.population.floor =>
                /\ Effect(local, path, risk, beta) \notin {"ERRONEOUS_BOUND", "BENIGN_TIGHTENING"}
                /\ ~SpuriousImprovement(local, path, beta)

\* At the information its own horizon has, a cell has an interval, and the
\* interval contains the true risk of its cohort unless no evaluation tells the
\* truth from one of its ends: where the profile is flat, the information at
\* the end, or within root_atol of it, is that of the truth up to the guard of
\* the two evaluations (_horizon_information, evaluate_real_trajectory_cell).
DiagnosticContainsTruth ==
  Concluded /\ experiment.kind = "TRAJECTORY" =>
    LET p == experiment.population
        ends == {Last.interval.lower, Last.interval.upper}
        indistinct(u) ==
          Magnitude(Information(p, experiment.truth) - Information(p, u)) =< 2 * ComparisonGuard
    IN /\ HasInterval(Last)
       /\ \/ Contains(Last, p.harmful + experiment.truth)
          \/ /\ HasResolved(p)
             /\ \E u \in 0..p.unresolved, x \in ends :
                  Magnitude(u - x) =< RootAtol /\ indistinct(u)
================================================================================

-------------------------- MODULE InformationProfile --------------------------
(***************************************************************************)
(* The population quantities of math/information.py, math/compatibility.py,*)
(* math/safety.py and math/bounds.py.  Masses are ticks, information is in *)
(* units, both integers.  What the hidden mass adds to the observed timing *)
(* information is abstract: Excess, of which only the shape matters, zero  *)
(* at the point of minimum information and monotone on either side.  How   *)
(* the resolved mass is spread over the bands shows in one number, the     *)
(* floor.                                                                  *)
(***************************************************************************)
EXTENDS Integers, Certification

CONSTANTS
  Whole,            \* ticks of the probability one
  Populations,      \* the observable summaries: three masses and a floor
  Excess(_, _),     \* information of a hidden mass above the floor
  Quotient(_, _)    \* one mass over another, in ticks, as it is rounded

Resolved3(p) == p.harmful + p.correct
HasResolved(p) == Resolved3(p) > 0

\* minimum_information_point: its hidden mass, and its latent risk, which is not
\* added up from that hidden mass but a quotient of its own
Dagger(p) == (p.harmful * p.unresolved) \div Resolved3(p)
ThetaDagger(p) == Quotient(p.harmful, Resolved3(p))

ASSUME PopulationAssumption ==
  /\ Whole \in Nat \ {0}
  /\ \A p \in Populations :
       /\ p \in [harmful : Nat, correct : Nat, unresolved : Nat, floor : Nat]
       /\ HasResolved(p) => Dagger(p) \in 0..p.unresolved

ASSUME ProfileAssumption ==
  \A p \in Populations : HasResolved(p) =>
    /\ \A u \in 0..p.unresolved : Excess(p, u) \in Nat
    /\ Excess(p, Dagger(p)) = 0
    /\ \A u, v \in 0..p.unresolved :
         /\ u < v /\ v =< Dagger(p) => Excess(p, v) < Excess(p, u)
         /\ Dagger(p) =< u /\ u < v => Excess(p, u) < Excess(p, v)

\* information_profile
Information(p, u) == Excess(p, u) + p.floor

\* observed_timing_information: there is none without resolved mass
Tau(p) == IF HasResolved(p) THEN p.floor ELSE None
TauOrZero(p) == IF HasResolved(p) THEN p.floor ELSE 0

UnresolvedAsHarm(p) == p.harmful + p.unresolved

-----------------------------------------------------------------------------
(* The two classifications                                                 *)

\* Mutant: a budget on the floor counts as below it.
RegimeStrict(p, rho) ==
  IF ~HasResolved(p) THEN "NO_RESOLVED_MASS"
  ELSE IF rho =< p.floor THEN "MODEL_INCOMPATIBLE"
  ELSE IF p.unresolved = 0 THEN "NO_UNRESOLVED_MASS"
  ELSE "COMPATIBLE_INTERVAL"

\* assess_compatibility
Regime(p, rho) ==
  IF ~HasResolved(p) THEN "NO_RESOLVED_MASS"
  ELSE IF rho < p.floor THEN "MODEL_INCOMPATIBLE"
  ELSE IF p.unresolved = 0 THEN "NO_UNRESOLVED_MASS"
  ELSE IF rho = p.floor THEN "MINIMUM_INFORMATION_SINGLETON"
  ELSE "COMPATIBLE_INTERVAL"

\* assess_safety_geometry: the regime and, inside, the frontier
SafetyRegime(p, beta) ==
  IF ~HasResolved(p) THEN "NO_RESOLVED_MASS"
  ELSE IF beta < p.harmful THEN "RESOLVED_HARM_EXCEEDS_BUDGET"
  ELSE IF beta < ThetaDagger(p) THEN "INTRINSICALLY_UNCERTIFIABLE"
  ELSE IF beta < UnresolvedAsHarm(p) THEN "INTERIOR_SAFETY_FRONTIER"
  ELSE "ASSUMPTION_FREE_SAFE"

SafetyFrontier(p, beta) ==
  IF SafetyRegime(p, beta) = "INTERIOR_SAFETY_FRONTIER"
  THEN Information(p, beta - p.harmful) ELSE None

\* _SAFETY_REGIME_SEVERITY
Severity == [NO_RESOLVED_MASS |-> 1, RESOLVED_HARM_EXCEEDS_BUDGET |-> 2,
             INTRINSICALLY_UNCERTIFIABLE |-> 3, INTERIOR_SAFETY_FRONTIER |-> 4,
             ASSUMPTION_FREE_SAFE |-> 5]

\* safety_budget_cases: name and budget of every case, None where it is invalid
SafetyBudgetCases(p, offset) ==
  LET below == IF p.harmful < offset THEN 0 ELSE p.harmful - offset
      theta == ThetaDagger(p)
      top == UnresolvedAsHarm(p)
      between == IF HasResolved(p) /\ p.harmful # theta THEN (p.harmful + theta) \div 2 ELSE None
  IN [BELOW_RESOLVED_HARMFUL_MASS |-> below,
      BETWEEN_RESOLVED_MASS_AND_INTRINSIC_BOUNDARY |-> between,
      AT_INTRINSIC_BOUNDARY |-> IF HasResolved(p) THEN theta ELSE None,
      INTERIOR_SAFETY_FRONTIER |-> IF HasResolved(p) THEN (theta + top) \div 2 ELSE None,
      ASSUMPTION_FREE_BOUNDARY |-> top]

\* _expected_safety_regime
ExpectedRegime ==
  [BELOW_RESOLVED_HARMFUL_MASS |-> "RESOLVED_HARM_EXCEEDS_BUDGET",
   BETWEEN_RESOLVED_MASS_AND_INTRINSIC_BOUNDARY |-> "INTRINSICALLY_UNCERTIFIABLE",
   AT_INTRINSIC_BOUNDARY |-> "INTERIOR_SAFETY_FRONTIER",
   INTERIOR_SAFETY_FRONTIER |-> "INTERIOR_SAFETY_FRONTIER",
   ASSUMPTION_FREE_BOUNDARY |-> "ASSUMPTION_FREE_SAFE"]
===============================================================================

--------------------------- MODULE ConfidenceRegion ---------------------------
(***************************************************************************)
(* Confidence rectangles over the categories (inference/confidence.py) and *)
(* the summary envelope drawn from one (inference/envelope.py).  The roots *)
(* that invert the mixture martingale are a parameter.                     *)
(***************************************************************************)
EXTENDS BoxSearch, EventLedger, Certification

CONSTANTS
  CategoryInterval(_, _), \* _invert_category_count: of the count of a category and of all
  TotalEntropy(_)         \* the largest entropy a pair of this total has

\* The entropy of a pair grows with either mass, and of all pairs of a total it is
\* largest for two equal masses: what _resolved_entropy_envelope relies on.
ASSUME EntropyGrows ==
  /\ MassEntropy(0, 0) = 0
  /\ \A a, b, c, d \in Mass : a =< c /\ b =< d => MassEntropy(a, b) =< MassEntropy(c, d)
  /\ \A a, b \in Mass : a + b =< Unit => MassEntropy(a, b) =< TotalEntropy(a + b)
  /\ \A a, b \in Mass : TotalEntropy(a) \in Int /\ (a =< b => TotalEntropy(a) =< TotalEntropy(b))

Whole == [lower |-> 0, upper |-> Unit]
Void == [lower |-> Unit, upper |-> 0]   \* stands for no interval, no region

\* What the two root searches yield: the frequency is inside the interval.
RootsBracketTheFrequency(events) ==
  \A n \in 1..events : \A s \in 0..n :
    /\ CategoryInterval(s, n) \in Interval
    /\ CategoryInterval(s, n).lower * n =< s * Unit
    /\ s * Unit =< CategoryInterval(s, n).upper * n

LowerSum(region, S) == SumFunction([c \in S |-> region[c].lower])
UpperSum(region, S) == SumFunction([c \in S |-> region[c].upper])

\* validate_simplex_intersection
MeetsSimplex(region) ==
  LowerSum(region, DOMAIN region) =< Unit /\ UpperSum(region, DOMAIN region) >= Unit

\* raw_confidence_region
RawRegion(counts) ==
  LET n == Matured(counts)
  IN [c \in DOMAIN counts |-> IF n = 0 THEN Whole ELSE CategoryInterval(counts[c], n)]

\* Mutant: the upper end is that of the present prefix.
LastUpper(previous, current) ==
  [lower |-> Larger(previous.lower, current.lower), upper |-> current.upper]

\* _intersect_running; an empty intersection is a ConfidenceSequenceViolationError
Intersection(previous, current) ==
  [lower |-> Larger(previous.lower, current.lower),
   upper |-> Smaller(previous.upper, current.upper)]
Empty(interval) == interval.lower > interval.upper

\* Mutant: the complement is taken at the wrong ends.
SubsetIntervalCrossed(region, S) ==
  LET others == DOMAIN region \ S
  IN [lower |-> Larger(0, Larger(LowerSum(region, S), Unit - UpperSum(region, others))),
      upper |-> Smaller(Unit, Smaller(UpperSum(region, S), Unit - UpperSum(region, others)))]

\* _subset_interval: what the categories of S may sum up to in the simplex
SubsetInterval(region, S) ==
  LET others == DOMAIN region \ S
  IN [lower |-> Larger(0, Larger(LowerSum(region, S), Unit - UpperSum(region, others))),
      upper |-> Smaller(Unit, Smaller(UpperSum(region, S), Unit - LowerSum(region, others)))]

\* summary_envelope_from_confidence, with _resolved_entropy_envelope
EnvelopeOf(region) ==
  LET harmful == HarmfulCategories(Bands)
      correct == CorrectCategories(Bands)
      pairs == SumFunction(
                 [b \in 1..Bands |-> MassEntropy(region[2 * b - 1].upper, region[2 * b].upper)])
      mass == Smaller(Unit, UpperSum(region, harmful \cup correct))
      Capped(S) == [lower |-> Smaller(Unit, LowerSum(region, S)),
                    upper |-> Smaller(Unit, UpperSum(region, S))]
  IN [harmful |-> SubsetInterval(region, harmful),
      correct |-> SubsetInterval(region, correct),
      unresolved |-> SubsetInterval(region, {Unresolved(Bands)}),
      harmfulBands |-> Capped(harmful), correctBands |-> Capped(correct),
      entropyUpper |-> Smaller(pairs, TotalEntropy(mass))]

\* project_upper_risk by what RiskProjection shows of it: the proven upper risk
\* is at least that of every feasible point, and the two lower bounds are at most
\* the information and the latent risk of every plausible and feasible one.  A
\* search is taken to stop at the sharpest of these or at the one it starts from.
PlausiblePoints(e) ==
  {p \in [harmful : e.harmful.lower..e.harmful.upper,
          correct : e.correct.lower..e.correct.upper, hidden : 0..e.unresolved.upper] :
     Plausible(p, e)}
FeasiblePoints(e, rho) == {p \in PlausiblePoints(e) : InformationLower(p, e) =< rho}

UpperBounds(e, rho) ==
  LET trivial == ObjectiveUpper(InitialBox(e))
      risks == {Risk(p) : p \in FeasiblePoints(e, rho)}
  IN {trivial, IF risks = {} THEN trivial ELSE Max(risks)}

CompatibilityBounds(e) ==
  LET informations == {InformationLower(p, e) : p \in PlausiblePoints(e)}
  IN {0, IF informations = {} THEN 0 ELSE Larger(0, Min(informations))}

Resolving(e, rho) == {p \in FeasiblePoints(e, rho) : p["harmful"] + p["correct"] > 0}
LatentRisk(p) == (Unit * p["harmful"]) \div (p["harmful"] + p["correct"])
IntrinsicBounds(e, rho) ==
  LET latent == {LatentRisk(p) : p \in Resolving(e, rho)}
  IN IF ZeroResolvedPlausible(e) THEN {None}
     ELSE {0} \cup (IF latent = {} THEN {} ELSE {Min(latent)})

ProjectionBounds(e, rho) ==
  [upper : UpperBounds(e, rho), compatibility : CompatibilityBounds(e),
   intrinsic : IntrinsicBounds(e, rho)]
=============================================================================

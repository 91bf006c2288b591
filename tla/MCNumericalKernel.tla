--------------------------- MODULE MCNumericalKernel ---------------------------
(***************************************************************************)
(* The two computations a cell of the study asks the numerical kernel for, *)
(* side by side: an upper projection over an envelope, and the population  *)
(* experiments on summaries known exactly.  They share no state: each      *)
(* behaviour runs one of them and leaves the other at rest.                *)
(*                                                                         *)
(* For the projection the entropy is the piecewise linear one that is      *)
(* concave, homogeneous and symmetric, as the real one is, and as large as *)
(* the total of two equal masses.  For the populations the excess is a     *)
(* quadratic.                                                              *)
(***************************************************************************)
EXTENDS RiskProjection, PopulationExperiments

MCMassEntropy(x, y) == 2 * Smaller(x, y)

\* _mass_entropy_upper_at: the interval evaluation where neither mass can be
\* zero, and always the bound by the total.
MCMassEntropyUpper(leftLower, leftUpper, rightLower, rightUpper) ==
  LET total == leftUpper + rightUpper
  IN IF leftLower > 0 /\ rightLower > 0
     THEN Smaller(2 * Smaller(leftUpper, rightUpper), total) ELSE total

I(l, u) == [lower |-> l, upper |-> u]

MCEnvelopes ==
  {[harmful |-> h, correct |-> c, unresolved |-> u,
    harmfulBands |-> hb, correctBands |-> I(0, Unit), entropyUpper |-> s] :
     h \in {I(0, 4), I(2, 2)}, c \in {I(0, 4), I(4, 4)}, u \in {I(2, 4), I(0, 8)},
     hb \in {I(0, Unit), I(1, 3)}, s \in {0, 2}}

MCProblems ==
  {[envelope |-> e, rho |-> r, budget |-> b, intrinsicBudget |-> i, skipIntrinsic |-> FALSE] :
     e \in MCEnvelopes, r \in {1, 4}, b \in {None, 5}, i \in {None, 2}}
  \cup {[envelope |-> e, rho |-> 4, budget |-> None, intrinsicBudget |-> None,
         skipIntrinsic |-> TRUE] : e \in MCEnvelopes}

-----------------------------------------------------------------------------
MCRoundings == {-3, 0, 3}
MCQuotient(x, y) == (x * Whole) \div y

P(a, b, c, f) == [harmful |-> a, correct |-> b, unresolved |-> c, floor |-> f]

\* A law whose profile rounding hides for several ticks around the point of minimum information
Flat == P(1, 2, 13, 6)
MCExcess(p, u) == LET d == Magnitude(u - Dagger(p))
                  IN IF SameMasses(p, Flat) THEN d ELSE d * d + 2 * d

\* Every mass present, one of them missing, and each alone; floors with no
\* timing information, a little and much; one law whose timing information nearly
\* is the largest budget, which narrows the interval by more than the tolerance; two whose
\* masses are a tick short of one and two ticks above it; and the flat one.
Endpoints == {<<2, 6, 8>>, <<4, 4, 8>>, <<1, 1, 14>>, <<0, 8, 8>>, <<8, 0, 8>>,
              <<4, 12, 0>>, <<0, 0, 16>>}
Laws ==
  {P(e[1], e[2], e[3], f) : e \in Endpoints, f \in {0, 6, 14}}
  \cup {P(1, 1, 14, 104), P(6, 2, 7, 6), P(4, 4, 10, 6)}
MCPopulations == Laws \cup {Flat}

\* A foreign law, and the floors its timing gives the local and pooled masses
Foreign(f) == [harmful |-> 6, correct |-> 2, unresolved |-> 8, pathFloor |-> f, pooledFloor |-> 6]

Rich == {p \in Laws : HasResolved(p)}
Pairs == {q \in Rich \X Rich : SameMasses(q[1], q[2])}
Rhos == {0, 5, 6, 7, 20, 60}

MCExperiments ==
  {[kind |-> "SOLVER", population |-> p, rho |-> r] : p \in Laws, r \in Rhos}
  \cup {[kind |-> k, population |-> p] : p \in Laws, k \in {"FLOOR", "SHARPNESS"}}
  \cup {[kind |-> "COHERENCE", population |-> q[1], other |-> q[2], rho |-> r] :
          q \in {q \in Pairs : q[2].floor =< q[1].floor}, r \in {5, 7, 20, 110}}
  \cup {[kind |-> "ENDPOINT", population |-> q[1], other |-> q[2], rho |-> r] :
          q \in {q \in Pairs : q[1].floor # q[2].floor}, r \in {7, 20, 110}}
  \cup {[kind |-> "BOUNDARY", axis |-> "LAW", population |-> p, rho |-> r, beta |-> b, level |-> 0] :
          p \in Laws, r \in {0, 5, 6, 7, 20}, b \in {0, 3, 4, 5, 8, 11, 16}}
  \cup {[kind |-> "BOUNDARY", axis |-> x[1], population |-> p, rho |-> 20, beta |-> 8, level |-> x[2]] :
          p \in Laws,
          x \in {"INFORMATION_MARGIN"} \X {0, 1, 10} \cup {"RISK_OFFSET"} \X {-1, 0, 3}}
  \cup {[kind |-> "FOREIGN", population |-> p, rho |-> r, truth |-> t, points |-> w] :
          p \in {q \in Laws : q.harmful = 2}, r \in {6, 20}, t \in {0, 2, 7},
          w \in {<<Foreign(f), Foreign(6)>> : f \in {0, 14}}}
  \cup {x \in {[kind |-> "TRAJECTORY", population |-> p, rho |-> 7, truth |-> t, rounding |-> r] :
                 p \in Laws, t \in 0..8, r \in MCRoundings} :
          x.truth =< x.population.unresolved}
  \cup {[kind |-> "TRAJECTORY", population |-> Flat, rho |-> 60, truth |-> t, rounding |-> r] :
          t \in {0, 4, 8, 13}, r \in MCRoundings}

-----------------------------------------------------------------------------
ProjectionAtRest ==
  /\ problem = CHOOSE q \in MCProblems :
       q.envelope.harmful = I(2, 2) /\ q.envelope.correct = I(4, 4) /\ q.envelope.unresolved = I(2, 4)
  /\ phase = "raised" /\ queue = {} /\ best = None /\ visited = 0 /\ history = <<>>
  /\ found = [compatibility |-> None, intrinsic |-> None,
              projection |-> [upper |-> Unit, incumbent |-> None, reason |-> "OPEN"]]

PopulationAtRest ==
  /\ experiment = CHOOSE e \in MCExperiments : e.kind = "SOLVER"
  /\ asked = 1 /\ answers = <<>> /\ stage = "concluded"
  /\ request = [population |-> experiment.population, rho |-> 0, rounding |-> 0]
  /\ bracket = Nothing /\ shortcut = Nothing /\ iterations = 0
  /\ roots = [lower |-> NoRoot, upper |-> NoRoot] /\ answer = Nothing

KernelInit == \/ Init /\ PopulationAtRest
              \/ ProjectionAtRest /\ ExperimentInit

KernelNext == \/ Next /\ UNCHANGED <<solverVars, experimentVars>>
              \/ ExperimentNext /\ UNCHANGED vars

KernelSpec == KernelInit /\ [][KernelNext]_<<vars, solverVars, experimentVars>>
================================================================================

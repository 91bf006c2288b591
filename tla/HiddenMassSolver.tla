--------------------------- MODULE HiddenMassSolver ---------------------------
(***************************************************************************)
(* solve_hidden_mass_interval of math/solver.py: the interval of hidden    *)
(* masses whose information is within a budget.  The profile falls to the  *)
(* point of minimum information and rises after it; each branch is         *)
(* bisected for the crossing of the budget, lower branch first.  A probe   *)
(* of the profile before the bisection may certify two masses, below and   *)
(* above the crossing, beyond which a midpoint is not evaluated any more.  *)
(* The profile is evaluated in floating point: it is off the floor the     *)
(* budget was compared with by the rounding of the request.                *)
(***************************************************************************)
EXTENDS InformationProfile

CONSTANTS
  RootAtol,              \* root_atol, in ticks
  IdentityInformation,   \* identity_atol, in units of information
  Roundings              \* by how much an evaluated profile may be off

ASSUME SolverAssumption ==
  /\ RootAtol \in Nat \ {0} /\ IdentityInformation \in Nat
  /\ Roundings \subseteq Int /\ Roundings # {}

\* The two tolerances go together: an evaluation is off by less than identity_atol,
\* and half a bracket of root_atol does not make out more of the information.
ASSUME ResidualAssumption ==
  /\ \A r \in Roundings : -IdentityInformation =< r /\ r =< IdentityInformation
  /\ \A p \in Populations : HasResolved(p) =>
       \A u, v \in 0..p.unresolved :
         u =< v /\ v - u =< (RootAtol + 1) \div 2 =>
           /\ Excess(p, u) - Excess(p, v) =< IdentityInformation
           /\ Excess(p, v) - Excess(p, u) =< IdentityInformation

VARIABLES
  request,      \* the arguments, and the rounding of this evaluation
  stage,        \* "idle", the part of the call in progress, "answered", "raised"
  bracket,      \* the bracket being bisected, Nothing if there is none
  shortcut,     \* the certified _ResidualBracket, if any
  iterations,
  roots,        \* the RootBracket of each branch, NoRoot if there is none
  answer        \* the interval returned, Nothing if there is none

solverVars == <<request, stage, bracket, shortcut, iterations, roots, answer>>

Request == [population : Populations, rho : Nat, rounding : Roundings]
Nothing == [lower |-> None, upper |-> None]
NoRoot == [status |-> "NONE", lower |-> None, upper |-> None, root |-> None, residual |-> None]

Law == request.population
Bottom == Dagger(Law)

\* information_profile_residual: a value just below zero is taken as zero
Residual(u) ==
  LET value == Information(Law, u) + request.rounding
  IN (IF value < 0 THEN 0 ELSE value) - request.rho

Magnitude(x) == IF x < 0 THEN -x ELSE x

\* _exact_root
ExactRoot(u, status) ==
  [status |-> status, lower |-> u, upper |-> u, root |-> u, residual |-> Magnitude(Residual(u))]

Answer(lowerRoot, upperRoot) ==
  /\ roots' = [lower |-> lowerRoot, upper |-> upperRoot]
  /\ answer' = [lower |-> lowerRoot.root, upper |-> upperRoot.root]
  /\ stage' = "answered"
  /\ UNCHANGED <<request, bracket, shortcut, iterations>>

Raise ==
  /\ stage' = "raised"
  /\ UNCHANGED <<request, bracket, shortcut, iterations, roots, answer>>

\* Mutant: only the regime makes a singleton.
IsMinimumSingletonOfRegime(regime) == regime = "MINIMUM_INFORMATION_SINGLETON"

\* _is_minimum_singleton
IsMinimumSingleton(regime) ==
  \/ regime = "MINIMUM_INFORMATION_SINGLETON"
  \/ 0 =< Residual(Bottom) /\ Residual(Bottom) =< IdentityInformation

-----------------------------------------------------------------------------
(* The call                                                                *)

Ask ==
  /\ stage \in {"idle", "answered"}
  /\ request' \in Request
  /\ stage' = "assess"
  /\ bracket' = Nothing /\ shortcut' = Nothing /\ iterations' = 0
  /\ roots' = [lower |-> NoRoot, upper |-> NoRoot] /\ answer' = Nothing

AssessDegenerate ==
  /\ stage = "assess"
  /\ Regime(Law, request.rho) \in {"MODEL_INCOMPATIBLE", "NO_RESOLVED_MASS"}
  /\ answer' = IF HasResolved(Law) THEN Nothing ELSE [lower |-> 0, upper |-> Law.unresolved]
  /\ stage' = "answered"
  /\ UNCHANGED <<request, bracket, shortcut, iterations, roots>>

Assess ==
  LET regime == Regime(Law, request.rho)
      point == ExactRoot(Bottom, "MINIMUM_SINGLETON")
  IN
  /\ stage = "assess"
  /\ regime \notin {"MODEL_INCOMPATIBLE", "NO_RESOLVED_MASS"}
  /\ IF regime = "NO_UNRESOLVED_MASS"
     THEN Answer(ExactRoot(0, "EXACT_BOUNDARY"), ExactRoot(0, "EXACT_BOUNDARY"))
     ELSE IF ~IsMinimumSingleton(regime)
     THEN stage' = "lower" /\ UNCHANGED <<request, bracket, shortcut, iterations, roots, answer>>
     ELSE IF point.residual =< IdentityInformation THEN Answer(point, point) ELSE Raise

-----------------------------------------------------------------------------
(* One branch                                                              *)

Boundary == IF stage = "lower" THEN 0 ELSE Law.unresolved
Searching == stage \in {"lower", "upper"}

\* On the lower branch the profile falls through the crossing, on the upper
\* it rises: times the sign, it always falls from the left end to the right.
Sign == IF stage = "lower" THEN 1 ELSE -1
Falling(u) == Sign * Residual(u)

Found(root) ==
  IF stage = "lower"
  THEN /\ roots' = [roots EXCEPT !.lower = root]
       /\ stage' = "upper"
       /\ bracket' = Nothing /\ shortcut' = Nothing /\ iterations' = 0
       /\ UNCHANGED <<request, answer>>
  ELSE Answer(roots.lower, root)

BoundaryIsRoot ==
  /\ Searching /\ bracket = Nothing /\ Residual(Boundary) =< 0
  /\ Found(ExactRoot(Boundary, "EXACT_BOUNDARY"))

\* What _residual_bracket may return for a bracket
Certified(b) ==
  {Nothing} \cup
  {s \in [lower : b.lower..b.upper, upper : b.lower..b.upper] :
     /\ b.lower < s.lower /\ s.lower < s.upper /\ s.upper < b.upper
     /\ Falling(s.lower) > 0 /\ Falling(s.upper) < 0}

OpenBracket ==
  LET b == IF stage = "lower" THEN [lower |-> 0, upper |-> Bottom]
                              ELSE [lower |-> Bottom, upper |-> Law.unresolved]
  IN
  /\ Searching /\ bracket = Nothing
  /\ Residual(Boundary) > 0
  /\ IF Residual(Bottom) >= 0 THEN Raise
     ELSE /\ bracket' = b
          /\ shortcut' \in Certified(b)
          /\ UNCHANGED <<request, stage, iterations, roots, answer>>

BracketWidth(b) == b.upper - b.lower

\* log2(width / root_atol) rounded up: how often each width of a bracket is halved,
\* the larger half kept, until it is within root_atol.
Halvings(width) ==
  LET of[w \in 0..width] == IF w =< RootAtol THEN 0 ELSE 1 + of[(w + 1) \div 2]
  IN of

\* compute_iteration_cap
IterationCap(width) == Halvings(width)[width] + 2

InitialWidth == IF stage = "lower" THEN Bottom ELSE Law.unresolved - Bottom

\* Mutant: the midpoints up to the far end of the certified masses count as
\* before the crossing.
BracketedFallingPastAbove(u) ==
  IF shortcut # Nothing /\ u =< shortcut.upper THEN 1 ELSE Falling(u)

\* _bracketed_residual
BracketedFalling(u) ==
  IF shortcut # Nothing /\ u =< shortcut.lower THEN 1
  ELSE IF shortcut # Nothing /\ u >= shortcut.upper THEN -1
  ELSE Falling(u)

Bisect ==
  LET midpoint == (bracket.lower + bracket.upper) \div 2
      value == BracketedFalling(midpoint)
  IN
  /\ Searching /\ bracket # Nothing
  /\ BracketWidth(bracket) > RootAtol
  /\ IF iterations >= IterationCap(InitialWidth) THEN Raise
     ELSE /\ bracket' = IF value = 0 THEN [lower |-> midpoint, upper |-> midpoint]
                        ELSE IF value > 0 THEN [bracket EXCEPT !.lower = midpoint]
                        ELSE [bracket EXCEPT !.upper = midpoint]
          /\ iterations' = iterations + 1
          /\ UNCHANGED <<request, stage, shortcut, roots, answer>>

CloseBracket ==
  LET root == (bracket.lower + bracket.upper) \div 2
      residual == Magnitude(Residual(root))
  IN
  /\ Searching /\ bracket # Nothing /\ BracketWidth(bracket) =< RootAtol
  /\ IF residual > IdentityInformation THEN Raise
     ELSE Found([status |-> "BISECTION", lower |-> bracket.lower, upper |-> bracket.upper,
                 root |-> root, residual |-> residual])

Solve == \/ AssessDegenerate \/ Assess
         \/ BoundaryIsRoot \/ OpenBracket \/ Bisect \/ CloseBracket

SolverInit ==
  /\ request \in Request
  /\ stage = "idle"
  /\ bracket = Nothing /\ shortcut = Nothing /\ iterations = 0
  /\ roots = [lower |-> NoRoot, upper |-> NoRoot] /\ answer = Nothing

SolverSpec == SolverInit /\ [][Ask \/ Solve]_solverVars

-----------------------------------------------------------------------------
(* Properties                                                              *)

\* However the bisection was cut short, what it returns is sharp: no hidden
\* mass outside the two root brackets is within the budget, and none between
\* them is beyond it (_bisect, _bracketed_residual, _residual_bracket).
RootsAreSharp ==
  LET lower == roots.lower
      upper == roots.upper
      Searched(root) == root.status \in {"BISECTION", "EXACT_BOUNDARY"} /\ Law.unresolved > 0
  IN
  /\ Searched(lower) =>
       /\ \A u \in 0..Bottom : /\ u < lower.lower => Residual(u) >= 0
                               /\ u >= lower.upper => Residual(u) =< 0
       /\ BracketWidth(lower) =< RootAtol
  /\ Searched(upper) =>
       /\ \A u \in Bottom..Law.unresolved : /\ u > upper.upper => Residual(u) >= 0
                                            /\ u =< upper.lower => Residual(u) =< 0
       /\ BracketWidth(upper) =< RootAtol

\* No accepted request ends in a RootSolveError: not a budget within rounding
\* of the floor, not a crossing next to the point of minimum information, and
\* never for want of iterations (compute_iteration_cap, _is_minimum_singleton).
NeverRaises == stage # "raised"
===============================================================================

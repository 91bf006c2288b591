--------------------------- MODULE RiskProjection ---------------------------
(***************************************************************************)
(* project_upper_risk of inference/projection.py: three best-first         *)
(* searches over boxes, one after the other.  The first bounds from below  *)
(* the information the envelope needs, the second bounds the risk from     *)
(* above, the third bounds the intrinsic risk from below.  Each may stop   *)
(* early: converged, decided, at the resolution of a box, stalled, at the  *)
(* cap on nodes, or because the arithmetic failed.                         *)
(***************************************************************************)
EXTENDS BoxSearch, Certification, Sequences

CONSTANTS
  Gap,          \* outer_gap, in units
  NodeCap,      \* outer_max_nodes
  Guard,        \* comparison_guard, in units
  StallMinimum, StallWindow, StallFloor,
  Problems      \* the envelopes, sensitivity budgets and decision budgets asked about

Infinity == 1000 * Unit    \* best_upper before a point is found

ASSUME SearchAssumption ==
  /\ Gap \in Nat /\ Guard \in Nat /\ NodeCap \in Nat \ {0}
  /\ \A q \in Problems :
       /\ q.envelope \in Envelope /\ q.rho \in Nat
       /\ q.budget \in Mass \cup {None} /\ q.intrinsicBudget \in Mass \cup {None}

VARIABLES
  problem,    \* the arguments of the call
  phase,      \* the search in progress, "returned" or "raised"
  queue,      \* the boxes of the heap
  best,       \* incumbent of the projection, best_upper of the other two
  visited,
  history,    \* the records of _SearchStall
  found       \* what each search that ended returned

vars == <<problem, phase, queue, best, visited, history, found>>

Env == problem.envelope
Initial == InitialBox(Env)
FeasiblePoints ==
  {p \in [harmful : Env.harmful.lower..Env.harmful.upper,
          correct : Env.correct.lower..Env.correct.upper,
          hidden : 0..Env.unresolved.upper] : Feasible(p, Env, problem.rho)}

-----------------------------------------------------------------------------
Largest(S) == CHOOSE x \in S : \A y \in S : y =< x
Least(S) == CHOOSE x \in S : \A y \in S : x =< y

\* The heap of the projection gives up a box of greatest objective, that of
\* the other two one of least lower bound.
MinimumLower(b) == IF phase = "compatibility" THEN CompatibilityBoxLower(b, Env)
                                             ELSE IntrinsicBoxLower(b)
Foremost(q) ==
  IF phase = "projection"
  THEN {b \in q : \A other \in q : ObjectiveUpper(other) =< ObjectiveUpper(b)}
  ELSE {b \in q : \A other \in q : MinimumLower(b) =< MinimumLower(other)}

\* _queue_upper; active is the set of boxes taken off the heap, if any
QueueUpper(q, incumbent, active) ==
  LET values == {ObjectiveUpper(b) : b \in q \cup active}
                  \cup (IF incumbent = None THEN {} ELSE {incumbent})
  IN IF values = {} THEN Unit ELSE Largest(values)

Trimmed(h) == IF Len(h) > StallWindow THEN Tail(h) ELSE h
Stalls(h, count) ==
  /\ count >= StallMinimum /\ Len(h) >= StallWindow
  /\ 0 =< h[1] - h[Len(h)] /\ h[1] - h[Len(h)] < StallFloor

\* The children the search keeps: possible, and not excluded by the
\* sensitivity budget (which the compatibility search does not look at).
Survivors(b) ==
  {child \in SplitBox(b, Env) :
     /\ BoxPossible(child, Env)
     /\ phase # "compatibility" => ~SensitivityExcludes(child, Env, problem.rho)}

-----------------------------------------------------------------------------
(* Starting a search, going on with it, and returning from it              *)

Enter(search) ==
  /\ phase' = search
  /\ visited' = 0 /\ history' = <<>>
  /\ best' = IF search = "projection" THEN None ELSE Infinity
  /\ queue' = IF /\ BoxPossible(Initial, Env)
                 /\ search = "intrinsic" => ~SensitivityExcludes(Initial, Env, problem.rho)
              THEN {Initial} ELSE {}

Leave(last) ==
  /\ phase' = last
  /\ visited' = 0 /\ history' = <<>> /\ best' = None /\ queue' = {}

\* The third search is asked for only when the second left it a question.
IntrinsicNeeded(upper) ==
  /\ ~problem.skipIntrinsic
  /\ problem.intrinsicBudget = None \/ upper > problem.intrinsicBudget
  /\ ~ZeroResolvedPlausible(Env)

ReturnProjection(q, incumbent, active, reason) ==
  LET upper == QueueUpper(q, incumbent, active)
  IN /\ found' = [found EXCEPT
           !.projection = [upper |-> upper, incumbent |-> incumbent, reason |-> reason],
           !.intrinsic = IF ZeroResolvedPlausible(Env) THEN None ELSE 0]
     /\ IF IntrinsicNeeded(upper) THEN Enter("intrinsic") ELSE Leave("returned")
     /\ UNCHANGED problem

ReturnMinimum(lower) ==
  /\ found' = [found EXCEPT ![phase] = Larger(0, lower)]
  /\ IF phase = "compatibility" THEN Enter("projection") ELSE Leave("returned")
  /\ UNCHANGED problem

FinalLower(q) == IF q = {} THEN 0 ELSE Least({MinimumLower(b) : b \in q})

GoOn(q, value) ==
  /\ queue' = q /\ best' = value /\ visited' = visited + 1
  /\ UNCHANGED <<problem, phase, found>>

-----------------------------------------------------------------------------
(* The projection                                                          *)

\* The risks of verified points of the box under its aggregate midpoint.
Candidates(b) ==
  {None} \cup
  {Risk(p) : p \in {p \in FeasiblePoints :
     /\ In(p, b)
     /\ [harmful |-> p["harmful"], correct |-> p["correct"]] \in AggregateMidpoint(b, Env)}}

Settled(rest, incumbent, b) ==
  LET upper == QueueUpper(rest, incumbent, {b})
  IN IF problem.budget # None /\ upper =< problem.budget THEN "DECISION_CERTIFIED"
     ELSE IF problem.budget # None /\ incumbent > problem.budget THEN "DECISION_REFUTED"
     ELSE IF incumbent # None /\ upper - incumbent =< Gap THEN "CONVERGED" ELSE "OPEN"

AfterStep(q, incumbent) ==
  LET records == Trimmed(Append(history, QueueUpper(q, incumbent, {})))
  IN IF Stalls(records, visited + 1)
     THEN ReturnProjection(q, incumbent, {}, "STALLED")
     ELSE /\ GoOn(q, incumbent)
          /\ history' = records

Looping == queue # {} /\ visited < NodeCap

\* The scan for a first incumbent: points of the initial box, on a grid.
FirstIncumbent ==
  /\ phase = "projection" /\ visited = 0 /\ best = None
  /\ \E p \in FeasiblePoints : In(p, Initial) /\ best' = Risk(p)
  /\ UNCHANGED <<problem, phase, queue, visited, history, found>>

ProjectionStep ==
  /\ phase = "projection" /\ Looping
  /\ \E b \in Foremost(queue) :
       LET rest == queue \ {b}
       IN IF b = Initial /\ SensitivityExcludes(b, Env, problem.rho)
          THEN AfterStep(rest, best)
          ELSE \E candidate \in Candidates(b) :
            LET incumbent == IF Settled(rest, best, b) = "OPEN" THEN Larger(best, candidate) ELSE best
                settled == Settled(rest, incumbent, b)
                q == rest \cup Survivors(b)
                upper == QueueUpper(q, incumbent, {})
            IN CASE settled # "OPEN" -> ReturnProjection(rest, incumbent, {b}, settled)
                 [] settled = "OPEN" /\ Resolved(b, Env, Gap) ->
                      ReturnProjection(rest, incumbent, {b}, "BOX_RESOLUTION")
                 [] settled = "OPEN" /\ ~Resolved(b, Env, Gap) ->
                      IF incumbent # None /\ upper - incumbent =< Gap
                      THEN ReturnProjection(q, incumbent, {}, "CONVERGED")
                      ELSE AfterStep(q, incumbent)

\* Mutant: the box being worked on is forgotten.
ProjectionFallbackOfQueue ==
  /\ phase = "projection" /\ Looping
  /\ \E b \in Foremost(queue) : \E pushed \in SUBSET Survivors(b) :
       ReturnProjection((queue \ {b}) \cup pushed, best, {}, "ARITHMETIC_FALLBACK")

\* An arithmetic error inside a step: the box is off the heap, and any of its
\* children may already be on it.
ProjectionFallback ==
  /\ phase = "projection" /\ Looping
  /\ \E b \in Foremost(queue) : \E pushed \in SUBSET Survivors(b) :
       ReturnProjection((queue \ {b}) \cup pushed, best, {b}, "ARITHMETIC_FALLBACK")

ProjectionEnd ==
  /\ phase = "projection" /\ ~Looping
  /\ ReturnProjection(queue, best, {}, IF queue = {} THEN "CONVERGED" ELSE "NODE_CAP")

-----------------------------------------------------------------------------
(* The two minimum searches                                                *)

\* What a point of the box may prove: the information at its midpoint, or the
\* latent risk there, rounded up, when its information is within the budget.
PointUppers(b) ==
  {Infinity} \cup
  {IF phase = "compatibility"
     THEN Larger(0, MassEntropy(m.harmful, m.correct) - r)
     ELSE ((Unit * m.harmful) \div (m.harmful + m.correct)) + 1 :
     m \in {m \in AggregateMidpoint(b, Env) : phase = "intrinsic" => m.harmful + m.correct > 0},
     r \in 0..Env.entropyUpper}

Decided(lower, upper) ==
  /\ phase = "intrinsic" /\ problem.intrinsicBudget # None
  /\ LET threshold == problem.intrinsicBudget + Guard
     IN lower > threshold \/ upper =< threshold

\* The stall of a minimum search sees only the steps that follow a first point.
AfterMinimumStep(q, upper, lower) ==
  LET bound == IF q = {} THEN lower ELSE Smaller(lower, FinalLower(q))
      records == IF upper = Infinity THEN history
                 ELSE Trimmed(Append(history, Larger(0, upper - bound)))
  IN IF upper # Infinity /\ Stalls(records, visited + 1)
     THEN ReturnMinimum(FinalLower(q))
     ELSE /\ GoOn(q, upper)
          /\ history' = records

MinimumStep ==
  /\ phase \in {"compatibility", "intrinsic"} /\ Looping
  /\ \E b \in Foremost(queue) : \E point \in PointUppers(b) :
       LET rest == queue \ {b}
           lower == MinimumLower(b)
           upper == Smaller(best, point)
           global == IF rest = {} THEN lower ELSE Smaller(lower, FinalLower(rest))
       IN IF Decided(lower, best) THEN ReturnMinimum(lower)
          ELSE IF lower >= best THEN ReturnMinimum(global)
          ELSE IF Decided(lower, upper) THEN ReturnMinimum(lower)
          ELSE IF upper - global =< Gap THEN ReturnMinimum(global)
          ELSE IF Resolved(b, Env, Gap) THEN ReturnMinimum(FinalLower(queue))
          ELSE AfterMinimumStep(rest \cup Survivors(b), upper, lower)

MinimumEnd ==
  /\ phase \in {"compatibility", "intrinsic"} /\ ~Looping
  /\ ReturnMinimum(FinalLower(queue))

\* Here an arithmetic error is not turned into a bound: the call raises.
MinimumRaises ==
  /\ phase \in {"compatibility", "intrinsic"} /\ Looping
  /\ Leave("raised")
  /\ UNCHANGED <<problem, found>>

Init ==
  /\ problem \in Problems
  /\ phase = "compatibility" /\ best = Infinity /\ visited = 0 /\ history = <<>>
  /\ queue = IF BoxPossible(Initial, Env) THEN {Initial} ELSE {}
  /\ found = [compatibility |-> None, intrinsic |-> None,
              projection |-> [upper |-> Unit, incumbent |-> None, reason |-> "OPEN"]]

Next == \/ FirstIncumbent \/ ProjectionStep \/ ProjectionFallback \/ ProjectionEnd
        \/ MinimumStep \/ MinimumEnd \/ MinimumRaises

Spec == Init /\ [][Next]_vars

-----------------------------------------------------------------------------
(* Properties                                                              *)

TypeOK ==
  /\ problem \in Problems
  /\ phase \in {"compatibility", "projection", "intrinsic", "returned", "raised"}
  /\ queue \in SUBSET Box
  /\ best \in Int /\ visited \in 0..NodeCap
  /\ found.projection.upper \in Mass

\* Whatever makes the projection stop, before or after any step of it, the
\* bound it would return is one: no feasible risk of the envelope exceeds it
\* (_queue_upper, _final_projection, _projection_fallback).
UpperIsProven ==
  \A p \in FeasiblePoints :
    /\ phase = "projection" => Risk(p) =< QueueUpper(queue, best, {})
    /\ Risk(p) =< found.projection.upper

\* What the call says of its decision budgets and of its three bounds is true
\* of every point the envelope admits, so the state classify_certification
\* derives from them is: a certified risk is met everywhere, an incompatible
\* model has no point, and an uncertifiable one no point of small latent risk.
VerdictIsTrue ==
  LET bounds == [compatibility |-> found.compatibility, upper |-> found.projection.upper,
                 intrinsic |-> found.intrinsic]
      Verdict(beta) == Classify(bounds, problem.rho, beta, Guard, TRUE)
  IN
  phase = "returned" =>
    /\ found.projection.incumbent # None =>
         \E p \in FeasiblePoints : Risk(p) = found.projection.incumbent
    /\ found.projection.reason = "DECISION_REFUTED" =>
         \E p \in FeasiblePoints : Risk(p) > problem.budget
    /\ \A beta \in Mass :
         CASE Verdict(beta) = "CERTIFIED" -> \A p \in FeasiblePoints : Risk(p) =< beta
           [] Verdict(beta) = "MODEL_INCOMPATIBLE" -> FeasiblePoints = {}
           [] Verdict(beta) = "INTRINSICALLY_UNCERTIFIABLE" ->
                \A p \in FeasiblePoints :
                  Unit * p["harmful"] > beta * (p["harmful"] + p["correct"])
           [] OTHER -> TRUE
=============================================================================

------------------------- MODULE NumericalKernelProofs -------------------------
(***************************************************************************)
(* Proofs about the parts of the numerical kernel, RiskProjection,         *)
(* HiddenMassSolver and PopulationExperiments. For any unit of mass, any   *)
(* entropy with the bounds ball arithmetic yields and that loses nothing   *)
(* by a split, any envelopes and budgets, any gap, cap and stall window:   *)
(* whatever stops the search, and after whichever step, the upper risk it  *)
(* would return is one of every feasible point, and so is the state        *)
(* derived from a return. For every profile that falls to the point of     *)
(* minimum information and rises after it, every rounding, budget and      *)
(* tolerance, and every bracket the shortcut may certify: the interval of  *)
(* hidden masses is sharp, and the bisection neither runs out of           *)
(* iterations nor refuses what it has found. For every experiment of a     *)
(* study whose budgets rounding does not blur by more than identity_atol   *)
(* (nothing is asked of the information a cell has at its own horizon) and *)
(* whose latent risk is rounded within the guard of the comparisons: the   *)
(* solver agrees with the oracle, and the judgements of its answers, written*)
(* in several modules, differ inside that guard only and do not contradict *)
(* the law.                                                                *)
(***************************************************************************)
EXTENDS RiskProjection, PopulationExperiments, WellFoundedInduction, SequenceTheorems, TLAPS

-----------------------------------------------------------------------------
(* The projection                                                          *)

\* Every set of masses that is not empty has a least and a largest element.
LEMMA Minimum ==
  ASSUME NEW T, T \subseteq Nat, T # {}
  PROVE  \E x \in T : \A y \in T : x =< y
<1>1. \E x \in T : \A y \in T : ~ (<<y, x>> \in OpToRel(<, Nat))
  <2> DEFINE R == OpToRel(<, Nat)
  <2>1. IsWellFoundedOn(R, Nat)
    BY NatLessThanWellFounded
  <2> HIDE DEF R
  <2>2. \E x \in T : \A y \in T : ~ (<<y, x>> \in R)
    BY <2>1, WFMin
  <2> QED
    BY <2>2 DEF R
<1>2. \A x, y \in T : <<y, x>> \in OpToRel(<, Nat) <=> y < x
  BY DEF OpToRel
<1>3. PICK x \in T : \A y \in T : ~ (<<y, x>> \in OpToRel(<, Nat))
  BY <1>1
<1>4. \A y \in T : ~ (y < x)
  BY <1>2, <1>3
<1>5. \A y \in T : x =< y
  BY <1>4
<1> QED
  BY <1>5

LEMMA LargestIsIn ==
  ASSUME NEW S, S \subseteq Mass, S # {}
  PROVE  Largest(S) \in S /\ \A y \in S : y =< Largest(S)
<1> DEFINE T == {Unit - x : x \in S}
<1>1. T \subseteq Nat /\ T # {}
  <2>1. \A x \in S : x \in Int /\ Unit - x \in Nat
    BY UnitAssumption DEF Mass
  <2> QED
    BY <2>1
<1>2. PICK z \in T : \A y \in T : z =< y
  <2> HIDE DEF T
  <2> QED
    BY <1>1, Minimum
<1>3. PICK x \in S : z = Unit - x
  OBVIOUS
<1>4. ASSUME NEW y \in S
      PROVE  y =< x
  <2>1. Unit - y \in T
    OBVIOUS
  <2>2. z =< Unit - y
    BY <1>2, <2>1
  <2> QED
    BY <1>3, <2>2, UnitAssumption DEF Mass
<1> QED
  BY <1>4 DEF Largest

-----------------------------------------------------------------------------
\* An envelope, a box and a point, field by field.
LEMMA EnvelopeFields ==
  ASSUME NEW e \in Envelope
  PROVE  /\ e.unresolved \in Interval /\ e.harmful \in Interval /\ e.correct \in Interval
         /\ e.harmfulBands \in Interval /\ e.correctBands \in Interval
         /\ e.entropyUpper \in Nat
BY DEF Envelope

LEMMA IntervalFields ==
  ASSUME NEW i \in Interval
  PROVE  /\ i.lower \in Mass /\ i.upper \in Mass /\ i.lower =< i.upper
         /\ i.lower \in Int /\ i.upper \in Int /\ 0 =< i.lower /\ i.upper =< Unit
BY UnitAssumption DEF Interval, Mass

\* The points the envelope admits: the risk is a mass, and no split of the
\* simplex is lost in the box the search starts from.
LEMMA PlausiblePoint ==
  ASSUME NEW e \in Envelope,
         NEW p \in [harmful : e.harmful.lower..e.harmful.upper,
                    correct : e.correct.lower..e.correct.upper,
                    hidden : 0..e.unresolved.upper],
         Plausible(p, e)
  PROVE  /\ p["harmful"] \in Mass /\ p["correct"] \in Mass /\ p["hidden"] \in Mass
         /\ p["harmful"] \in Int /\ p["correct"] \in Int /\ p["hidden"] \in Int
         /\ Unit - p["harmful"] - p["correct"] \in Mass
         /\ Risk(p) \in Mass
         /\ In(p, InitialBox(e))
<1>1. /\ p["harmful"] \in e.harmful.lower..e.harmful.upper
      /\ p["correct"] \in e.correct.lower..e.correct.upper
      /\ p["hidden"] \in 0..e.unresolved.upper
  OBVIOUS
<1>2. /\ e.unresolved.lower =< Unit - p["harmful"] - p["correct"]
      /\ Unit - p["harmful"] - p["correct"] =< e.unresolved.upper
      /\ p["hidden"] =< Unit - p["harmful"] - p["correct"]
  BY DEF Plausible, Within
<1>3. /\ p["harmful"] \in Mass /\ p["correct"] \in Mass /\ p["hidden"] \in Mass
      /\ p["harmful"] \in Int /\ p["correct"] \in Int /\ p["hidden"] \in Int
  BY <1>1, EnvelopeFields, IntervalFields, UnitAssumption DEF Mass
<1>4. Unit - p["harmful"] - p["correct"] \in Mass
  BY <1>2, <1>3, EnvelopeFields, IntervalFields, UnitAssumption DEF Mass
<1>5. Risk(p) \in Mass
  BY <1>2, <1>3, <1>4, UnitAssumption DEF Mass, Risk
<1>6. In(p, InitialBox(e))
  <2>1. /\ InitialBox(e)["harmful"] = e.harmful /\ InitialBox(e)["correct"] = e.correct
        /\ InitialBox(e)["hidden"] = [lower |-> 0, upper |-> e.unresolved.upper]
    BY DEF InitialBox, Dimension
  <2> QED
    BY <1>1, <2>1, EnvelopeFields, IntervalFields DEF In, Dimension, Within, Mass
<1> QED
  BY <1>3, <1>4, <1>5, <1>6

LEMMA InitialIsBox == ASSUME NEW e \in Envelope PROVE InitialBox(e) \in Box
<1>1. [lower |-> 0, upper |-> e.unresolved.upper] \in Interval
  BY EnvelopeFields, IntervalFields, UnitAssumption DEF Interval, Mass
<1> QED
  BY <1>1, EnvelopeFields DEF InitialBox, Box, Dimension

\* A box and its halves: they are boxes, and a point of it is in one of them.
LEMMA SplitCovers ==
  ASSUME NEW b \in Box, NEW e
  PROVE  /\ SplitBox(b, e) \subseteq Box
         /\ \A p : p["harmful"] \in Int /\ p["correct"] \in Int /\ p["hidden"] \in Int /\ In(p, b) =>
              \E child \in SplitBox(b, e) : In(p, child)
<1> DEFINE d == SplitDimension(b, e)
           middle == (b[d].lower + b[d].upper) \div 2
           high == [b EXCEPT ![d] = [lower |-> middle, upper |-> b[d].upper]]
           low == [b EXCEPT ![d] = [lower |-> b[d].lower, upper |-> middle]]
<1>1. d \in Dimension
  BY DEF SplitDimension, Dimension
<1> HIDE DEF d
<1>2. b[d] \in Interval
  BY <1>1 DEF Box
<1>3. middle \in Int /\ b[d].lower =< middle /\ middle =< b[d].upper
  BY <1>2, IntervalFields
<1>4. SplitBox(b, e) = {high, low}
  BY DEF SplitBox, Halves, d
<1> HIDE DEF middle
<1>5. /\ [lower |-> middle, upper |-> b[d].upper] \in Interval
      /\ [lower |-> b[d].lower, upper |-> middle] \in Interval
  BY <1>2, <1>3, IntervalFields, UnitAssumption DEF Interval, Mass
<1>6. high \in Box /\ low \in Box
  BY <1>1, <1>5 DEF Box
<1>7. ASSUME NEW p, p["harmful"] \in Int, p["correct"] \in Int, p["hidden"] \in Int, In(p, b)
      PROVE  In(p, high) \/ In(p, low)
  <2>1. p[d] \in Int /\ b[d].lower =< p[d] /\ p[d] =< b[d].upper
    BY <1>1, <1>7 DEF In, Within, Dimension
  <2>2. CASE middle =< p[d]
    BY <1>1, <1>7, <2>1, <2>2 DEF In, Within, Box
  <2>3. CASE p[d] =< middle
    BY <1>1, <1>7, <2>1, <2>3 DEF In, Within, Box
  <2> QED
    BY <1>3, <2>1, <2>2, <2>3
<1> QED
  BY <1>4, <1>6, <1>7

-----------------------------------------------------------------------------
\* What a step of the search throws away holds no feasible point: the two bounds
\* of BoxPossible and SensitivityExcludes are bounds (_box_is_possible and
\* _sensitivity_lower of the code).

LEMMA PlausibleIsPossible ==
  ASSUME NEW e \in Envelope, NEW b \in Box,
         NEW p \in [harmful : e.harmful.lower..e.harmful.upper,
                    correct : e.correct.lower..e.correct.upper,
                    hidden : 0..e.unresolved.upper],
         Plausible(p, e), In(p, b)
  PROVE  BoxPossible(b, e)
<1> DEFINE h == p["harmful"]
           c == p["correct"]
           t == p["hidden"]
<1>1. /\ h \in Int /\ c \in Int /\ t \in Int
      /\ e.unresolved.lower =< Unit - h - c /\ Unit - h - c =< e.unresolved.upper
      /\ t =< Unit - h - c
  BY PlausiblePoint DEF Plausible, Within
<1>2. /\ b["harmful"] \in Interval /\ b["correct"] \in Interval /\ b["hidden"] \in Interval
  BY DEF Box, Dimension
<1>3. /\ b["harmful"].lower =< h /\ h =< b["harmful"].upper
      /\ b["correct"].lower =< c /\ c =< b["correct"].upper
      /\ b["hidden"].lower =< t /\ t =< b["hidden"].upper
  BY DEF In, Within, Dimension
<1> HIDE DEF h, c, t
<1> QED
  BY <1>1, <1>2, <1>3, EnvelopeFields, IntervalFields, UnitAssumption
     DEF BoxPossible, UnresolvedUpper, Smaller

LEMMA FeasibleIsNotExcluded ==
  ASSUME NEW e \in Envelope, NEW b \in Box, NEW rho \in Nat,
         NEW p \in [harmful : e.harmful.lower..e.harmful.upper,
                    correct : e.correct.lower..e.correct.upper,
                    hidden : 0..e.unresolved.upper],
         Feasible(p, e, rho), In(p, b)
  PROVE  ~ SensitivityExcludes(b, e, rho)
<1> DEFINE h == p["harmful"]
           c == p["correct"]
           t == p["hidden"]
           u == Unit - h - c
           low == Larger(UnresolvedLower(b, e), 0)
           high == UnresolvedUpper(b, e)
           hidden == Smaller(b["hidden"].upper, high)
           thetaLow == b["harmful"].lower + b["hidden"].lower
           thetaHigh == Smaller(Unit, b["harmful"].upper + hidden)
           entropyLow == Smaller(MassEntropy(thetaLow, Unit - thetaLow),
                                 MassEntropy(thetaHigh, Unit - thetaHigh))
           left == Larger(0, low - hidden)
           right == Larger(0, high - b["hidden"].lower)
           terminal == MassEntropyUpper(b["hidden"].lower, hidden, left, right)
<1>1. /\ Plausible(p, e)
      /\ h \in Mass /\ c \in Mass /\ t \in Mass /\ u \in Mass /\ h + t \in Mass
      /\ h \in Int /\ c \in Int /\ t \in Int
      /\ e.unresolved.lower =< u /\ u =< e.unresolved.upper /\ t =< u
  BY PlausiblePoint DEF Feasible, Plausible, Within, Risk
<1>2. /\ b["harmful"] \in Interval /\ b["correct"] \in Interval /\ b["hidden"] \in Interval
  BY DEF Box, Dimension
<1>3. /\ b["harmful"].lower =< h /\ h =< b["harmful"].upper
      /\ b["correct"].lower =< c /\ c =< b["correct"].upper
      /\ b["hidden"].lower =< t /\ t =< b["hidden"].upper
  BY DEF In, Within, Dimension
<1>4. /\ b["harmful"].lower \in Int /\ b["harmful"].upper \in Int
      /\ b["correct"].lower \in Int /\ b["correct"].upper \in Int
      /\ b["hidden"].lower \in Int /\ b["hidden"].upper \in Int
      /\ e.unresolved.lower \in Int /\ e.unresolved.upper \in Int
      /\ 0 =< b["harmful"].lower /\ 0 =< b["correct"].lower /\ 0 =< b["hidden"].lower
      /\ 0 =< e.unresolved.lower /\ e.unresolved.upper =< Unit
      /\ b["hidden"].upper =< Unit
  BY <1>2, EnvelopeFields, IntervalFields
<1>5. /\ MassEntropy(h + t, Unit - (h + t)) - e.entropyUpper - MassEntropy(t, u - t) =< rho
  BY DEF Feasible, InformationLower, Risk
<1>6. /\ h + t \in 0..Unit /\ u \in Int /\ u = Unit - h - c
      /\ u \in 0..Unit /\ t \in 0..Unit
  BY <1>1 DEF Mass
<1> HIDE DEF h, c, t, u
<1>7. /\ low \in Int /\ low =< u /\ 0 =< low
      /\ high \in Int /\ u =< high /\ high =< Unit
  BY <1>1, <1>3, <1>4, <1>6, UnitAssumption
     DEF UnresolvedLower, UnresolvedUpper, Larger, Smaller
<1> HIDE DEF low, high
<1>8. /\ hidden \in Int /\ t =< hidden /\ hidden =< high /\ 0 =< hidden
      /\ hidden =< Unit /\ b["hidden"].lower =< hidden
  BY <1>1, <1>3, <1>4, <1>6, <1>7 DEF Smaller
<1> HIDE DEF hidden
<1>9. /\ thetaLow \in Mass /\ thetaHigh \in Mass
      /\ thetaLow =< h + t /\ h + t =< thetaHigh
  BY <1>1, <1>3, <1>4, <1>6, <1>8, UnitAssumption DEF Mass, Smaller
<1> HIDE DEF thetaLow, thetaHigh
<1>10. /\ left \in Mass /\ right \in Mass
       /\ left =< u - t /\ u - t =< right
  BY <1>1, <1>3, <1>4, <1>6, <1>7, <1>8, UnitAssumption DEF Mass, Larger
<1> HIDE DEF left, right
<1>11. \E m \in {thetaLow, thetaHigh} :
          MassEntropy(m, Unit - m) =< MassEntropy(h + t, Unit - (h + t))
  <2>1. h + t \in thetaLow..thetaHigh
    BY <1>9, <1>6 DEF Mass
  <2> QED
    BY <2>1, <1>9, ThetaEntropyBounds
<1>12. MassEntropy(t, u - t) =< terminal
  <2>1. /\ t \in b["hidden"].lower..hidden /\ u - t \in left..right
        /\ b["hidden"].lower \in Mass /\ hidden \in Mass
    BY <1>3, <1>4, <1>6, <1>8, <1>10, UnitAssumption DEF Mass
  <2> QED
    BY <2>1, <1>10, EntropyBounds
<1>13. /\ MassEntropy(thetaLow, Unit - thetaLow) \in Int
       /\ MassEntropy(thetaHigh, Unit - thetaHigh) \in Int
       /\ MassEntropy(h + t, Unit - (h + t)) \in Int
       /\ MassEntropy(t, u - t) \in Int
       /\ terminal \in Int
  <2>1. \A x \in Mass : Unit - x \in Mass
    BY UnitAssumption DEF Mass
  <2>2. u - t \in Mass /\ t \in Mass /\ h + t \in Mass
    BY <1>1, <1>6, UnitAssumption DEF Mass
  <2>3. b["hidden"].lower \in Mass /\ hidden \in Mass
    BY <1>4, <1>8, UnitAssumption DEF Mass
  <2>4. \A x, y \in Mass : MassEntropy(x, y) \in Int
    BY EntropyBounds
  <2>5. terminal \in Int
    BY <1>10, <2>3, EntropyBounds
  <2> QED
    BY <1>9, <2>1, <2>2, <2>4, <2>5
<1> HIDE DEF terminal
<1>14. entropyLow \in Int /\ entropyLow =< MassEntropy(h + t, Unit - (h + t))
  BY <1>11, <1>13 DEF Smaller
<1> HIDE DEF entropyLow
<1>15. Larger(0, entropyLow - e.entropyUpper - terminal) =< rho
  BY <1>5, <1>12, <1>13, <1>14, EnvelopeFields DEF Larger
<1>16. ~ (low > high) /\ ~ (b["hidden"].lower > hidden)
  BY <1>4, <1>6, <1>7, <1>8
<1>17. ~ (Larger(0, entropyLow - e.entropyUpper - terminal) > rho)
  BY <1>13, <1>14, <1>15, EnvelopeFields DEF Larger
<1> QED
  BY <1>16, <1>17
     DEF SensitivityExcludes, low, high, hidden, thetaLow, thetaHigh, entropyLow, left, right, terminal

-----------------------------------------------------------------------------
\* The risk of a point of a box is at most the objective of the box.
LEMMA RiskWithinObjective ==
  ASSUME NEW e \in Envelope, NEW b \in Box,
         NEW p \in [harmful : e.harmful.lower..e.harmful.upper,
                    correct : e.correct.lower..e.correct.upper,
                    hidden : 0..e.unresolved.upper],
         Plausible(p, e), In(p, b)
  PROVE  Risk(p) =< ObjectiveUpper(b)
<1>1. /\ p["harmful"] \in Int /\ p["hidden"] \in Int /\ Risk(p) \in Mass
  BY PlausiblePoint
<1>2. /\ b["harmful"] \in Interval /\ b["hidden"] \in Interval
      /\ p["harmful"] =< b["harmful"].upper /\ p["hidden"] =< b["hidden"].upper
  BY DEF Box, Dimension, In, Within
<1> QED
  BY <1>1, <1>2, IntervalFields, UnitAssumption DEF Risk, ObjectiveUpper, Smaller, Mass

Incumbent == Mass \cup {None}

LEMMA ObjectiveIsMass == ASSUME NEW b \in Box PROVE ObjectiveUpper(b) \in Mass
<1>1. b["harmful"] \in Interval /\ b["hidden"] \in Interval
  BY DEF Box, Dimension
<1> QED
  BY <1>1, IntervalFields, UnitAssumption DEF ObjectiveUpper, Smaller, Mass

\* _queue_upper is a mass, and of no box on the heap, or taken off it, is the objective larger.
LEMMA QueueUpperBounds ==
  ASSUME NEW q, q \subseteq Box, NEW active, active \subseteq Box, NEW incumbent \in Incumbent
  PROVE  /\ QueueUpper(q, incumbent, active) \in Mass
         /\ \A b \in q \cup active : ObjectiveUpper(b) =< QueueUpper(q, incumbent, active)
<1> DEFINE values == {ObjectiveUpper(b) : b \in q \cup active}
                       \cup (IF incumbent = None THEN {} ELSE {incumbent})
<1>1. values \subseteq Mass
  BY ObjectiveIsMass DEF Incumbent
<1>2. QueueUpper(q, incumbent, active) = IF values = {} THEN Unit ELSE Largest(values)
  BY DEF QueueUpper
<1>3. \A b \in q \cup active : ObjectiveUpper(b) \in values
  OBVIOUS
<1> HIDE DEF values
<1>4. CASE values = {}
  BY <1>2, <1>3, <1>4, UnitAssumption DEF Mass
<1>5. CASE values # {}
  <2>1. Largest(values) \in values /\ \A y \in values : y =< Largest(values)
    BY <1>1, <1>5, LargestIsIn
  <2> QED
    BY <1>1, <1>2, <1>3, <1>5, <2>1
<1> QED
  BY <1>4, <1>5

-----------------------------------------------------------------------------
\* The bounds of the two minimum searches: no feasible point of a box needs less
\* information, or has a smaller latent risk.

LEMMA CornerBelow ==
  ASSUME NEW m \in Mass, NEW n \in Mass, NEW o \in Mass, NEW r \in Mass,
         NEW v \in m..n, NEW w \in o..r
  PROVE  \E h \in {m, n}, c \in {o, r} : MassEntropy(h, c) =< MassEntropy(v, w)
<1> DEFINE Corner(a, b, c, d, x, y) ==
      \E l \in {a, b}, k \in {c, d} : MassEntropy(l, k) =< MassEntropy(x, y)
<1>1. \A a, b, c, d \in Mass : \A x \in a..b, y \in c..d :
        /\ MassEntropy(x, y) =< MassEntropyUpper(a, b, c, d)
        /\ Corner(a, b, c, d, x, y)
  BY EntropyBounds
<1>2. Corner(m, n, o, r, v, w)
  <2> HIDE DEF Corner
  <2> QED
    BY <1>1
<1> QED
  BY <1>2

LEMMA CompatibilityLower ==
  ASSUME NEW e \in Envelope, NEW b \in Box
  PROVE  /\ CompatibilityBoxLower(b, e) \in Nat
         /\ \A x \in Mass, y \in Mass :
              Within(x, b["harmful"]) /\ Within(y, b["correct"]) =>
                CompatibilityBoxLower(b, e) =< Larger(0, MassEntropy(x, y) - e.entropyUpper)
<1> DEFINE a1 == b["harmful"].lower
           a2 == b["harmful"].upper
           c1 == b["correct"].lower
           c2 == b["correct"].upper
           S == {MassEntropy(h, c) : h \in {a1, a2}, c \in {c1, c2}}
           corner == CHOOSE m \in S : \A h \in {a1, a2}, c \in {c1, c2} : m =< MassEntropy(h, c)
<1>1. a1 \in Mass /\ a2 \in Mass /\ c1 \in Mass /\ c2 \in Mass
  <2>1. b["harmful"] \in Interval /\ b["correct"] \in Interval
    BY DEF Box, Dimension
  <2> QED
    BY <2>1, IntervalFields
<1>2. \A h \in {a1, a2}, c \in {c1, c2} : MassEntropy(h, c) \in Int
  BY <1>1, EntropyBounds
<1>3. \A x \in Mass, y \in Mass : Within(x, b["harmful"]) /\ Within(y, b["correct"]) =>
         \E h \in {a1, a2}, c \in {c1, c2} : MassEntropy(h, c) =< MassEntropy(x, y)
  <2> SUFFICES ASSUME NEW x \in Mass, NEW y \in Mass,
                      Within(x, b["harmful"]), Within(y, b["correct"])
               PROVE  \E h \in {a1, a2}, c \in {c1, c2} : MassEntropy(h, c) =< MassEntropy(x, y)
    OBVIOUS
  <2>1. x \in a1..a2 /\ y \in c1..c2
    BY <1>1, UnitAssumption DEF Within, Mass
  <2> HIDE DEF a1, a2, c1, c2
  <2> QED
    BY <1>1, <2>1, CornerBelow
<1>4. CompatibilityBoxLower(b, e) = Larger(0, corner - e.entropyUpper)
  BY DEF CompatibilityBoxLower
<1> HIDE DEF a1, a2, c1, c2
<1>5. \E m \in S : \A h \in {a1, a2}, c \in {c1, c2} : m =< MassEntropy(h, c)
  <2>1. /\ MassEntropy(a1, c1) \in Int /\ MassEntropy(a1, c2) \in Int
        /\ MassEntropy(a2, c1) \in Int /\ MassEntropy(a2, c2) \in Int
    BY <1>2
  <2>2. PICK m \in {MassEntropy(a1, c1), MassEntropy(a1, c2), MassEntropy(a2, c1), MassEntropy(a2, c2)} :
          /\ m =< MassEntropy(a1, c1) /\ m =< MassEntropy(a1, c2)
          /\ m =< MassEntropy(a2, c1) /\ m =< MassEntropy(a2, c2)
    BY <2>1
  <2>3. m \in S
    BY <2>2
  <2>4. \A h \in {a1, a2}, c \in {c1, c2} : m =< MassEntropy(h, c)
    BY <2>2
  <2> QED
    BY <2>3, <2>4
<1>6. corner \in S /\ \A h \in {a1, a2}, c \in {c1, c2} : corner =< MassEntropy(h, c)
  <2> HIDE DEF S
  <2> QED
    BY <1>5
<1>7. corner \in Int
  BY <1>2, <1>6
<1> HIDE DEF corner
<1>8. CompatibilityBoxLower(b, e) \in Nat
  BY <1>4, <1>7, EnvelopeFields DEF Larger
<1>9. ASSUME NEW x \in Mass, NEW y \in Mass, Within(x, b["harmful"]), Within(y, b["correct"])
      PROVE  CompatibilityBoxLower(b, e) =< Larger(0, MassEntropy(x, y) - e.entropyUpper)
  <2>1. PICK h \in {a1, a2}, c \in {c1, c2} : MassEntropy(h, c) =< MassEntropy(x, y)
    BY <1>3, <1>9
  <2>2. corner =< MassEntropy(h, c) /\ MassEntropy(h, c) \in Int
    BY <1>2, <1>6
  <2>3. MassEntropy(x, y) \in Int
    BY EntropyBounds
  <2>4. corner =< MassEntropy(x, y)
    BY <1>7, <2>1, <2>2, <2>3
  <2> QED
    BY <1>4, <1>7, <2>3, <2>4, EnvelopeFields DEF Larger
<1> QED
  BY <1>8, <1>9

\* Splitting off the unresolved mass loses no entropy, so the information of the
\* resolved mass alone is within the sensitivity budget of a feasible point.
LEMMA FeasibleInformation ==
  ASSUME NEW e \in Envelope, NEW rho \in Nat,
         NEW p \in [harmful : e.harmful.lower..e.harmful.upper,
                    correct : e.correct.lower..e.correct.upper,
                    hidden : 0..e.unresolved.upper],
         Feasible(p, e, rho)
  PROVE  Larger(0, MassEntropy(p["harmful"], p["correct"]) - e.entropyUpper) =< rho
<1> DEFINE h == p["harmful"]
           c == p["correct"]
           t == p["hidden"]
           u == Unit - h - c
<1>1. /\ h \in Mass /\ c \in Mass /\ t \in Mass /\ u \in Mass /\ t =< u
      /\ h \in Int /\ c \in Int /\ t \in Int
  BY PlausiblePoint DEF Feasible, Plausible
<1>2. MassEntropy(h + t, Unit - (h + t)) - e.entropyUpper - MassEntropy(t, u - t) =< rho
  BY DEF Feasible, InformationLower, Risk
<1> HIDE DEF h, c, t
<1>3. u - t \in Mass /\ c + (u - t) = Unit - (h + t) /\ h + c + t + (u - t) =< Unit
  BY <1>1, UnitAssumption DEF Mass
<1>4. MassEntropy(h, c) + MassEntropy(t, u - t) =< MassEntropy(h + t, c + (u - t))
  BY <1>1, <1>3, EntropySuperadditive
<1>5. /\ MassEntropy(h, c) \in Int /\ MassEntropy(t, u - t) \in Int
      /\ MassEntropy(h + t, Unit - (h + t)) \in Int
  <2>1. h + t \in Mass /\ Unit - (h + t) \in Mass
    BY <1>1, UnitAssumption DEF Mass
  <2> QED
    BY <1>1, <1>3, <2>1, EntropyBounds
<1>6. MassEntropy(h, c) - e.entropyUpper =< rho
  BY <1>2, <1>3, <1>4, <1>5, EnvelopeFields
<1> QED
  BY <1>5, <1>6, EnvelopeFields DEF Larger, h, c

\* The quotient that IntrinsicBoxLower rounds down.
LEMMA QuotientBound ==
  ASSUME NEW n \in Nat, NEW d \in Nat \ {0}
  PROVE  n \div d \in Nat /\ (n \div d) * d =< n
OBVIOUS

LEMMA IntrinsicLower ==
  ASSUME NEW b \in Box, NEW x \in Mass, NEW y \in Mass,
         Within(x, b["harmful"]), Within(y, b["correct"])
  PROVE  /\ IntrinsicBoxLower(b) \in Nat
         /\ IntrinsicBoxLower(b) * (x + y) =< Unit * x
         /\ IntrinsicBoxLower(b) > 0 => x > 0
<1> DEFINE a == b["harmful"].lower
           z == b["correct"].upper
           d == a + z
           q == IntrinsicBoxLower(b)
<1>1. /\ a \in Nat /\ z \in Nat /\ x \in Nat /\ y \in Nat /\ Unit \in Nat
      /\ a =< x /\ y =< z
  <2>1. b["harmful"] \in Interval /\ b["correct"] \in Interval
    BY DEF Box, Dimension
  <2> QED
    BY <2>1, IntervalFields, UnitAssumption DEF Mass, Within
<1>2. q = IF d = 0 THEN 0 ELSE (Unit * a) \div d
  BY DEF IntrinsicBoxLower
<1> HIDE DEF a, z, q
<1>3. CASE d = 0
  <2>1. q = 0
    BY <1>2, <1>3
  <2> QED
    BY <1>1, <2>1 DEF q
<1>4. CASE d # 0
  <2>1. d \in Nat \ {0} /\ Unit * a \in Nat
    BY <1>1, <1>4
  <2>2. q \in Nat /\ q * d =< Unit * a
    BY <1>2, <1>4, <2>1, QuotientBound
  <2>3. a * (x + y) =< x * d
    <3>1. a * y =< x * z
      BY <1>1
    <3> QED
      BY <1>1, <3>1
  <2> HIDE DEF d
  <2>4. (q * d) * (x + y) =< (Unit * a) * (x + y)
    BY <1>1, <2>1, <2>2
  <2>5. (Unit * a) * (x + y) =< (Unit * x) * d
    <3>1. Unit * (a * (x + y)) =< Unit * (x * d)
      BY <1>1, <2>1, <2>3
    <3> QED
      BY <1>1, <2>1, <3>1
  <2>6. (q * (x + y)) * d =< (Unit * x) * d
    <3>1. (q * d) * (x + y) = (q * (x + y)) * d
      BY <1>1, <2>1, <2>2
    <3>2. /\ (q * d) * (x + y) \in Int /\ (Unit * a) * (x + y) \in Int /\ (Unit * x) * d \in Int
      BY <1>1, <2>1, <2>2
    <3> QED
      BY <2>4, <2>5, <3>1, <3>2
  <2>7. q * (x + y) =< Unit * x
    <3>1. q * (x + y) \in Int /\ Unit * x \in Int /\ d \in Nat /\ d > 0
      BY <1>1, <2>1, <2>2
    <3> QED
      BY <2>6, <3>1
  <2>8. q > 0 => a > 0
    <3>1. a = 0 => Unit * a = 0
      BY <1>1
    <3>2. q > 0 => q * d > 0
      BY <2>1, <2>2
    <3> QED
      BY <1>1, <2>1, <2>2, <3>1, <3>2
  <2> QED
    BY <1>1, <2>2, <2>7, <2>8 DEF q
<1> QED
  BY <1>3, <1>4

-----------------------------------------------------------------------------
(* The invariant.                                                          *)

\* The boxes on the heap of the search in progress hold every feasible point: none
\* is given up for what an incumbent has shown.
CoverInv ==
  phase \in {"compatibility", "projection", "intrinsic"} =>
    \A p \in FeasiblePoints : \E b \in queue : In(p, b)

\* An incumbent is the risk of a feasible point.
Witnessed(incumbent) ==
  /\ incumbent \in Incumbent
  /\ incumbent # None => \E p \in FeasiblePoints : Risk(p) = incumbent

ProjectionTrue(r) ==
  /\ r.upper \in Mass
  /\ \A p \in FeasiblePoints : Risk(p) =< r.upper
  /\ Witnessed(r.incumbent)
  /\ r.reason = "DECISION_REFUTED" => \E p \in FeasiblePoints : Risk(p) > problem.budget

CompatibilityTrue(lower) ==
  lower \in Int /\ \A p \in FeasiblePoints : lower =< problem.rho

IntrinsicTrue(lower) ==
  /\ lower \in Int
  /\ lower > 0 =>
       \A p \in FeasiblePoints :
         /\ p["harmful"] > 0
         /\ lower * (p["harmful"] + p["correct"]) =< Unit * p["harmful"]

FoundInv ==
  /\ found = [compatibility |-> found.compatibility, intrinsic |-> found.intrinsic,
              projection |-> found.projection]
  /\ ProjectionTrue(found.projection)
  /\ CompatibilityTrue(found.compatibility)
  /\ IntrinsicTrue(found.intrinsic)

BoundInv ==
  /\ problem \in Problems
  /\ phase \in {"compatibility", "projection", "intrinsic", "returned", "raised"}
  /\ queue \subseteq Box
  /\ phase = "projection" => Witnessed(best)
  /\ CoverInv /\ FoundInv

LEMMA ProblemFacts ==
  ASSUME problem \in Problems
  PROVE  /\ Env \in Envelope /\ problem.rho \in Nat
         /\ Initial \in Box
         /\ \A p \in FeasiblePoints :
              /\ p["harmful"] \in Int /\ p["correct"] \in Int /\ p["hidden"] \in Int
              /\ Risk(p) \in Mass
              /\ In(p, Initial)
         /\ \A b \in Box, p \in FeasiblePoints : In(p, b) =>
              /\ Risk(p) =< ObjectiveUpper(b)
              /\ BoxPossible(b, Env)
              /\ ~ SensitivityExcludes(b, Env, problem.rho)
<1>1. Env \in Envelope /\ problem.rho \in Nat
  BY SearchAssumption DEF Env
<1>2. Initial \in Box
  BY <1>1, InitialIsBox DEF Initial
<1>3. \A p \in FeasiblePoints :
        /\ p \in [harmful : Env.harmful.lower..Env.harmful.upper,
                  correct : Env.correct.lower..Env.correct.upper,
                  hidden : 0..Env.unresolved.upper]
        /\ Feasible(p, Env, problem.rho) /\ Plausible(p, Env)
  BY DEF FeasiblePoints, Feasible
<1> HIDE DEF Env
<1>4. \A p \in FeasiblePoints :
        /\ p["harmful"] \in Int /\ p["correct"] \in Int /\ p["hidden"] \in Int
        /\ Risk(p) \in Mass
        /\ In(p, Initial)
  BY <1>1, <1>3, PlausiblePoint DEF Initial
<1>5. ASSUME NEW b \in Box, NEW p \in FeasiblePoints, In(p, b)
      PROVE  /\ Risk(p) =< ObjectiveUpper(b)
             /\ BoxPossible(b, Env)
             /\ ~ SensitivityExcludes(b, Env, problem.rho)
  BY <1>1, <1>3, <1>5, RiskWithinObjective, PlausibleIsPossible, FeasibleIsNotExcluded
<1> QED
  BY <1>1, <1>2, <1>4, <1>5

\* The lower bounds of the two minimum searches, at a feasible point of a box.
LEMMA LowerFacts ==
  ASSUME problem \in Problems, NEW b \in Box
  PROVE  /\ CompatibilityBoxLower(b, Env) \in Nat /\ IntrinsicBoxLower(b) \in Nat
         /\ \A p \in FeasiblePoints : In(p, b) =>
              /\ CompatibilityBoxLower(b, Env) =< problem.rho
              /\ IntrinsicBoxLower(b) * (p["harmful"] + p["correct"]) =< Unit * p["harmful"]
              /\ IntrinsicBoxLower(b) > 0 => p["harmful"] > 0
<1>1. Env \in Envelope /\ problem.rho \in Nat
  BY SearchAssumption DEF Env
<1>2. \A p \in FeasiblePoints :
        /\ p \in [harmful : Env.harmful.lower..Env.harmful.upper,
                  correct : Env.correct.lower..Env.correct.upper,
                  hidden : 0..Env.unresolved.upper]
        /\ Feasible(p, Env, problem.rho)
  BY DEF FeasiblePoints
<1> HIDE DEF Env
<1>3. IntrinsicBoxLower(b) \in Nat
  <2>1. b["harmful"] \in Interval /\ b["correct"] \in Interval
    BY DEF Box, Dimension
  <2>2. /\ b["harmful"].lower \in Mass /\ Within(b["harmful"].lower, b["harmful"])
        /\ b["correct"].lower \in Mass /\ Within(b["correct"].lower, b["correct"])
    BY <2>1, IntervalFields DEF Within
  <2> QED
    BY <2>2, IntrinsicLower
<1>4. ASSUME NEW p \in FeasiblePoints, In(p, b)
      PROVE  /\ CompatibilityBoxLower(b, Env) =< problem.rho
             /\ IntrinsicBoxLower(b) * (p["harmful"] + p["correct"]) =< Unit * p["harmful"]
             /\ IntrinsicBoxLower(b) > 0 => p["harmful"] > 0
  <2>1. /\ p["harmful"] \in Mass /\ Within(p["harmful"], b["harmful"])
        /\ p["correct"] \in Mass /\ Within(p["correct"], b["correct"])
    <3>1. p["harmful"] \in Mass /\ p["correct"] \in Mass
      BY <1>1, <1>2, PlausiblePoint DEF Feasible
    <3> QED
      BY <3>1, <1>4 DEF In, Dimension
  <2>2. Larger(0, MassEntropy(p["harmful"], p["correct"]) - Env.entropyUpper) =< problem.rho
    BY <1>1, <1>2, FeasibleInformation
  <2>3. CompatibilityBoxLower(b, Env)
          =< Larger(0, MassEntropy(p["harmful"], p["correct"]) - Env.entropyUpper)
    BY <1>1, <2>1, CompatibilityLower
  <2>4. CompatibilityBoxLower(b, Env) \in Int
    BY <1>1, CompatibilityLower
  <2>5. MassEntropy(p["harmful"], p["correct"]) \in Int
    BY <2>1, EntropyBounds
  <2>6. Larger(0, MassEntropy(p["harmful"], p["correct"]) - Env.entropyUpper) \in Int
    BY <1>1, <2>5, EnvelopeFields DEF Larger
  <2>7. CompatibilityBoxLower(b, Env) =< problem.rho
    BY <1>1, <2>2, <2>3, <2>4, <2>6
  <2> QED
    BY <2>1, <2>7, IntrinsicLower
<1> QED
  BY <1>1, <1>3, <1>4, CompatibilityLower

\* A feasible point of a box is in one of the children that the search keeps.
LEMMA SurvivorsCover ==
  ASSUME problem \in Problems, NEW b \in Box
  PROVE  /\ Survivors(b) \subseteq Box
         /\ \A p \in FeasiblePoints : In(p, b) => \E child \in Survivors(b) : In(p, child)
<1>1. Survivors(b) \subseteq Box
  BY SplitCovers DEF Survivors
<1>2. ASSUME NEW p \in FeasiblePoints, In(p, b)
      PROVE  \E child \in Survivors(b) : In(p, child)
  <2>1. PICK child \in SplitBox(b, Env) : In(p, child)
    BY <1>2, SplitCovers, ProblemFacts
  <2>2. child \in Box
    BY SplitCovers
  <2>3. BoxPossible(child, Env) /\ ~ SensitivityExcludes(child, Env, problem.rho)
    BY <2>1, <2>2, ProblemFacts
  <2> QED
    BY <2>1, <2>3 DEF Survivors
<1> QED
  BY <1>1, <1>2

-----------------------------------------------------------------------------
(* The steps.                                                              *)

LEMMA InitBound == Init => BoundInv
<1> SUFFICES ASSUME Init PROVE BoundInv
  OBVIOUS
<1>1. problem \in Problems /\ phase = "compatibility" /\ queue \subseteq Box
  BY ProblemFacts DEF Init
<1> DEFINE open == [upper |-> Unit, incumbent |-> None, reason |-> "OPEN"]
<1>2. found = [compatibility |-> None, intrinsic |-> None, projection |-> open]
  BY DEF Init
<1>3. open.upper = Unit /\ open.incumbent = None /\ open.reason = "OPEN"
  OBVIOUS
<1> HIDE DEF open
<1>4. ProjectionTrue(open)
  BY <1>1, <1>3, ProblemFacts, UnitAssumption DEF ProjectionTrue, Witnessed, Incumbent, Mass
<1>5. CompatibilityTrue(None) /\ IntrinsicTrue(None)
  BY <1>1, ProblemFacts DEF CompatibilityTrue, IntrinsicTrue, None
<1>6. FoundInv
  BY <1>2, <1>4, <1>5 DEF FoundInv
<1>7. CoverInv
  BY <1>1, ProblemFacts DEF Init, CoverInv
<1> QED
  BY <1>1, <1>6, <1>7 DEF BoundInv

\* The arguments of the call never change, and with them its feasible points.
LEMMA FoundNext ==
  ASSUME problem' = problem, NEW c, NEW i, NEW r,
         found' = [compatibility |-> c, intrinsic |-> i, projection |-> r],
         CompatibilityTrue(c), IntrinsicTrue(i), ProjectionTrue(r)
  PROVE  FoundInv'
<1>1. FeasiblePoints' = FeasiblePoints
  BY DEF FeasiblePoints, Env
<1>2. found'.compatibility = c /\ found'.intrinsic = i /\ found'.projection = r
  OBVIOUS
<1>3. CompatibilityTrue(c)'
  BY <1>1 DEF CompatibilityTrue
<1>4. IntrinsicTrue(i)'
  BY <1>1 DEF IntrinsicTrue
<1>5. ProjectionTrue(r)'
  BY <1>1 DEF ProjectionTrue, Witnessed
<1> QED
  BY <1>2, <1>3, <1>4, <1>5 DEF FoundInv, CompatibilityTrue, IntrinsicTrue, ProjectionTrue, Witnessed

\* A search starts with the box of the whole envelope, unless that holds no point.
LEMMA EnterKeeps ==
  ASSUME problem \in Problems, problem' = problem, FoundInv',
         NEW search \in {"projection", "intrinsic"}, Enter(search)
  PROVE  BoundInv'
<1>1. FeasiblePoints' = FeasiblePoints
  BY DEF FeasiblePoints, Env
<1>2. queue' \subseteq Box /\ phase' = search
  BY ProblemFacts DEF Enter
<1>3. ASSUME NEW p \in FeasiblePoints
      PROVE  \E b \in queue' : In(p, b)
  <2>1. /\ BoxPossible(Initial, Env) /\ In(p, Initial)
        /\ ~ SensitivityExcludes(Initial, Env, problem.rho)
    BY ProblemFacts
  <2>2. queue' = {Initial}
    BY <1>3, <2>1 DEF Enter
  <2> QED
    BY <2>1, <2>2
<1>4. search = "projection" => Witnessed(best)'
  BY DEF Enter, Witnessed, Incumbent
<1> QED
  BY <1>1, <1>2, <1>3, <1>4 DEF BoundInv, CoverInv

LEMMA LeaveKeeps ==
  ASSUME problem \in Problems, problem' = problem, FoundInv',
         NEW last \in {"returned", "raised"}, Leave(last)
  PROVE  BoundInv'
BY DEF Leave, BoundInv, CoverInv

\* A search goes on with boxes that still hold every feasible point.
LEMMA GoOnKeeps ==
  ASSUME BoundInv, NEW q, q \subseteq Box, NEW value, GoOn(q, value),
         phase = "projection" => Witnessed(value),
         \A p \in FeasiblePoints : \E b \in q : In(p, b)
  PROVE  BoundInv'
<1>1. /\ problem' = problem /\ phase' = phase /\ found' = found /\ queue' = q /\ best' = value
  BY DEF GoOn
<1>2. FeasiblePoints' = FeasiblePoints
  BY <1>1 DEF FeasiblePoints, Env
<1>3. FoundInv'
  BY <1>1, FoundNext DEF BoundInv, FoundInv
<1>4. phase' = "projection" => Witnessed(best)'
  BY <1>1, <1>2 DEF Witnessed
<1> QED
  BY <1>1, <1>2, <1>3, <1>4 DEF BoundInv, CoverInv

\* Whatever the projection returns for, it bounds the boxes it has not resolved.
LEMMA ReturnProjectionKeeps ==
  ASSUME BoundInv, NEW q, q \subseteq Box, NEW active, active \subseteq Box,
         NEW incumbent, Witnessed(incumbent), NEW reason,
         reason = "DECISION_REFUTED" => \E p \in FeasiblePoints : Risk(p) > problem.budget,
         \A p \in FeasiblePoints : \E b \in q \cup active : In(p, b),
         ReturnProjection(q, incumbent, active, reason)
  PROVE  BoundInv'
<1> DEFINE upper == QueueUpper(q, incumbent, active)
           returned == [upper |-> upper, incumbent |-> incumbent, reason |-> reason]
<1>0. upper \in Mass /\ incumbent \in Incumbent
  BY QueueUpperBounds DEF Witnessed
<1>1. \A p \in FeasiblePoints : Risk(p) =< upper
  <2> SUFFICES ASSUME NEW p \in FeasiblePoints PROVE Risk(p) =< upper
    OBVIOUS
  <2>1. PICK b \in q \cup active : In(p, b)
    OBVIOUS
  <2>2. Risk(p) =< ObjectiveUpper(b)
    BY <2>1, ProblemFacts DEF BoundInv
  <2>3. ObjectiveUpper(b) =< upper
    BY <1>0, QueueUpperBounds
  <2>4. Risk(p) \in Int /\ ObjectiveUpper(b) \in Int
    BY ProblemFacts, ObjectiveIsMass DEF BoundInv, Mass
  <2>5. upper \in Int
    BY <1>0 DEF Mass
  <2> QED
    BY <2>2, <2>3, <2>4, <2>5
<1>2. problem' = problem /\ problem \in Problems
  BY DEF ReturnProjection, BoundInv
<1>3. \E i \in {None, 0} : found' = [found EXCEPT !.projection = returned, !.intrinsic = i]
  BY DEF ReturnProjection
<1>4. Enter("intrinsic") \/ Leave("returned")
  BY DEF ReturnProjection
<1> HIDE DEF upper
<1>5. returned.upper = upper /\ returned.incumbent = incumbent /\ returned.reason = reason
  OBVIOUS
<1> HIDE DEF returned
<1>6. PICK i \in {None, 0} :
        found' = [compatibility |-> found.compatibility, intrinsic |-> i, projection |-> returned]
  BY <1>3 DEF BoundInv, FoundInv
<1>7. ProjectionTrue(returned)
  BY <1>0, <1>1, <1>5 DEF ProjectionTrue
<1>8. IntrinsicTrue(i)
  BY DEF IntrinsicTrue, None
<1>9. FoundInv'
  BY <1>2, <1>6, <1>7, <1>8, FoundNext DEF BoundInv, FoundInv
<1> QED
  BY <1>2, <1>4, <1>9, EnterKeeps, LeaveKeeps

\* A step of the projection that goes on leaves every feasible point on the heap.
LEMMA AfterStepKeeps ==
  ASSUME BoundInv, phase = "projection", NEW q, q \subseteq Box,
         NEW incumbent, Witnessed(incumbent),
         \A p \in FeasiblePoints : \E b \in q : In(p, b),
         AfterStep(q, incumbent)
  PROVE  BoundInv'
<1>1. CASE ReturnProjection(q, incumbent, {}, "STALLED")
  BY <1>1, ReturnProjectionKeeps
<1>2. CASE GoOn(q, incumbent)
  BY <1>2, GoOnKeeps
<1> QED
  BY <1>1, <1>2 DEF AfterStep

\* A refutation is by an incumbent, which is the risk of a feasible point.
LEMMA RefutedIsWitnessed ==
  ASSUME problem \in Problems, NEW rest, NEW incumbent, Witnessed(incumbent), NEW b,
         Settled(rest, incumbent, b) = "DECISION_REFUTED"
  PROVE  \E p \in FeasiblePoints : Risk(p) > problem.budget
<1>1. problem.budget # None /\ problem.budget \in Mass \cup {None} /\ incumbent > problem.budget
  BY SearchAssumption DEF Settled
<1>2. incumbent # None
  BY <1>1, UnitAssumption DEF Mass, None
<1> QED
  BY <1>1, <1>2 DEF Witnessed

LEMMA ProjectionKeeps ==
  ASSUME BoundInv, FirstIncumbent \/ ProjectionStep \/ ProjectionFallback \/ ProjectionEnd
  PROVE  BoundInv'
<1>1. /\ problem \in Problems /\ phase = "projection" /\ queue \subseteq Box
      /\ Witnessed(best)
      /\ \A p \in FeasiblePoints : \E b \in queue : In(p, b)
  BY DEF BoundInv, CoverInv, FirstIncumbent, ProjectionStep, ProjectionFallback, ProjectionEnd
<1>2. CASE FirstIncumbent
  <2>1. /\ problem' = problem /\ phase' = phase /\ queue' = queue /\ found' = found
        /\ \E p \in FeasiblePoints : best' = Risk(p)
    BY <1>2 DEF FirstIncumbent
  <2>2. FeasiblePoints' = FeasiblePoints
    BY <2>1 DEF FeasiblePoints, Env
  <2>3. FoundInv'
    BY <2>1, FoundNext DEF BoundInv, FoundInv
  <2>4. Witnessed(best)'
    BY <1>1, <2>1, <2>2, ProblemFacts DEF Witnessed, Incumbent
  <2> QED
    BY <1>1, <2>1, <2>2, <2>3, <2>4 DEF BoundInv, CoverInv
<1>3. CASE ProjectionStep
  <2>1. PICK b \in Foremost(queue) :
          LET rest == queue \ {b}
          IN IF b = Initial /\ SensitivityExcludes(b, Env, problem.rho)
             THEN AfterStep(rest, best)
             ELSE \E candidate \in Candidates(b) :
               LET incumbent == IF Settled(rest, best, b) = "OPEN" THEN Larger(best, candidate) ELSE best
                   settled == Settled(rest, incumbent, b)
                   q == rest \cup Survivors(b)
                   upper == QueueUpper(q, incumbent, {})
               IN CASE settled # "OPEN" -> ReturnProjection(rest, incumbent, {b}, settled)
                    [] settled = "OPEN" /\ Resolved(b, Env, Gap) ->
                         ReturnProjection(rest, incumbent, {b}, "BOX_RESOLUTION")
                    [] settled = "OPEN" /\ ~Resolved(b, Env, Gap) ->
                         IF incumbent # None /\ upper - incumbent =< Gap
                         THEN ReturnProjection(q, incumbent, {}, "CONVERGED")
                         ELSE AfterStep(q, incumbent)
    BY <1>3 DEF ProjectionStep
  <2> DEFINE rest == queue \ {b}
             q == rest \cup Survivors(b)
  <2>2. b \in queue /\ b \in Box /\ rest \subseteq Box
    BY <1>1 DEF Foremost
  <2>3. q \subseteq Box
    BY <1>1, <2>2, SurvivorsCover
  <2>4. \A p \in FeasiblePoints : \E a \in rest \cup {b} : In(p, a)
    BY <1>1, <2>2
  <2>5. \A p \in FeasiblePoints : \E a \in q : In(p, a)
    BY <1>1, <2>2, SurvivorsCover
  <2>6. CASE b = Initial /\ SensitivityExcludes(b, Env, problem.rho)
    <3>1. \A p \in FeasiblePoints : \E a \in rest : In(p, a)
      BY <1>1, <2>2, <2>6, ProblemFacts
    <3>2. AfterStep(rest, best)
      BY <2>1, <2>6
    <3> HIDE DEF rest
    <3> QED
      BY <1>1, <2>2, <3>1, <3>2, AfterStepKeeps
  <2>7. CASE ~ (b = Initial /\ SensitivityExcludes(b, Env, problem.rho))
    <3> DEFINE upper(incumbent) == QueueUpper(q, incumbent, {})
               next(candidate) ==
                 IF Settled(rest, best, b) = "OPEN" THEN Larger(best, candidate) ELSE best
    <3>1. PICK candidate \in Candidates(b) :
            CASE Settled(rest, next(candidate), b) # "OPEN" ->
                   ReturnProjection(rest, next(candidate), {b}, Settled(rest, next(candidate), b))
              [] Settled(rest, next(candidate), b) = "OPEN" /\ Resolved(b, Env, Gap) ->
                   ReturnProjection(rest, next(candidate), {b}, "BOX_RESOLUTION")
              [] Settled(rest, next(candidate), b) = "OPEN" /\ ~Resolved(b, Env, Gap) ->
                   IF next(candidate) # None /\ upper(next(candidate)) - next(candidate) =< Gap
                   THEN ReturnProjection(q, next(candidate), {}, "CONVERGED")
                   ELSE AfterStep(q, next(candidate))
      BY <2>1, <2>7
    <3> DEFINE incumbent == next(candidate)
    <3>2. Witnessed(candidate)
      BY <1>1, ProblemFacts DEF Candidates, Witnessed, Incumbent
    <3>3. Witnessed(incumbent)
      BY <1>1, <3>2 DEF Larger, next
    <3>4. \/ \E reason :
               /\ ReturnProjection(rest, incumbent, {b}, reason)
               /\ reason = "DECISION_REFUTED" => Settled(rest, incumbent, b) = reason
          \/ ReturnProjection(q, incumbent, {}, "CONVERGED")
          \/ AfterStep(q, incumbent)
      <4> HIDE DEF next, upper, q, rest
      <4>1. CASE Settled(rest, incumbent, b) # "OPEN"
        BY <3>1, <4>1
      <4>2. CASE Settled(rest, incumbent, b) = "OPEN" /\ Resolved(b, Env, Gap)
        <5>1. "BOX_RESOLUTION" # "DECISION_REFUTED"
          OBVIOUS
        <5>2. ReturnProjection(rest, incumbent, {b}, "BOX_RESOLUTION")
          BY <3>1, <4>2
        <5> QED
          BY <5>1, <5>2
      <4>3. CASE Settled(rest, incumbent, b) = "OPEN" /\ ~Resolved(b, Env, Gap)
        BY <3>1, <4>3
      <4> QED
        BY <4>1, <4>2, <4>3
    <3>5. {b} \subseteq Box /\ \A p \in FeasiblePoints : \E a \in q \cup {} : In(p, a)
      BY <2>2, <2>5
    <3> HIDE DEF incumbent, rest, q
    <3>6. CASE \E reason :
                 /\ ReturnProjection(rest, incumbent, {b}, reason)
                 /\ reason = "DECISION_REFUTED" => Settled(rest, incumbent, b) = reason
      <4>1. PICK reason :
              /\ ReturnProjection(rest, incumbent, {b}, reason)
              /\ reason = "DECISION_REFUTED" => Settled(rest, incumbent, b) = reason
        BY <3>6
      <4>2. reason = "DECISION_REFUTED" => \E p \in FeasiblePoints : Risk(p) > problem.budget
        BY <1>1, <3>3, <4>1, RefutedIsWitnessed
      <4> QED
        BY <2>2, <2>4, <3>3, <3>5, <4>1, <4>2, ReturnProjectionKeeps
    <3>7. CASE ReturnProjection(q, incumbent, {}, "CONVERGED")
      BY <2>3, <3>3, <3>5, <3>7, ReturnProjectionKeeps
    <3>8. CASE AfterStep(q, incumbent)
      BY <1>1, <2>3, <2>5, <3>3, <3>8, AfterStepKeeps
    <3> QED
      BY <3>4, <3>6, <3>7, <3>8
  <2> QED
    BY <2>6, <2>7
<1>4. CASE ProjectionFallback
  <2>0. PICK b \in Foremost(queue) : \E pushed \in SUBSET Survivors(b) :
          ReturnProjection((queue \ {b}) \cup pushed, best, {b}, "ARITHMETIC_FALLBACK")
    BY <1>4 DEF ProjectionFallback
  <2>1. PICK pushed \in SUBSET Survivors(b) :
          ReturnProjection((queue \ {b}) \cup pushed, best, {b}, "ARITHMETIC_FALLBACK")
    BY <2>0
  <2> DEFINE q == (queue \ {b}) \cup pushed
  <2>2. b \in queue /\ {b} \subseteq Box /\ q \subseteq Box
    BY <1>1, SurvivorsCover DEF Foremost
  <2>3. \A p \in FeasiblePoints : \E a \in q \cup {b} : In(p, a)
    BY <1>1, <2>2
  <2>4. ReturnProjection(q, best, {b}, "ARITHMETIC_FALLBACK")
    BY <2>1
  <2> HIDE DEF q
  <2> QED
    BY <1>1, <2>2, <2>3, <2>4, ReturnProjectionKeeps
<1>5. CASE ProjectionEnd
  <2>1. \E reason \in {"CONVERGED", "NODE_CAP"} : ReturnProjection(queue, best, {}, reason)
    BY <1>5 DEF ProjectionEnd
  <2> QED
    BY <1>1, <2>1, ReturnProjectionKeeps
<1> QED
  BY <1>2, <1>3, <1>4, <1>5

LEMMA ResolvedIsNat ==
  ASSUME problem \in Problems, NEW p \in FeasiblePoints
  PROVE  /\ p["harmful"] \in Nat /\ p["correct"] \in Nat
         /\ p["harmful"] + p["correct"] \in Nat /\ Unit * p["harmful"] \in Int
<1>1. Env \in Envelope /\ problem.rho \in Nat
  BY SearchAssumption DEF Env
<1>2. /\ p \in [harmful : Env.harmful.lower..Env.harmful.upper,
                correct : Env.correct.lower..Env.correct.upper,
                hidden : 0..Env.unresolved.upper]
      /\ Plausible(p, Env)
  BY DEF FeasiblePoints, Feasible
<1> HIDE DEF Env
<1>3. p["harmful"] \in Mass /\ p["correct"] \in Mass
  BY <1>1, <1>2, PlausiblePoint
<1>4. p["harmful"] \in Nat /\ p["correct"] \in Nat
  BY <1>3 DEF Mass
<1> QED
  BY <1>4, UnitAssumption

\* A minimum search returns no more than the bound of a box, for each feasible point.
LEMMA ReturnMinimumKeeps ==
  ASSUME BoundInv, phase \in {"compatibility", "intrinsic"}, NEW lower \in Int,
         \A p \in FeasiblePoints : \E b \in Box : In(p, b) /\ lower =< MinimumLower(b),
         ReturnMinimum(lower)
  PROVE  BoundInv'
<1> DEFINE value == Larger(0, lower)
<1>1. problem \in Problems /\ FoundInv
  BY DEF BoundInv
<1>2. problem' = problem /\ found' = [found EXCEPT ![phase] = value]
  BY DEF ReturnMinimum
<1>3. Enter("projection") \/ Leave("returned")
  BY DEF ReturnMinimum
<1>4. value \in Nat
  BY DEF Larger
<1>5. \A p \in FeasiblePoints : \E b \in Box : In(p, b) /\ value =< MinimumLower(b)
  <2>1. \A b \in Box : MinimumLower(b) \in Nat
    BY <1>1, LowerFacts DEF MinimumLower
  <2> QED
    BY <2>1 DEF Larger
<1> HIDE DEF value
<1>6. CASE phase = "compatibility"
  <2>1. found' = [compatibility |-> value, intrinsic |-> found.intrinsic, projection |-> found.projection]
    BY <1>1, <1>2, <1>6 DEF FoundInv
  <2>2. ASSUME NEW p \in FeasiblePoints
        PROVE  value =< problem.rho
    <3>1. PICK b \in Box : In(p, b) /\ value =< MinimumLower(b)
      BY <1>5
    <3>2. MinimumLower(b) \in Nat /\ MinimumLower(b) =< problem.rho /\ problem.rho \in Nat
      BY <1>1, <1>6, <3>1, LowerFacts, ProblemFacts DEF MinimumLower
    <3> QED
      BY <1>4, <3>1, <3>2
  <2>3. CompatibilityTrue(value)
    BY <1>4, <2>2 DEF CompatibilityTrue
  <2>4. FoundInv'
    BY <1>1, <1>2, <2>1, <2>3, FoundNext DEF FoundInv
  <2> QED
    BY <1>1, <1>2, <1>3, <2>4, EnterKeeps, LeaveKeeps
<1>7. CASE phase = "intrinsic"
  <2>1. found' = [compatibility |-> found.compatibility, intrinsic |-> value, projection |-> found.projection]
    BY <1>1, <1>2, <1>7 DEF FoundInv
  <2>2. ASSUME NEW p \in FeasiblePoints, value > 0
        PROVE  /\ p["harmful"] > 0
               /\ value * (p["harmful"] + p["correct"]) =< Unit * p["harmful"]
    <3>1. PICK b \in Box : In(p, b) /\ value =< MinimumLower(b)
      BY <1>5
    <3> DEFINE q == IntrinsicBoxLower(b)
               resolved == p["harmful"] + p["correct"]
    <3>2. /\ q \in Nat /\ value =< q
          /\ q * resolved =< Unit * p["harmful"] /\ (q > 0 => p["harmful"] > 0)
      BY <1>1, <1>7, <3>1, LowerFacts DEF MinimumLower
    <3>3. resolved \in Nat /\ Unit * p["harmful"] \in Int
      BY <1>1, ResolvedIsNat
    <3> HIDE DEF q, resolved
    <3>4. value * resolved =< q * resolved
      BY <1>4, <3>2, <3>3
    <3>5. value * resolved \in Int /\ q * resolved \in Int
      BY <1>4, <3>2, <3>3
    <3>6. value * resolved =< Unit * p["harmful"]
      BY <3>2, <3>3, <3>4, <3>5
    <3>7. p["harmful"] > 0
      BY <1>4, <2>2, <3>2
    <3> QED
      BY <3>6, <3>7 DEF resolved
  <2>3. IntrinsicTrue(value)
    BY <1>4, <2>2 DEF IntrinsicTrue
  <2>4. FoundInv'
    BY <1>1, <1>2, <2>1, <2>3, FoundNext DEF FoundInv
  <2> QED
    BY <1>1, <1>2, <1>3, <2>4, EnterKeeps, LeaveKeeps
<1> QED
  BY <1>6, <1>7

\* The bound of a heap is one of each of its boxes.
LEMMA FinalLowerBounds ==
  ASSUME problem \in Problems, NEW q, q \subseteq Box
  PROVE  FinalLower(q) \in Nat /\ \A b \in q : FinalLower(q) =< MinimumLower(b)
<1> DEFINE values == {MinimumLower(b) : b \in q}
<1>1. values \subseteq Nat
  BY LowerFacts DEF MinimumLower
<1>2. q # {} => values # {}
  OBVIOUS
<1>3. FinalLower(q) = IF q = {} THEN 0 ELSE Least(values)
  BY DEF FinalLower
<1>4. \A b \in q : MinimumLower(b) \in values
  OBVIOUS
<1> HIDE DEF values
<1>5. CASE q = {}
  BY <1>3, <1>5
<1>6. CASE q # {}
  <2>1. Least(values) \in values /\ \A y \in values : Least(values) =< y
    <3>1. \E x \in values : \A y \in values : x =< y
      BY <1>1, <1>2, <1>6, Minimum
    <3> QED
      BY <3>1 DEF Least
  <2> QED
    BY <1>1, <1>3, <1>4, <1>6, <2>1
<1> QED
  BY <1>5, <1>6

LEMMA MinimumKeeps ==
  ASSUME BoundInv, MinimumStep \/ MinimumEnd \/ MinimumRaises
  PROVE  BoundInv'
<1>1. /\ problem \in Problems /\ queue \subseteq Box /\ FoundInv
      /\ phase \in {"compatibility", "intrinsic"}
      /\ \A p \in FeasiblePoints : \E b \in queue : In(p, b)
  BY DEF BoundInv, CoverInv, MinimumStep, MinimumEnd, MinimumRaises
<1>2. ASSUME NEW q, q \subseteq Box, \A p \in FeasiblePoints : \E b \in q : In(p, b),
             ReturnMinimum(FinalLower(q))
      PROVE  BoundInv'
  <2>1. FinalLower(q) \in Nat /\ \A b \in q : FinalLower(q) =< MinimumLower(b)
    BY <1>1, <1>2, FinalLowerBounds
  <2>2. \A p \in FeasiblePoints : \E b \in Box : In(p, b) /\ FinalLower(q) =< MinimumLower(b)
    BY <1>2, <2>1
  <2> QED
    BY <1>1, <1>2, <2>1, <2>2, ReturnMinimumKeeps
<1>3. CASE MinimumEnd
  BY <1>1, <1>2, <1>3 DEF MinimumEnd
<1>4. CASE MinimumRaises
  <2>1. problem' = problem /\ found' = found /\ Leave("raised")
    BY <1>4 DEF MinimumRaises
  <2>2. FoundInv'
    BY <1>1, <2>1, FoundNext DEF FoundInv
  <2> QED
    BY <1>1, <2>1, <2>2, LeaveKeeps
<1>5. CASE MinimumStep
  <2>1. PICK b \in Foremost(queue) :
          LET rest == queue \ {b}
              lower == MinimumLower(b)
              global == IF rest = {} THEN lower ELSE Smaller(lower, FinalLower(rest))
          IN \/ ReturnMinimum(lower)
             \/ ReturnMinimum(global)
             \/ ReturnMinimum(FinalLower(queue))
             \/ \E upper : AfterMinimumStep(rest \cup Survivors(b), upper, lower)
    BY <1>5 DEF MinimumStep
  <2> DEFINE rest == queue \ {b}
             q == rest \cup Survivors(b)
             lower == MinimumLower(b)
             global == IF rest = {} THEN lower ELSE Smaller(lower, FinalLower(rest))
  <2>2. /\ b \in queue /\ b \in Box /\ rest \subseteq Box
        /\ \A a \in queue : lower =< MinimumLower(a)
    BY <1>1 DEF Foremost
  <2>3. q \subseteq Box /\ \A p \in FeasiblePoints : \E a \in q : In(p, a)
    BY <1>1, <2>2, SurvivorsCover
  <2>4. \A a \in Box : MinimumLower(a) \in Nat
    BY <1>1, LowerFacts DEF MinimumLower
  <2>5. global \in Int /\ global =< lower
    BY <1>1, <2>2, <2>4, FinalLowerBounds DEF Smaller
  <2>6. ASSUME NEW v \in Int, v =< lower, ReturnMinimum(v)
        PROVE  BoundInv'
    <3>1. \A a \in queue : v =< MinimumLower(a)
      BY <1>1, <2>2, <2>4, <2>6
    <3>2. \A p \in FeasiblePoints : \E a \in Box : In(p, a) /\ v =< MinimumLower(a)
      BY <1>1, <3>1
    <3> QED
      BY <1>1, <2>6, <3>2, ReturnMinimumKeeps
  <2>7. lower \in Int /\ lower =< lower
    BY <2>2, <2>4
  <2>8. \/ ReturnMinimum(lower) \/ ReturnMinimum(global) \/ ReturnMinimum(FinalLower(queue))
        \/ \E upper : AfterMinimumStep(q, upper, lower)
    BY <2>1
  <2> HIDE DEF q, lower, global
  <2>9. CASE \E upper : AfterMinimumStep(q, upper, lower)
    <3>1. ReturnMinimum(FinalLower(q)) \/ \E upper : GoOn(q, upper)
      BY <2>9 DEF AfterMinimumStep
    <3>2. CASE ReturnMinimum(FinalLower(q))
      BY <1>2, <2>3, <3>2
    <3>3. CASE \E upper : GoOn(q, upper)
      BY <1>1, <2>3, <3>3, GoOnKeeps
    <3> QED
      BY <3>1, <3>2, <3>3
  <2> QED
    BY <1>1, <1>2, <2>5, <2>6, <2>7, <2>8, <2>9
<1> QED
  BY <1>3, <1>4, <1>5

LEMMA AlwaysBound == Spec => []BoundInv
<1>1. BoundInv /\ UNCHANGED vars => BoundInv'
  BY DEF BoundInv, CoverInv, FoundInv, ProjectionTrue, CompatibilityTrue, IntrinsicTrue,
         Witnessed, FeasiblePoints, Env, vars
<1>2. BoundInv /\ [Next]_vars => BoundInv'
  BY <1>1, ProjectionKeeps, MinimumKeeps DEF Next
<1> QED
  BY InitBound, <1>2, PTL DEF Spec

-----------------------------------------------------------------------------
\* Before and after every step, for whatever reason it stops, the bound the search
\* has is above every risk the envelope and the sensitivity budget admit
\* (_queue_upper, _final_projection, _projection_fallback).
THEOREM UpperBound == Spec => []UpperIsProven
<1>1. BoundInv => UpperIsProven
  <2> SUFFICES ASSUME BoundInv, NEW p \in FeasiblePoints
               PROVE  /\ phase = "projection" => Risk(p) =< QueueUpper(queue, best, {})
                      /\ Risk(p) =< found.projection.upper
    BY DEF UpperIsProven
  <2>1. ASSUME phase = "projection"
        PROVE  Risk(p) =< QueueUpper(queue, best, {})
    <3>1. PICK b \in queue : In(p, b)
      BY <2>1 DEF BoundInv, CoverInv
    <3>2. Risk(p) =< ObjectiveUpper(b) /\ Risk(p) \in Int
      BY <3>1, ProblemFacts DEF BoundInv, Mass
    <3>3. ObjectiveUpper(b) =< QueueUpper(queue, best, {})
      BY <2>1, QueueUpperBounds DEF BoundInv, Witnessed
    <3>4. ObjectiveUpper(b) \in Int /\ QueueUpper(queue, best, {}) \in Int
      BY <2>1, <3>1, QueueUpperBounds, ObjectiveIsMass DEF BoundInv, Witnessed, Mass
    <3> QED
      BY <3>2, <3>3, <3>4
  <2> QED
    BY <2>1 DEF BoundInv, FoundInv, ProjectionTrue
<1> QED
  BY <1>1, AlwaysBound, PTL

\* The state derived from a returned call holds for every point the envelope
\* admits: a certified risk is met, an incompatible model has no point, an
\* uncertifiable one none of small latent risk; and a refutation has a point
\* (project_upper_risk, classify_certification).
THEOREM Verdict == Spec => []VerdictIsTrue
<1>1. BoundInv => VerdictIsTrue
  <2> SUFFICES ASSUME BoundInv PROVE VerdictIsTrue
    OBVIOUS
  <2> DEFINE bounds == [compatibility |-> found.compatibility,
                        upper |-> found.projection.upper, intrinsic |-> found.intrinsic]
             State(beta) == Classify(bounds, problem.rho, beta, Guard, TRUE)
  <2>1. /\ bounds.compatibility = found.compatibility /\ bounds.upper = found.projection.upper
        /\ bounds.intrinsic = found.intrinsic
    OBVIOUS
  <2>2. /\ ProjectionTrue(found.projection) /\ CompatibilityTrue(found.compatibility)
        /\ IntrinsicTrue(found.intrinsic)
    BY DEF BoundInv, FoundInv
  <2>3. Guard \in Nat /\ problem \in Problems /\ problem.rho \in Nat
    BY SearchAssumption, ProblemFacts DEF BoundInv
  <2>4. ASSUME NEW beta \in Mass
        PROVE  /\ State(beta) = "CERTIFIED" => bounds.upper =< beta
               /\ State(beta) = "MODEL_INCOMPATIBLE" => bounds.compatibility > problem.rho + Guard
               /\ State(beta) = "INTRINSICALLY_UNCERTIFIABLE" => bounds.intrinsic > beta + Guard
    BY DEF Classify
  <2>5. ASSUME NEW beta \in Mass, State(beta) = "CERTIFIED", NEW p \in FeasiblePoints
        PROVE  Risk(p) =< beta
    <3>1. found.projection.upper =< beta /\ Risk(p) =< found.projection.upper
      BY <2>1, <2>2, <2>4, <2>5 DEF ProjectionTrue
    <3>2. found.projection.upper \in Mass /\ Risk(p) \in Mass
      BY <2>2, <2>3, ProblemFacts DEF ProjectionTrue
    <3> QED
      BY <3>1, <3>2 DEF Mass
  <2>6. ASSUME NEW beta \in Mass, State(beta) = "MODEL_INCOMPATIBLE"
        PROVE  FeasiblePoints = {}
    <3>1. found.compatibility > problem.rho + Guard
      BY <2>1, <2>4, <2>6
    <3>2. \A p \in FeasiblePoints : FALSE
      BY <2>2, <2>3, <3>1 DEF CompatibilityTrue
    <3> QED
      BY <3>2
  <2>7. ASSUME NEW beta \in Mass, State(beta) = "INTRINSICALLY_UNCERTIFIABLE",
               NEW p \in FeasiblePoints
        PROVE  Unit * p["harmful"] > beta * (p["harmful"] + p["correct"])
    <3> DEFINE lower == found.intrinsic
               h == p["harmful"]
               resolved == h + p["correct"]
    <3>1. lower > beta + Guard /\ lower \in Int
      BY <2>1, <2>2, <2>4, <2>7 DEF IntrinsicTrue
    <3>2. beta \in Nat
      BY DEF Mass
    <3>3. lower > beta /\ lower > 0
      BY <2>3, <3>1, <3>2
    <3>4. h > 0 /\ lower * resolved =< Unit * h
      BY <2>2, <3>3 DEF IntrinsicTrue
    <3>5. h \in Nat /\ p["correct"] \in Nat /\ Unit * h \in Int
      BY <2>3, ResolvedIsNat
    <3> HIDE DEF lower, h
    <3>6. resolved \in Nat /\ resolved > 0
      BY <3>4, <3>5
    <3> HIDE DEF resolved
    <3>7. lower * resolved > beta * resolved
      BY <3>1, <3>2, <3>3, <3>6
    <3>8. lower * resolved \in Int /\ beta * resolved \in Int
      BY <3>1, <3>2, <3>6
    <3>9. Unit * h > beta * resolved
      BY <3>4, <3>5, <3>7, <3>8
    <3> QED
      BY <3>9 DEF h, resolved
  <2>8. /\ found.projection.incumbent # None =>
             \E p \in FeasiblePoints : Risk(p) = found.projection.incumbent
        /\ found.projection.reason = "DECISION_REFUTED" =>
             \E p \in FeasiblePoints : Risk(p) > problem.budget
    BY <2>2 DEF ProjectionTrue, Witnessed
  <2>9. \A beta \in Mass :
          CASE State(beta) = "CERTIFIED" -> \A p \in FeasiblePoints : Risk(p) =< beta
            [] State(beta) = "MODEL_INCOMPATIBLE" -> FeasiblePoints = {}
            [] State(beta) = "INTRINSICALLY_UNCERTIFIABLE" ->
                 \A p \in FeasiblePoints :
                   Unit * p["harmful"] > beta * (p["harmful"] + p["correct"])
            [] OTHER -> TRUE
    <3> HIDE DEF State
    <3> QED
      BY <2>5, <2>6, <2>7
  <2> QED
    BY <2>8, <2>9 DEF VerdictIsTrue
<1> QED
  BY <1>1, AlwaysBound, PTL

-----------------------------------------------------------------------------
(* The hidden masses                                                       *)

RootRecord == [status : {"NONE", "EXACT_BOUNDARY", "MINIMUM_SINGLETON", "BISECTION"},
               lower : Int, upper : Int, root : Int, residual : Int]

SolverTypeOK ==
  /\ request \in Request
  /\ stage \in {"idle", "assess", "lower", "upper", "answered", "raised"}
  /\ bracket \in [lower : Int, upper : Int]
  /\ shortcut \in [lower : Int, upper : Int]
  /\ roots \in [lower : RootRecord, upper : RootRecord]

\* The hidden masses of the branch that is being searched
Branch == IF stage = "lower" THEN 0..Bottom ELSE Bottom..Law.unresolved

\* What holds of a search in progress: the signs at the ends of the bracket and
\* at the certified masses.
SearchInv ==
  /\ stage = "assess" => bracket = Nothing /\ shortcut = Nothing
  /\ Searching =>
       /\ HasResolved(Law) /\ Law.unresolved > 0
       /\ bracket # Nothing =>
            /\ bracket.lower \in Branch /\ bracket.upper \in Branch
            /\ bracket.lower =< bracket.upper
            /\ Falling(bracket.lower) >= 0 /\ Falling(bracket.upper) =< 0
       /\ shortcut # Nothing =>
            /\ shortcut.lower \in Branch /\ shortcut.upper \in Branch
            /\ Falling(shortcut.lower) > 0 /\ Falling(shortcut.upper) < 0

Searched(root) == root.status \in {"BISECTION", "EXACT_BOUNDARY"} /\ Law.unresolved > 0

LowerSharp(root) ==
  Searched(root) =>
    /\ \A u \in 0..Bottom : /\ u < root.lower => Residual(u) >= 0
                            /\ u >= root.upper => Residual(u) =< 0
    /\ BracketWidth(root) =< RootAtol

UpperSharp(root) ==
  Searched(root) =>
    /\ \A u \in Bottom..Law.unresolved : /\ u > root.upper => Residual(u) >= 0
                                         /\ u =< root.lower => Residual(u) =< 0
    /\ BracketWidth(root) =< RootAtol

SharpInv == LowerSharp(roots.lower) /\ UpperSharp(roots.upper)

SolverInv == SolverTypeOK /\ SearchInv /\ SharpInv

-----------------------------------------------------------------------------
(* The profile                                                             *)

\* The point of minimum information is one of the hidden masses.
LEMMA BottomInside ==
  ASSUME SolverTypeOK, HasResolved(Law)
  PROVE  /\ Law \in Populations /\ Law.unresolved \in Nat /\ Bottom \in 0..Law.unresolved
         /\ request.rho \in Nat /\ request.rounding \in Int
BY PopulationAssumption, SolverAssumption DEF SolverTypeOK, Request, Law, Bottom

\* A residual is a number.
LEMMA ResidualIsInt ==
  ASSUME SolverTypeOK, HasResolved(Law), NEW u \in 0..Law.unresolved
  PROVE  Residual(u) \in Int
<1>1. Law \in Populations /\ request.rho \in Nat /\ request.rounding \in Int
  BY BottomInside
<1>2. Excess(Law, u) \in Nat /\ Law.floor \in Nat
  BY <1>1, PopulationAssumption, ProfileAssumption
<1>3. QED
  BY <1>1, <1>2 DEF Residual, Information

\* Up to the point of minimum information the residual falls, after it it rises.
LEMMA ResidualShape ==
  ASSUME SolverTypeOK, HasResolved(Law),
         NEW u \in 0..Law.unresolved, NEW v \in 0..Law.unresolved, u =< v
  PROVE  /\ v =< Bottom => Residual(v) =< Residual(u)
         /\ Bottom =< u => Residual(u) =< Residual(v)
<1>1. Law \in Populations /\ request.rho \in Nat /\ request.rounding \in Int /\ Bottom \in Int
  BY BottomInside
<1>2. Excess(Law, u) \in Nat /\ Excess(Law, v) \in Nat /\ Law.floor \in Nat
  BY <1>1, PopulationAssumption, ProfileAssumption
<1>3. v =< Bottom => Excess(Law, v) =< Excess(Law, u)
  BY <1>1, <1>2, ProfileAssumption DEF Bottom
<1>4. Bottom =< u => Excess(Law, u) =< Excess(Law, v)
  BY <1>1, <1>2, ProfileAssumption DEF Bottom
<1>5. QED
  BY <1>1, <1>2, <1>3, <1>4 DEF Residual, Information

\* Times the sign of the branch it falls on either branch.
LEMMA BranchFalls ==
  ASSUME SolverTypeOK, HasResolved(Law), Searching,
         NEW u \in Branch, NEW v \in Branch, u =< v
  PROVE  Falling(u) \in Int /\ Falling(v) \in Int /\ Falling(v) =< Falling(u)
<1>1. Law.unresolved \in Nat /\ Bottom \in 0..Law.unresolved
  BY BottomInside
<1>2. u \in 0..Law.unresolved /\ v \in 0..Law.unresolved
  BY <1>1 DEF Branch
<1>3. Residual(u) \in Int /\ Residual(v) \in Int
  BY <1>2, ResidualIsInt
<1>4. /\ v =< Bottom => Residual(v) =< Residual(u)
      /\ Bottom =< u => Residual(u) =< Residual(v)
  BY <1>2, ResidualShape
<1>5. QED
  BY <1>1, <1>3, <1>4 DEF Falling, Sign, Branch, Searching

-----------------------------------------------------------------------------
(* Types                                                                   *)

\* A boundary root is a record of numbers.
LEMMA ExactRootTyped ==
  ASSUME SolverTypeOK, HasResolved(Law), NEW u \in 0..Law.unresolved,
         NEW status \in {"EXACT_BOUNDARY", "MINIMUM_SINGLETON"}
  PROVE  ExactRoot(u, status) \in RootRecord
<1>1. Residual(u) \in Int
  BY ResidualIsInt
<1>2. u \in Int /\ Magnitude(Residual(u)) \in Int
  BY <1>1, BottomInside DEF Magnitude
<1>3. QED
  BY <1>2 DEF ExactRoot, RootRecord

\* What is found in a branch is kept in its record.
LEMMA FoundTyped ==
  ASSUME SolverTypeOK, Searching, NEW root \in RootRecord, Found(root)
  PROVE  SolverTypeOK'
BY DEF SolverTypeOK, Searching, Found, Answer, Nothing, None, Request

\* The middle of a bracket lies in it.
LEMMA MiddleInside ==
  ASSUME NEW l \in Int, NEW u \in Int, l =< u
  PROVE  (l + u) \div 2 \in Int /\ l =< (l + u) \div 2 /\ (l + u) \div 2 =< u
OBVIOUS

\* Every step keeps the types.
LEMMA TypesKept ==
  ASSUME SolverTypeOK, SearchInv, [Ask \/ Solve]_solverVars
  PROVE  SolverTypeOK'
<1>1. CASE Ask
  BY <1>1 DEF SolverTypeOK, Ask, Nothing, NoRoot, None, RootRecord
<1>2. CASE AssessDegenerate
  BY <1>2 DEF SolverTypeOK, AssessDegenerate, Request
<1>3. CASE Assess
  <2>1. HasResolved(Law)
    BY <1>3 DEF Assess, Regime
  <2>2. Bottom \in 0..Law.unresolved /\ 0 \in 0..Law.unresolved
    BY <2>1, BottomInside
  <2>3. /\ ExactRoot(Bottom, "MINIMUM_SINGLETON") \in RootRecord
        /\ ExactRoot(0, "EXACT_BOUNDARY") \in RootRecord
    BY <2>1, <2>2, ExactRootTyped
  <2>4. QED
    BY <1>3, <2>3 DEF SolverTypeOK, Assess, Answer, Raise, Request
<1>4. CASE BoundaryIsRoot
  <2>1. Searching /\ HasResolved(Law)
    BY <1>4 DEF BoundaryIsRoot, SearchInv
  <2>2. Boundary \in 0..Law.unresolved
    BY <2>1, BottomInside DEF Boundary
  <2>3. ExactRoot(Boundary, "EXACT_BOUNDARY") \in RootRecord
    BY <2>1, <2>2, ExactRootTyped
  <2>4. QED
    BY <1>4, <2>1, <2>3, FoundTyped DEF BoundaryIsRoot
<1>5. CASE OpenBracket
  <2>1. Searching /\ HasResolved(Law)
    BY <1>5 DEF OpenBracket, SearchInv
  <2>2. Law.unresolved \in Int /\ Bottom \in Int
    BY <2>1, BottomInside
  <2> DEFINE b == IF stage = "lower" THEN [lower |-> 0, upper |-> Bottom]
                                     ELSE [lower |-> Bottom, upper |-> Law.unresolved]
  <2>3. b \in [lower : Int, upper : Int]
    BY <2>2
  <2>4. \A s \in Certified(b) : s \in [lower : Int, upper : Int]
    BY <2>3 DEF Certified, Nothing, None
  <2>5. \/ Raise
        \/ /\ bracket' = b /\ shortcut' \in Certified(b)
           /\ UNCHANGED <<request, stage, iterations, roots, answer>>
    BY <1>5 DEF OpenBracket
  <2>6. CASE Raise
    BY <2>6 DEF Raise, SolverTypeOK, Request
  <2>7. QED
    BY <2>3, <2>4, <2>5, <2>6 DEF SolverTypeOK, Request
<1>6. CASE Bisect
  <2> DEFINE m == (bracket.lower + bracket.upper) \div 2
  <2>1. m \in Int /\ bracket \in [lower : Int, upper : Int]
    BY DEF SolverTypeOK
  <2>2. \/ Raise
        \/ /\ bracket' \in {[lower |-> m, upper |-> m], [bracket EXCEPT !.lower = m],
                            [bracket EXCEPT !.upper = m]}
           /\ UNCHANGED <<request, stage, shortcut, roots>>
    BY <1>6 DEF Bisect
  <2>3. QED
    BY <2>1, <2>2 DEF Raise, SolverTypeOK, Request
<1>7. CASE CloseBracket
  <2> DEFINE m == (bracket.lower + bracket.upper) \div 2
             root == [status |-> "BISECTION", lower |-> bracket.lower, upper |-> bracket.upper,
                      root |-> m, residual |-> Magnitude(Residual(m))]
  <2>1. /\ Searching /\ HasResolved(Law) /\ bracket # Nothing
        /\ bracket.lower \in Branch /\ bracket.upper \in Branch /\ bracket.lower =< bracket.upper
    BY <1>7 DEF CloseBracket, SearchInv
  <2>2. /\ bracket.lower \in 0..Law.unresolved /\ bracket.upper \in 0..Law.unresolved
        /\ Law.unresolved \in Int
    BY <2>1, BottomInside DEF Branch
  <2>3. m \in 0..Law.unresolved
    BY <2>1, <2>2, MiddleInside
  <2>4. Magnitude(Residual(m)) \in Int
    BY <2>1, <2>3, ResidualIsInt DEF Magnitude
  <2>5. root \in RootRecord
    BY <2>2, <2>3, <2>4 DEF RootRecord
  <2>6. Raise \/ Found(root)
    BY <1>7 DEF CloseBracket
  <2>7. QED
    BY <2>1, <2>5, <2>6, FoundTyped DEF Raise, SolverTypeOK, Request
<1>8. CASE UNCHANGED solverVars
  BY <1>8 DEF solverVars, SolverTypeOK, Request
<1>9. QED
  BY <1>1, <1>2, <1>3, <1>4, <1>5, <1>6, <1>7, <1>8 DEF Solve

-----------------------------------------------------------------------------
(* Signs                                                                   *)

\* A search that is left alone keeps what holds of it.
LEMMA SearchUnmoved ==
  ASSUME SearchInv, UNCHANGED <<request, stage, bracket, shortcut>>
  PROVE  SearchInv'
BY DEF SearchInv, Searching, Branch, Falling, Sign, Residual, Law, Bottom

\* A branch begins without a bracket.
LEMMA SearchFresh ==
  ASSUME Searching', HasResolved(Law)', (Law.unresolved > 0)',
         bracket' = Nothing, shortcut' = Nothing
  PROVE  SearchInv'
BY DEF SearchInv, Searching

\* Outside the two searches there is nothing to keep.
LEMMA SearchOver ==
  ASSUME ~Searching', stage' # "assess"
  PROVE  SearchInv'
BY DEF SearchInv

\* A root that is found ends the search of its branch.
LEMMA SearchFound ==
  ASSUME SearchInv, Searching, NEW root, Found(root)
  PROVE  SearchInv'
<1>1. CASE stage = "lower"
  <2>1. /\ stage' = "upper" /\ bracket' = Nothing /\ shortcut' = Nothing
        /\ UNCHANGED request
    BY <1>1 DEF Found
  <2>2. HasResolved(Law)' /\ (Law.unresolved > 0)' /\ Searching'
    BY <2>1 DEF SearchInv, Law, Searching
  <2>3. QED
    BY <2>1, <2>2, SearchFresh
<1>2. CASE stage # "lower"
  <2>1. stage' = "answered"
    BY <1>2 DEF Found, Answer
  <2>2. QED
    BY <2>1, SearchOver DEF Searching
<1>3. QED
  BY <1>1, <1>2

\* A midpoint that is not evaluated has the sign it is given.
LEMMA ShortcutIsRight ==
  ASSUME SolverTypeOK, SearchInv, Searching, NEW m \in Branch
  PROVE  /\ BracketedFalling(m) = 0 => Falling(m) = 0
         /\ BracketedFalling(m) > 0 => Falling(m) > 0
         /\ BracketedFalling(m) < 0 => Falling(m) < 0
<1>1. HasResolved(Law)
  BY DEF SearchInv
<1>2. CASE shortcut # Nothing /\ m =< shortcut.lower
  <2>1. shortcut.lower \in Branch /\ Falling(shortcut.lower) > 0
    BY <1>2 DEF SearchInv
  <2>2. Falling(m) \in Int /\ Falling(shortcut.lower) =< Falling(m) /\ Falling(shortcut.lower) \in Int
    BY <1>1, <1>2, <2>1, BranchFalls
  <2>3. QED
    BY <1>2, <2>1, <2>2 DEF BracketedFalling
<1>3. CASE shortcut # Nothing /\ ~ m =< shortcut.lower /\ m >= shortcut.upper
  <2>1. shortcut.upper \in Branch /\ Falling(shortcut.upper) < 0
    BY <1>3 DEF SearchInv
  <2>2. m \in Int /\ shortcut.upper \in Int
    BY <1>1, <2>1, BottomInside DEF Branch
  <2>3. Falling(m) \in Int /\ Falling(m) =< Falling(shortcut.upper) /\ Falling(shortcut.upper) \in Int
    BY <1>1, <1>3, <2>1, <2>2, BranchFalls
  <2>4. QED
    BY <1>3, <2>1, <2>3 DEF BracketedFalling
<1>4. QED
  BY <1>2, <1>3 DEF BracketedFalling

\* Every step keeps the signs at the ends of the bracket.
LEMMA SearchKept ==
  ASSUME SolverTypeOK, SearchInv, [Ask \/ Solve]_solverVars
  PROVE  SearchInv'
<1>1. CASE Ask
  BY <1>1 DEF Ask, SearchInv, Searching
<1>2. CASE AssessDegenerate
  BY <1>2, SearchOver DEF AssessDegenerate, Searching
<1>3. CASE Assess
  <2>1. HasResolved(Law)
    BY <1>3 DEF Assess, Regime
  <2>2. CASE stage' = "lower"
    <3>1. /\ Regime(Law, request.rho) # "NO_UNRESOLVED_MASS"
          /\ UNCHANGED <<request, bracket, shortcut>>
      BY <1>3, <2>2 DEF Assess, Answer, Raise
    <3>2. Law.unresolved > 0
      BY <2>1, <3>1, <1>3, BottomInside DEF Assess, Regime
    <3>3. bracket = Nothing /\ shortcut = Nothing
      BY <1>3 DEF Assess, SearchInv
    <3>4. HasResolved(Law)' /\ (Law.unresolved > 0)' /\ Searching'
      BY <2>1, <2>2, <3>1, <3>2 DEF Law, Searching
    <3>5. QED
      BY <3>1, <3>3, <3>4, SearchFresh
  <2>3. CASE stage' # "lower"
    <3>1. stage' \in {"answered", "raised"}
      BY <1>3, <2>3 DEF Assess, Answer, Raise
    <3>2. QED
      BY <3>1, SearchOver DEF Searching
  <2>4. QED
    BY <2>2, <2>3
<1>4. CASE BoundaryIsRoot
  BY <1>4, SearchFound DEF BoundaryIsRoot
<1>5. CASE OpenBracket
  <2> DEFINE b == IF stage = "lower" THEN [lower |-> 0, upper |-> Bottom]
                                     ELSE [lower |-> Bottom, upper |-> Law.unresolved]
  <2>1. Searching /\ HasResolved(Law) /\ Law.unresolved > 0
    BY <1>5 DEF OpenBracket, SearchInv
  <2>2. Law.unresolved \in Nat /\ Bottom \in 0..Law.unresolved
    BY <2>1, BottomInside
  <2>3. CASE Raise
    BY <2>3, SearchOver DEF Raise, Searching
  <2>4. CASE ~Raise
    <3>1. /\ bracket' = b /\ shortcut' \in Certified(b)
          /\ UNCHANGED <<request, stage>>
          /\ Residual(Boundary) > 0 /\ ~(Residual(Bottom) >= 0)
      BY <1>5, <2>4 DEF OpenBracket
    <3>2. Residual(Bottom) \in Int /\ Residual(Boundary) \in Int
      BY <2>1, <2>2, ResidualIsInt DEF Boundary
    <3>3. b.lower \in Branch /\ b.upper \in Branch /\ b.lower =< b.upper
      BY <2>2 DEF Branch
    <3>4. Falling(b.lower) > 0 /\ Falling(b.upper) < 0
      BY <2>1, <3>1, <3>2 DEF Falling, Sign, Boundary, Searching
    <3>5. shortcut' # Nothing =>
            /\ shortcut'.lower \in Branch /\ shortcut'.upper \in Branch
            /\ Falling(shortcut'.lower) > 0 /\ Falling(shortcut'.upper) < 0
      <4>1. SUFFICES ASSUME NEW s \in Certified(b), s # Nothing
                     PROVE  /\ s.lower \in Branch /\ s.upper \in Branch
                            /\ Falling(s.lower) > 0 /\ Falling(s.upper) < 0
        BY <3>1
      <4>2. /\ s.lower \in b.lower..b.upper /\ s.upper \in b.lower..b.upper
            /\ Falling(s.lower) > 0 /\ Falling(s.upper) < 0
        BY <4>1 DEF Certified
      <4>3. s.lower \in Branch /\ s.upper \in Branch
        BY <2>2, <4>2 DEF Branch
      <4>4. QED
        BY <4>2, <4>3
    <3>6. /\ bracket'.lower \in Branch /\ bracket'.upper \in Branch
          /\ bracket'.lower =< bracket'.upper
          /\ Falling(bracket'.lower) > 0 /\ Falling(bracket'.upper) < 0
      BY <3>1, <3>3, <3>4
    <3>7. Falling(bracket'.lower) \in Int /\ Falling(bracket'.upper) \in Int
      BY <2>1, <2>2, <3>6, BranchFalls DEF Branch
    <3>8. Falling(bracket'.lower) >= 0 /\ Falling(bracket'.upper) =< 0
      BY <3>6, <3>7
    <3>9. QED
      BY <2>1, <3>1, <3>5, <3>6, <3>8
         DEF SearchInv, Searching, Branch, Falling, Sign, Residual, Law, Bottom
  <2>5. QED
    BY <2>3, <2>4
<1>6. CASE Bisect
  <2> DEFINE m == (bracket.lower + bracket.upper) \div 2
  <2>1. /\ Searching /\ HasResolved(Law) /\ Law.unresolved > 0 /\ bracket # Nothing
        /\ bracket.lower \in Branch /\ bracket.upper \in Branch /\ bracket.lower =< bracket.upper
        /\ Falling(bracket.lower) >= 0 /\ Falling(bracket.upper) =< 0
    BY <1>6 DEF Bisect, SearchInv
  <2>2. bracket \in [lower : Int, upper : Int]
    BY DEF SolverTypeOK
  <2>3. m \in Int /\ bracket.lower =< m /\ m =< bracket.upper
    BY <2>1, <2>2, MiddleInside
  <2>4. m \in Branch
    BY <2>1, <2>2, <2>3, BottomInside DEF Branch
  <2>5. Falling(m) \in Int
    BY <2>1, <2>3, <2>4, BranchFalls
  <2>6. CASE Raise
    BY <2>6, SearchOver DEF Raise, Searching
  <2>7. CASE ~Raise
    <3>1. /\ UNCHANGED <<request, stage, shortcut>>
          /\ bracket' = IF BracketedFalling(m) = 0 THEN [lower |-> m, upper |-> m]
                        ELSE IF BracketedFalling(m) > 0 THEN [bracket EXCEPT !.lower = m]
                        ELSE [bracket EXCEPT !.upper = m]
      BY <1>6, <2>7 DEF Bisect
    <3>2. BracketedFalling(m) \in Int
      BY <2>5 DEF BracketedFalling
    <3>3. /\ bracket'.lower \in Branch /\ bracket'.upper \in Branch
          /\ bracket'.lower =< bracket'.upper
          /\ Falling(bracket'.lower) >= 0 /\ Falling(bracket'.upper) =< 0
      <4>1. CASE BracketedFalling(m) = 0
        <5>1. Falling(m) = 0
          BY <4>1, <2>1, <2>4, ShortcutIsRight
        <5>2. QED
          BY <3>1, <4>1, <5>1, <2>3, <2>4
      <4>2. CASE BracketedFalling(m) > 0
        <5>1. Falling(m) > 0
          BY <4>2, <2>1, <2>4, ShortcutIsRight
        <5>2. bracket'.lower = m /\ bracket'.upper = bracket.upper
          BY <3>1, <4>2, <2>2
        <5>3. QED
          BY <5>1, <5>2, <2>1, <2>3, <2>4, <2>5
      <4>3. CASE BracketedFalling(m) < 0
        <5>1. Falling(m) < 0
          BY <4>3, <2>1, <2>4, ShortcutIsRight
        <5>2. bracket'.lower = bracket.lower /\ bracket'.upper = m
          BY <3>1, <3>2, <4>3, <2>2
        <5>3. QED
          BY <5>1, <5>2, <2>1, <2>3, <2>4, <2>5
      <4>4. QED
        BY <3>2, <4>1, <4>2, <4>3
    <3>4. QED
      BY <2>1, <3>1, <3>3
         DEF SearchInv, Searching, Branch, Falling, Sign, Residual, Law, Bottom
  <2>8. QED
    BY <2>6, <2>7
<1>7. CASE CloseBracket
  <2>1. CASE Raise
    BY <2>1, SearchOver DEF Raise, Searching
  <2>2. CASE ~Raise
    BY <1>7, <2>2, SearchFound DEF CloseBracket
  <2>3. QED
    BY <2>1, <2>2
<1>8. CASE UNCHANGED solverVars
  BY <1>8, SearchUnmoved DEF solverVars
<1>9. QED
  BY <1>1, <1>2, <1>3, <1>4, <1>5, <1>6, <1>7, <1>8 DEF Solve

-----------------------------------------------------------------------------
(* The roots                                                               *)

BranchSharp(root) == IF stage = "lower" THEN LowerSharp(root) ELSE UpperSharp(root)

\* Roots that are left alone stay sharp.
LEMMA SharpUnmoved ==
  ASSUME SharpInv, UNCHANGED <<request, roots>>
  PROVE  SharpInv'
BY DEF SharpInv, LowerSharp, UpperSharp, Searched, Residual, Law, Bottom, BracketWidth

\* Nothing is claimed of a branch that has not been searched.
LEMMA SharpUnsearched ==
  ASSUME ~Searched(roots.lower)', ~Searched(roots.upper)'
  PROVE  SharpInv'
BY DEF SharpInv, LowerSharp, UpperSharp, Searched

\* A sharp root that is found leaves both roots sharp.
LEMMA SharpFound ==
  ASSUME SolverTypeOK, SharpInv, Searching, NEW root \in RootRecord, Found(root), BranchSharp(root)
  PROVE  SharpInv'
<1>1. CASE stage = "lower"
  <2>1. UNCHANGED request /\ roots'.lower = root /\ roots'.upper = roots.upper
    BY <1>1 DEF Found, SolverTypeOK
  <2>2. LowerSharp(root) /\ UpperSharp(roots.upper)
    BY <1>1 DEF BranchSharp, SharpInv
  <2>3. QED
    BY <2>1, <2>2
       DEF SharpInv, LowerSharp, UpperSharp, Searched, Residual, Law, Bottom, BracketWidth
<1>2. CASE stage # "lower"
  <2>1. UNCHANGED request /\ roots'.lower = roots.lower /\ roots'.upper = root
    BY <1>2 DEF Found, Answer, SolverTypeOK
  <2>2. LowerSharp(roots.lower) /\ UpperSharp(root)
    BY <1>2 DEF BranchSharp, SharpInv
  <2>3. QED
    BY <2>1, <2>2
       DEF SharpInv, LowerSharp, UpperSharp, Searched, Residual, Law, Bottom, BracketWidth
<1>3. QED
  BY <1>1, <1>2

\* A boundary within the budget is the whole of its branch within it.
LEMMA BoundarySharp ==
  ASSUME SolverTypeOK, SearchInv, BoundaryIsRoot
  PROVE  BranchSharp(ExactRoot(Boundary, "EXACT_BOUNDARY"))
<1> DEFINE root == ExactRoot(Boundary, "EXACT_BOUNDARY")
<1>1. Searching /\ HasResolved(Law) /\ Residual(Boundary) =< 0
  BY DEF BoundaryIsRoot, SearchInv
<1>2. Law.unresolved \in Nat /\ Bottom \in 0..Law.unresolved
  BY <1>1, BottomInside
<1>3. root.lower = Boundary /\ root.upper = Boundary /\ Boundary \in 0..Law.unresolved
  BY <1>2 DEF ExactRoot, Boundary
<1>4. BracketWidth(root) =< RootAtol
  BY <1>3, SolverAssumption DEF BracketWidth
<1>5. CASE stage = "lower"
  <2>1. ASSUME NEW u \in 0..Bottom PROVE ~(u < root.lower) /\ Residual(u) =< 0
    <3>1. u \in 0..Law.unresolved /\ Boundary = 0 /\ Boundary =< u /\ u =< Bottom
      BY <1>2, <1>5 DEF Boundary
    <3>2. Residual(u) =< Residual(Boundary) /\ Residual(u) \in Int /\ Residual(Boundary) \in Int
      BY <1>1, <1>3, <3>1, ResidualShape, ResidualIsInt
    <3>3. QED
      BY <1>1, <1>3, <3>1, <3>2
  <2>2. QED
    BY <1>4, <1>5, <2>1 DEF BranchSharp, LowerSharp
<1>6. CASE stage # "lower"
  <2>1. ASSUME NEW u \in Bottom..Law.unresolved PROVE ~(u > root.upper) /\ Residual(u) =< 0
    <3>1. u \in 0..Law.unresolved /\ Boundary = Law.unresolved /\ u =< Boundary /\ Bottom =< u
      BY <1>2, <1>6 DEF Boundary
    <3>2. Residual(u) =< Residual(Boundary) /\ Residual(u) \in Int /\ Residual(Boundary) \in Int
      BY <1>1, <1>3, <3>1, ResidualShape, ResidualIsInt
    <3>3. QED
      BY <1>1, <1>2, <1>3, <3>1, <3>2
  <2>2. QED
    BY <1>4, <1>6, <2>1 DEF BranchSharp, UpperSharp
<1>7. QED
  BY <1>5, <1>6

\* A bracket with the signs of SearchInv, once it is narrow enough, is sharp.
LEMMA BracketSharp ==
  ASSUME SolverTypeOK, SearchInv, Searching, bracket # Nothing,
         BracketWidth(bracket) =< RootAtol,
         NEW root \in RootRecord, root.lower = bracket.lower, root.upper = bracket.upper
  PROVE  BranchSharp(root)
<1>1. /\ HasResolved(Law)
      /\ bracket.lower \in Branch /\ bracket.upper \in Branch
      /\ Falling(bracket.lower) >= 0 /\ Falling(bracket.upper) =< 0
  BY DEF SearchInv
<1>2. Law.unresolved \in Nat /\ Bottom \in 0..Law.unresolved
  BY <1>1, BottomInside
<1>3. ASSUME NEW u \in Branch
      PROVE  /\ Falling(u) \in Int
             /\ u =< bracket.lower => Falling(u) >= 0
             /\ u >= bracket.upper => Falling(u) =< 0
  <2>1. u \in Int /\ bracket.lower \in Int /\ bracket.upper \in Int
    BY <1>1, <1>2 DEF Branch
  <2>2. u =< bracket.lower => Falling(bracket.lower) =< Falling(u)
    BY <1>1, <2>1, BranchFalls
  <2>3. u >= bracket.upper => Falling(u) =< Falling(bracket.upper)
    BY <1>1, <2>1, BranchFalls
  <2>4. Falling(u) \in Int /\ Falling(bracket.lower) \in Int /\ Falling(bracket.upper) \in Int
    BY <1>1, <2>1, BranchFalls
  <2>5. QED
    BY <1>1, <2>2, <2>3, <2>4
<1>4. ASSUME NEW u \in Branch PROVE u \in Int /\ Residual(u) \in Int
  BY <1>1, <1>2, ResidualIsInt DEF Branch
<1>5. BracketWidth(root) =< RootAtol
  BY DEF BracketWidth
<1>6. bracket.lower \in Int /\ bracket.upper \in Int
  BY DEF SolverTypeOK
<1>7. CASE stage = "lower"
  <2>1. ASSUME NEW u \in 0..Bottom
        PROVE  /\ u < root.lower => Residual(u) >= 0
               /\ u >= root.upper => Residual(u) =< 0
    <3>1. u \in Branch
      BY <1>7 DEF Branch
    <3>2. Falling(u) = Residual(u)
      BY <1>4, <1>7, <3>1 DEF Falling, Sign
    <3>3. QED
      BY <1>3, <1>4, <1>6, <3>1, <3>2
  <2>2. QED
    BY <1>5, <1>7, <2>1 DEF BranchSharp, LowerSharp
<1>8. CASE stage # "lower"
  <2>1. ASSUME NEW u \in Bottom..Law.unresolved
        PROVE  /\ u > root.upper => Residual(u) >= 0
               /\ u =< root.lower => Residual(u) =< 0
    <3>1. u \in Branch
      BY <1>8 DEF Branch
    <3>2. Falling(u) = -Residual(u)
      BY <1>4, <1>8, <3>1 DEF Falling, Sign
    <3>3. QED
      BY <1>3, <1>4, <1>6, <3>1, <3>2
  <2>2. QED
    BY <1>5, <1>8, <2>1 DEF BranchSharp, UpperSharp
<1>9. QED
  BY <1>7, <1>8

\* Every step keeps the roots sharp.
LEMMA SharpKept ==
  ASSUME SolverTypeOK, SearchInv, SharpInv, [Ask \/ Solve]_solverVars
  PROVE  SharpInv'
<1>1. CASE Ask
  <2>1. roots' = [lower |-> NoRoot, upper |-> NoRoot]
    BY <1>1 DEF Ask
  <2>2. QED
    BY <2>1, SharpUnsearched DEF Searched, NoRoot
<1>2. CASE AssessDegenerate
  BY <1>2, SharpUnmoved DEF AssessDegenerate
<1>3. CASE Assess
  <2>1. CASE Regime(Law, request.rho) = "NO_UNRESOLVED_MASS"
    <3>1. HasResolved(Law) /\ Law.unresolved = 0 /\ UNCHANGED request
      BY <1>3, <2>1 DEF Assess, Answer, Regime
    <3>2. QED
      BY <3>1, SharpUnsearched DEF Searched, Law
  <2>2. CASE Regime(Law, request.rho) # "NO_UNRESOLVED_MASS"
    <3>1. \/ UNCHANGED <<request, roots>>
          \/ /\ roots'.lower.status = "MINIMUM_SINGLETON"
             /\ roots'.upper.status = "MINIMUM_SINGLETON"
      BY <1>3, <2>2 DEF Assess, Answer, Raise, ExactRoot
    <3>2. QED
      BY <3>1, SharpUnmoved, SharpUnsearched DEF Searched
  <2>3. QED
    BY <2>1, <2>2
<1>4. CASE BoundaryIsRoot
  <2>1. Searching /\ HasResolved(Law) /\ Found(ExactRoot(Boundary, "EXACT_BOUNDARY"))
    BY <1>4 DEF BoundaryIsRoot, SearchInv
  <2>2. ExactRoot(Boundary, "EXACT_BOUNDARY") \in RootRecord
    BY <2>1, BottomInside, ExactRootTyped DEF Boundary
  <2>3. QED
    BY <1>4, <2>1, <2>2, BoundarySharp, SharpFound
<1>5. CASE OpenBracket
  BY <1>5, SharpUnmoved DEF OpenBracket, Raise
<1>6. CASE Bisect
  BY <1>6, SharpUnmoved DEF Bisect, Raise
<1>7. CASE CloseBracket
  <2> DEFINE m == (bracket.lower + bracket.upper) \div 2
             root == [status |-> "BISECTION", lower |-> bracket.lower, upper |-> bracket.upper,
                      root |-> m, residual |-> Magnitude(Residual(m))]
  <2>1. /\ Searching /\ bracket # Nothing /\ BracketWidth(bracket) =< RootAtol
        /\ HasResolved(Law)
    BY <1>7 DEF CloseBracket, SearchInv
  <2>2. Raise \/ Found(root)
    BY <1>7 DEF CloseBracket
  <2>3. root \in RootRecord
    <3>1. /\ bracket.lower \in Int /\ bracket.upper \in Int /\ bracket.lower =< bracket.upper
          /\ bracket.lower \in 0..Law.unresolved /\ bracket.upper \in 0..Law.unresolved
          /\ Law.unresolved \in Nat
      BY <2>1, BottomInside DEF SearchInv, Branch
    <3>2. m \in 0..Law.unresolved
      BY <3>1, MiddleInside
    <3>3. Magnitude(Residual(m)) \in Int /\ m \in Int
      BY <2>1, <3>2, ResidualIsInt DEF Magnitude
    <3>4. QED
      BY <3>1, <3>3 DEF RootRecord
  <2>4. BranchSharp(root)
    BY <2>1, <2>3, BracketSharp
  <2>5. QED
    BY <2>1, <2>2, <2>3, <2>4, SharpUnmoved, SharpFound DEF Raise
<1>8. CASE UNCHANGED solverVars
  BY <1>8, SharpUnmoved DEF solverVars
<1>9. QED
  BY <1>1, <1>2, <1>3, <1>4, <1>5, <1>6, <1>7, <1>8 DEF Solve

-----------------------------------------------------------------------------
\* The three parts of the invariant are inductive together.
LEMMA SolverInvariant == SolverSpec => []SolverInv
<1>1. SolverInit => SolverInv
  BY DEF SolverInit, SolverInv, SolverTypeOK, SearchInv, SharpInv, Searching, LowerSharp,
         UpperSharp, Searched, NoRoot, Nothing, None, RootRecord
<1>2. SolverInv /\ [Ask \/ Solve]_solverVars => SolverInv'
  BY TypesKept, SearchKept, SharpKept DEF SolverInv
<1>3. QED
  BY <1>1, <1>2, PTL DEF SolverSpec

\* However the bisection is cut short, the two root brackets the solver returns
\* are sharp, for every profile of the right shape and every rounding.
THEOREM SharpRoots == SolverSpec => []RootsAreSharp
<1>1. SolverInv => RootsAreSharp
  BY DEF SolverInv, SharpInv, LowerSharp, UpperSharp, Searched, RootsAreSharp
<1>2. QED
  BY <1>1, SolverInvariant, PTL
-----------------------------------------------------------------------------
(* The iterations                                                          *)

\* Induction over a set: what holds of a number when of all before it.
LEMMA CountUp ==
  ASSUME NEW total \in Nat, NEW S,
         \A n \in 0..total : (\A k \in 0..total : k < n => k \in S) => n \in S
  PROVE  0..total \subseteq S
<1> DEFINE bad == (0..total) \ S
<1>1. SUFFICES ASSUME bad # {} PROVE FALSE
  OBVIOUS
<1>2. PICK n \in bad : \A k \in bad : n =< k
  <2>1. bad \subseteq Nat
    OBVIOUS
  <2> HIDE DEF bad
  <2>2. QED
    BY <1>1, <2>1, Minimum
<1>3. ASSUME NEW k \in 0..total, k < n PROVE k \in S
  BY <1>2, <1>3
<1>4. QED
  BY <1>2, <1>3

\* One halving of a bracket leaves a smaller one.
LEMMA HalfIsLess ==
  ASSUME NEW w \in Nat, ~(w =< RootAtol)
  PROVE  (w + 1) \div 2 \in Nat /\ (w + 1) \div 2 < w
<1>1. RootAtol \in Nat \ {0}
  BY SolverAssumption
<1>2. w >= 2
  BY <1>1
<1>3. QED
  BY <1>2

\* The recursion of Halvings is well-founded, so that its equation holds.
LEMMA HalvingsEquation ==
  ASSUME NEW width \in Nat
  PROVE  \A w \in 0..width :
           Halvings(width)[w] = IF w =< RootAtol THEN 0
                                ELSE 1 + Halvings(width)[(w + 1) \div 2]
<1> DEFINE one(f, w) == IF w =< RootAtol THEN 0 ELSE 1 + f[(w + 1) \div 2]
           fits(f, n) == f = [w \in 0..n |-> one(f, w)]
           built == {n \in 0..width : \E f : fits(f, n)}
<1>1. ASSUME NEW n \in 0..width, \A k \in 0..width : k < n => k \in built
      PROVE  \E f : fits(f, n)
  <2>1. CASE n = 0
    <3>1. \A w \in 0..0 : w =< RootAtol
      BY SolverAssumption
    <3>2. fits([w \in 0..0 |-> 0], 0)
      BY <3>1
    <3> HIDE DEF fits
    <3>3. QED
      BY <2>1, <3>2
  <2>2. CASE n # 0
    <3>1. n - 1 \in 0..width /\ n - 1 < n
      BY <2>2
    <3>2. PICK g : fits(g, n - 1)
      <4> HIDE DEF fits
      <4>1. QED
        BY <1>1, <3>1
    <3> DEFINE f == [w \in 0..n |-> IF w = n THEN one(g, n) ELSE g[w]]
    <3>3. \A w \in 0..(n - 1) : f[w] = g[w] /\ g[w] = one(g, w)
      <4>1. \A w \in 0..(n - 1) : g[w] = one(g, w)
        <5> HIDE DEF one
        <5>1. QED
          BY <3>2
      <4> HIDE DEF one
      <4>2. QED
        BY <4>1
    <3>4. f[n] = one(g, n)
      <4> HIDE DEF one
      <4>1. QED
        OBVIOUS
    <3>5. f = [w \in 0..n |-> f[w]]
      OBVIOUS
    <3> HIDE DEF f
    <3>6. \A w \in 0..n : f[w] = one(f, w)
      <4>1. TAKE w \in 0..n
      <4>2. f[w] = one(g, w)
        <5> HIDE DEF one
        <5>1. QED
          BY <3>3, <3>4
      <4>3. ~(w =< RootAtol) => (w + 1) \div 2 \in 0..(n - 1)
        BY HalfIsLess
      <4>4. one(f, w) = one(g, w)
        BY <3>3, <4>3
      <4>5. QED
        BY <4>2, <4>4
    <3>7. fits(f, n)
      <4> HIDE DEF one
      <4>1. QED
        BY <3>5, <3>6
    <3> HIDE DEF fits
    <3>8. QED
      BY <3>7
  <2>3. QED
    BY <2>1, <2>2
<1>2. \E f : fits(f, width)
  <2> HIDE DEF fits
  <2>1. \A n \in 0..width : (\A k \in 0..width : k < n => k \in built) => n \in built
    BY <1>1
  <2> HIDE DEF built
  <2>2. width \in built
    BY <2>1, CountUp
  <2>3. QED
    BY <2>2 DEF built
<1>3. Halvings(width) = CHOOSE f : fits(f, width)
  BY DEF Halvings
<1>4. fits(Halvings(width), width)
  BY <1>2, <1>3
<1>5. QED
  BY <1>4

\* A smaller bracket takes no more halvings.
LEMMA HalvingsGrow ==
  ASSUME NEW width \in Nat
  PROVE  \A v \in 0..width : \A w \in 0..v :
           /\ Halvings(width)[w] \in Nat /\ Halvings(width)[v] \in Nat
           /\ Halvings(width)[w] =< Halvings(width)[v]
<1> DEFINE H == Halvings(width)
           good == {v \in 0..width :
                      \A w \in 0..v : H[w] \in Nat /\ H[v] \in Nat /\ H[w] =< H[v]}
<1>1. \A w \in 0..width : H[w] = IF w =< RootAtol THEN 0 ELSE 1 + H[(w + 1) \div 2]
  BY HalvingsEquation
<1> HIDE DEF H
<1>2. ASSUME NEW v \in 0..width, \A k \in 0..width : k < v => k \in good
      PROVE  v \in good
  <2>1. SUFFICES ASSUME NEW w \in 0..v
                 PROVE  H[w] \in Nat /\ H[v] \in Nat /\ H[w] =< H[v]
    OBVIOUS
  <2>2. RootAtol \in Nat /\ w \in 0..width
    BY SolverAssumption
  <2>3. CASE v =< RootAtol
    <3>1. w =< RootAtol
      BY <2>2, <2>3
    <3>2. QED
      BY <1>1, <2>2, <2>3, <3>1
  <2>4. CASE ~(v =< RootAtol)
    <3> DEFINE x == (v + 1) \div 2
               y == (w + 1) \div 2
    <3>1. x \in 0..width /\ x < v
      BY <2>4, HalfIsLess
    <3>2. y \in 0..x
      OBVIOUS
    <3> HIDE DEF x, y
    <3>3. H[y] \in Nat /\ H[x] \in Nat /\ H[y] =< H[x]
      BY <1>2, <3>1, <3>2
    <3>4. H[v] = 1 + H[x]
      BY <1>1, <2>4 DEF x
    <3>5. H[w] = 0 \/ H[w] = 1 + H[y]
      BY <1>1, <2>2 DEF y
    <3>6. QED
      BY <3>3, <3>4, <3>5
  <2>5. QED
    BY <2>3, <2>4
<1> HIDE DEF good
<1>3. 0..width \subseteq good
  BY <1>2, CountUp
<1>4. QED
  BY <1>3 DEF good, H

\* What is left of a bracket after a midpoint takes one halving less.
LEMMA HalvingLeft ==
  ASSUME NEW width \in Nat, NEW w \in 0..width, ~(w =< RootAtol),
         NEW v \in 0..width, v =< (w + 1) \div 2
  PROVE  /\ Halvings(width)[w] \in Nat /\ Halvings(width)[v] \in Nat
         /\ Halvings(width)[width] \in Nat
         /\ Halvings(width)[v] + 1 =< Halvings(width)[w]
<1> DEFINE x == (w + 1) \div 2
<1>1. x \in 0..width /\ v \in 0..x
  BY HalfIsLess
<1>2. Halvings(width)[w] = 1 + Halvings(width)[x]
  BY HalvingsEquation
<1> HIDE DEF x
<1>3. QED
  BY <1>1, <1>2, HalvingsGrow
-----------------------------------------------------------------------------
(* No error                                                                *)

\* A branch that is searched has a crossing, and the midpoints so far and the
\* halvings its bracket still needs are no more than its first width needed.
EffortInv ==
  /\ stage # "raised"
  /\ stage = "assess" => iterations = 0
  /\ Searching =>
       /\ Residual(Bottom) < 0
       /\ bracket = Nothing => iterations = 0
       /\ bracket # Nothing =>
            /\ iterations \in Nat
            /\ BracketWidth(bracket) \in 0..InitialWidth
            /\ iterations + Halvings(InitialWidth)[BracketWidth(bracket)]
                 =< Halvings(InitialWidth)[InitialWidth]

\* Where the budget is not below the floor, the point of minimum information is
\* within identity_atol of it or below it; on the floor, within identity_atol.
LEMMA BottomResidual ==
  ASSUME SolverTypeOK, HasResolved(Law), request.rho >= Law.floor
  PROVE  /\ Residual(Bottom) \in Int /\ Residual(Bottom) =< IdentityInformation
         /\ request.rho = Law.floor => Magnitude(Residual(Bottom)) =< IdentityInformation
<1>1. /\ Law \in Populations /\ request.rho \in Nat /\ request.rounding \in Int
      /\ Bottom \in 0..Law.unresolved /\ Law.floor \in Nat
  BY BottomInside, PopulationAssumption
<1>2. -IdentityInformation =< request.rounding /\ request.rounding =< IdentityInformation
  BY ResidualAssumption DEF SolverTypeOK, Request
<1>3. Information(Law, Bottom) = Law.floor
  <2>1. Excess(Law, Bottom) = 0
    BY <1>1, ProfileAssumption DEF Bottom
  <2>2. QED
    BY <1>1, <2>1 DEF Information
<1>4. IdentityInformation \in Nat
  BY SolverAssumption
<1>5. QED
  BY <1>1, <1>2, <1>3, <1>4 DEF Residual, Magnitude

\* Between a place with a residual of one sign and a near place with one of the
\* other, the residual is within identity_atol.
LEMMA CrossingIsNear ==
  ASSUME SolverTypeOK, HasResolved(Law),
         NEW u \in 0..Law.unresolved, NEW v \in 0..Law.unresolved, u =< v,
         v - u =< (RootAtol + 1) \div 2,
         \/ Residual(u) >= 0 /\ Residual(v) =< 0
         \/ Residual(u) =< 0 /\ Residual(v) >= 0
  PROVE  /\ Magnitude(Residual(u)) =< IdentityInformation
         /\ Magnitude(Residual(v)) =< IdentityInformation
<1>1. Law \in Populations /\ request.rho \in Nat /\ request.rounding \in Int /\ Law.floor \in Nat
  BY BottomInside, PopulationAssumption
<1>2. Excess(Law, u) \in Nat /\ Excess(Law, v) \in Nat
  BY <1>1, ProfileAssumption
<1>3. /\ Excess(Law, u) - Excess(Law, v) =< IdentityInformation
      /\ Excess(Law, v) - Excess(Law, u) =< IdentityInformation
  BY <1>1, ResidualAssumption
<1>4. IdentityInformation \in Nat
  BY SolverAssumption
<1>5. /\ Residual(u) \in Int /\ Residual(v) \in Int
      /\ Residual(u) - Residual(v) =< IdentityInformation
      /\ Residual(v) - Residual(u) =< IdentityInformation
  BY <1>1, <1>2, <1>3, <1>4 DEF Residual, Information
<1>6. QED
  BY <1>4, <1>5 DEF Magnitude

\* The middle of a narrow bracket with the signs of SearchInv is no error.
LEMMA CloseIsAccepted ==
  ASSUME SolverTypeOK, SearchInv, Searching, bracket # Nothing,
         BracketWidth(bracket) =< RootAtol
  PROVE  Magnitude(Residual((bracket.lower + bracket.upper) \div 2)) =< IdentityInformation
<1> DEFINE l == bracket.lower
           r == bracket.upper
           m == (l + r) \div 2
<1>1. /\ HasResolved(Law) /\ l \in Branch /\ r \in Branch /\ l =< r
      /\ Falling(l) >= 0 /\ Falling(r) =< 0
  BY DEF SearchInv
<1>2. Law.unresolved \in Nat /\ Bottom \in 0..Law.unresolved
  BY <1>1, BottomInside
<1>3. l \in 0..Law.unresolved /\ r \in 0..Law.unresolved /\ r - l =< RootAtol
  BY <1>1, <1>2 DEF Branch, BracketWidth
<1>4. RootAtol \in Nat
  BY SolverAssumption
<1>5. /\ m \in 0..Law.unresolved /\ l =< m /\ m =< r
      /\ m - l =< (RootAtol + 1) \div 2 /\ r - m =< (RootAtol + 1) \div 2
  BY <1>1, <1>2, <1>3, <1>4
<1>6. Residual(l) \in Int /\ Residual(m) \in Int /\ Residual(r) \in Int
  BY <1>1, <1>3, <1>5, ResidualIsInt
<1> HIDE DEF l, r, m
<1>7. \/ Residual(l) >= 0 /\ Residual(r) =< 0
      \/ Residual(l) =< 0 /\ Residual(r) >= 0
  BY <1>1, <1>6 DEF Falling, Sign
<1>8. \/ Residual(l) >= 0 /\ Residual(m) =< 0
      \/ Residual(l) =< 0 /\ Residual(m) >= 0
      \/ Residual(m) >= 0 /\ Residual(r) =< 0
      \/ Residual(m) =< 0 /\ Residual(r) >= 0
  BY <1>6, <1>7
<1>9. Magnitude(Residual(m)) =< IdentityInformation
  BY <1>1, <1>3, <1>5, <1>8, CrossingIsNear
<1>10. QED
  BY <1>9 DEF l, r, m

\* Every step keeps the measure, so that no branch runs out of iterations.
LEMMA EffortKept ==
  ASSUME SolverTypeOK, SearchInv, EffortInv, [Ask \/ Solve]_solverVars
  PROVE  EffortInv'
<1>1. CASE Ask
  BY <1>1 DEF Ask, EffortInv, Searching
<1>2. CASE AssessDegenerate
  BY <1>2 DEF AssessDegenerate, EffortInv, Searching
<1>3. CASE Assess
  <2>1. HasResolved(Law) /\ request.rho \in Nat /\ Law.floor \in Nat
    BY <1>3, BottomInside, PopulationAssumption DEF Assess, Regime
  <2>2. request.rho >= Law.floor
    BY <1>3, <2>1 DEF Assess, Regime
  <2>3. /\ Residual(Bottom) \in Int /\ Residual(Bottom) =< IdentityInformation
        /\ request.rho = Law.floor => Magnitude(Residual(Bottom)) =< IdentityInformation
    BY <2>1, <2>2, BottomResidual
  <2>4. CASE IsMinimumSingleton(Regime(Law, request.rho))
    <3>1. Magnitude(Residual(Bottom)) =< IdentityInformation
      BY <2>1, <2>2, <2>3, <2>4 DEF IsMinimumSingleton, Regime, Magnitude
    <3>2. stage' = "answered"
      BY <1>3, <2>4, <3>1 DEF Assess, Answer, ExactRoot
    <3>3. QED
      BY <3>2 DEF EffortInv, Searching
  <2>5. CASE ~IsMinimumSingleton(Regime(Law, request.rho))
    <3>1. Residual(Bottom) < 0
      BY <2>3, <2>5 DEF IsMinimumSingleton
    <3>2. \/ stage' = "answered"
          \/ /\ stage' = "lower" /\ UNCHANGED <<request, bracket, shortcut, iterations>>
      BY <1>3, <2>5 DEF Assess, Answer
    <3>3. bracket = Nothing /\ iterations = 0
      BY <1>3 DEF Assess, SearchInv, EffortInv
    <3>4. QED
      BY <3>1, <3>2, <3>3 DEF EffortInv, Searching, Residual, Law, Bottom
  <2>6. QED
    BY <2>4, <2>5
<1>4. ASSUME Searching, NEW root, Found(root)
      PROVE  EffortInv'
  <2>1. \/ stage' = "answered"
        \/ /\ stage' = "upper" /\ bracket' = Nothing /\ iterations' = 0
           /\ UNCHANGED request
    BY <1>4 DEF Found, Answer
  <2>2. QED
    BY <1>4, <2>1 DEF EffortInv, Searching, Residual, Law, Bottom
<1>5. CASE BoundaryIsRoot
  BY <1>4, <1>5 DEF BoundaryIsRoot
<1>6. CASE OpenBracket
  <2> DEFINE b == IF stage = "lower" THEN [lower |-> 0, upper |-> Bottom]
                                     ELSE [lower |-> Bottom, upper |-> Law.unresolved]
  <2>1. Searching /\ HasResolved(Law) /\ Residual(Bottom) < 0 /\ bracket = Nothing
        /\ iterations = 0
    BY <1>6 DEF OpenBracket, SearchInv, EffortInv
  <2>2. Law.unresolved \in Nat /\ Bottom \in 0..Law.unresolved
    BY <2>1, BottomInside
  <2>3. Residual(Bottom) \in Int
    BY <2>1, <2>2, ResidualIsInt
  <2>4. bracket' = b /\ UNCHANGED <<request, stage, iterations>>
    BY <1>6, <2>1, <2>3 DEF OpenBracket
  <2>5. BracketWidth(b) = InitialWidth /\ InitialWidth \in Nat
    BY <2>1, <2>2 DEF BracketWidth, InitialWidth
  <2>6. Halvings(InitialWidth)[InitialWidth] \in Nat
    BY <2>5, HalvingsGrow
  <2>7. InitialWidth' = InitialWidth
    BY <2>4 DEF InitialWidth, Law, Bottom
  <2> HIDE DEF b
  <2>8. BracketWidth(bracket)' = InitialWidth
    BY <2>4, <2>5 DEF BracketWidth
  <2>9. (Residual(Bottom) < 0)' /\ Searching' /\ stage' \notin {"assess", "raised"}
    BY <2>1, <2>4 DEF Residual, Law, Bottom, Searching
  <2>10. iterations' = 0
    BY <2>1, <2>4
  <2>11. (BracketWidth(bracket) \in 0..InitialWidth)'
    BY <2>5, <2>7, <2>8
  <2>12. (Halvings(InitialWidth)[BracketWidth(bracket)])' = Halvings(InitialWidth)[InitialWidth]
    BY <2>7, <2>8
  <2>13. QED
    BY <2>6, <2>7, <2>9, <2>10, <2>11, <2>12 DEF EffortInv
<1>7. CASE Bisect
  <2> DEFINE m == (bracket.lower + bracket.upper) \div 2
             w == BracketWidth(bracket)
             v == BracketWidth(bracket')
             W == InitialWidth
  <2>1. /\ Searching /\ bracket # Nothing /\ ~(w =< RootAtol)
        /\ HasResolved(Law) /\ Residual(Bottom) < 0
        /\ bracket.lower \in Branch /\ bracket.upper \in Branch /\ bracket.lower =< bracket.upper
        /\ iterations \in Nat /\ w \in 0..W
        /\ iterations + Halvings(W)[w] =< Halvings(W)[W]
    <3>1. BracketWidth(bracket) > RootAtol /\ Searching /\ bracket # Nothing
      BY <1>7 DEF Bisect
    <3>2. BracketWidth(bracket) \in Int /\ RootAtol \in Int
      BY SolverAssumption DEF SolverTypeOK, BracketWidth
    <3>3. QED
      BY <3>1, <3>2 DEF SearchInv, EffortInv
  <2>2. Law.unresolved \in Nat /\ Bottom \in 0..Law.unresolved
    BY <2>1, BottomInside
  <2>3. W \in Nat
    BY <2>1, <2>2 DEF InitialWidth
  <2>4. bracket \in [lower : Int, upper : Int]
    BY DEF SolverTypeOK
  <2>5. m \in Int /\ bracket.lower =< m /\ m =< bracket.upper
    BY <2>1, <2>4, MiddleInside
  <2>6. ASSUME NEW x \in 0..W, x =< (w + 1) \div 2
        PROVE  /\ Halvings(W)[w] \in Nat /\ Halvings(W)[x] \in Nat /\ Halvings(W)[W] \in Nat
               /\ Halvings(W)[x] + 1 =< Halvings(W)[w]
    <3> HIDE DEF w, W
    <3>1. QED
      BY <2>1, <2>3, <2>6, HalvingLeft
  <2>7. iterations < IterationCap(W)
    <3>1. 0 \in 0..W /\ 0 =< (w + 1) \div 2
      BY <2>1, <2>3
    <3> HIDE DEF w, W
    <3>2. QED
      BY <2>1, <2>6, <3>1 DEF IterationCap
  <2>8. /\ bracket' \in {[lower |-> m, upper |-> m], [bracket EXCEPT !.lower = m],
                         [bracket EXCEPT !.upper = m]}
        /\ iterations' = iterations + 1
        /\ UNCHANGED <<request, stage>>
    <3>1. ~(iterations >= IterationCap(InitialWidth))
      <4>1. IterationCap(W) \in Nat
        BY <2>3, HalvingsGrow DEF IterationCap
      <4>2. QED
        BY <2>1, <2>7, <4>1
    <3>2. QED
      BY <1>7, <3>1 DEF Bisect
  <2>9. v \in 0..W /\ v =< (w + 1) \div 2
    BY <2>1, <2>3, <2>4, <2>5, <2>8 DEF BracketWidth
  <2>10. InitialWidth' = W
    BY <2>8 DEF InitialWidth, Law, Bottom
  <2>11. (Residual(Bottom) < 0)' /\ stage' \notin {"assess", "raised"} /\ Searching'
    BY <2>1, <2>8 DEF Residual, Law, Bottom, Searching
  <2>12. bracket' # Nothing
    <3>1. bracket'.lower >= 0 /\ bracket'.lower \in Int
      BY <2>1, <2>2, <2>4, <2>5, <2>8 DEF Branch
    <3>2. QED
      BY <3>1 DEF Nothing, None
  <2>13. BracketWidth(bracket)' = v
    BY DEF BracketWidth
  <2>14. iterations' \in Nat /\ iterations' + Halvings(W)[v] =< Halvings(W)[W]
    <3>1. /\ Halvings(W)[w] \in Nat /\ Halvings(W)[v] \in Nat /\ Halvings(W)[W] \in Nat
          /\ Halvings(W)[v] + 1 =< Halvings(W)[w]
      BY <2>6, <2>9
    <3> HIDE DEF w, v, W
    <3>2. QED
      BY <2>1, <2>8, <3>1
  <2>15. (Halvings(InitialWidth)[BracketWidth(bracket)])' = Halvings(W)[v]
    <3> HIDE DEF v, W
    <3>1. QED
      BY <2>10, <2>13
  <2>16. (Halvings(InitialWidth)[InitialWidth])' = Halvings(W)[W]
    <3> HIDE DEF v, W
    <3>1. QED
      BY <2>10
  <2>17. (BracketWidth(bracket) \in 0..InitialWidth)'
    <3> HIDE DEF v, W
    <3>1. QED
      BY <2>9, <2>10, <2>13
  <2> HIDE DEF w, v, W
  <2>18. QED
    BY <2>11, <2>12, <2>14, <2>15, <2>16, <2>17 DEF EffortInv
<1>8. CASE CloseBracket
  <2>1. Searching /\ bracket # Nothing /\ BracketWidth(bracket) =< RootAtol
    BY <1>8 DEF CloseBracket
  <2>2. Magnitude(Residual((bracket.lower + bracket.upper) \div 2)) =< IdentityInformation
    BY <2>1, CloseIsAccepted
  <2>3. \E root : Found(root)
    <3>1. /\ IdentityInformation \in Int
          /\ Magnitude(Residual((bracket.lower + bracket.upper) \div 2)) \in Int
      <4>1. /\ HasResolved(Law) /\ bracket.lower \in Branch /\ bracket.upper \in Branch
            /\ bracket.lower =< bracket.upper
        BY <2>1 DEF SearchInv
      <4>2. /\ bracket.lower \in 0..Law.unresolved /\ bracket.upper \in 0..Law.unresolved
            /\ Law.unresolved \in Nat
        BY <4>1, BottomInside DEF Branch
      <4>3. (bracket.lower + bracket.upper) \div 2 \in 0..Law.unresolved
        BY <4>1, <4>2, MiddleInside
      <4>4. Residual((bracket.lower + bracket.upper) \div 2) \in Int
        BY <4>1, <4>3, ResidualIsInt
      <4>5. QED
        BY <4>4, SolverAssumption DEF Magnitude
    <3>2. ~(Magnitude(Residual((bracket.lower + bracket.upper) \div 2)) > IdentityInformation)
      BY <2>2, <3>1
    <3>3. QED
      BY <1>8, <3>2 DEF CloseBracket
  <2>4. QED
    BY <1>4, <2>1, <2>3
<1>9. CASE UNCHANGED solverVars
  BY <1>9 DEF solverVars, EffortInv, Searching, InitialWidth, BracketWidth, Residual, Law, Bottom
<1>10. QED
  BY <1>1, <1>2, <1>3, <1>5, <1>6, <1>7, <1>8, <1>9 DEF Solve

\* No request ends in a RootSolveError: no branch runs out of iterations, and with
\* the two tolerances in step neither a singleton nor the middle of a bracket is
\* refused (compute_iteration_cap, _is_minimum_singleton, _require_residual).
THEOREM NoError == SolverSpec => []NeverRaises
<1>1. SolverInit => SolverInv /\ EffortInv
  <2>1. SolverInit => SolverInv
    BY DEF SolverInit, SolverInv, SolverTypeOK, SearchInv, SharpInv, Searching, LowerSharp,
           UpperSharp, Searched, NoRoot, Nothing, None, RootRecord
  <2>2. SolverInit => EffortInv
    BY DEF SolverInit, EffortInv, Searching
  <2>3. QED
    BY <2>1, <2>2
<1>2. SolverInv /\ EffortInv /\ [Ask \/ Solve]_solverVars => EffortInv'
  BY EffortKept DEF SolverInv
<1>3. EffortInv => NeverRaises
  BY DEF EffortInv, NeverRaises
<1>4. QED
  BY <1>1, <1>2, <1>3, SolverInvariant, PTL DEF SolverSpec

-----------------------------------------------------------------------------
(* The population experiments: the ends of an interval                     *)

\* What an evaluated profile may be off by, nothing included.
Slack == Roundings \cup {0}

\* The lower end of an interval: next to it a mass not within the budget, unless it is zero,
\* and one that is, each up to a rounding.
LowerEnd(p, rho, x) ==
  /\ x \in 0..Dagger(p) /\ (rho = p.floor => x = Dagger(p))
  /\ \/ x = 0
     \/ \E u \in 0..Dagger(p), s \in Slack :
          u =< x /\ 2 * (x - u) =< RootAtol /\ rho =< Information(p, u) + s
  /\ \E v \in 0..Dagger(p), s \in Slack :
       x =< v /\ 2 * (v - x) =< RootAtol + 1 /\ Information(p, v) + s =< rho

\* The upper end, mirrored; a middle is rounded down, so the odd half is on this side outward.
UpperEnd(p, rho, x) ==
  /\ x \in Dagger(p)..p.unresolved /\ (rho = p.floor => x = Dagger(p))
  /\ \/ x = p.unresolved
     \/ \E u \in Dagger(p)..p.unresolved, s \in Slack :
          x =< u /\ 2 * (u - x) =< RootAtol + 1 /\ rho =< Information(p, u) + s
  /\ \E v \in Dagger(p)..p.unresolved, s \in Slack :
       v =< x /\ 2 * (x - v) =< RootAtol /\ Information(p, v) + s =< rho

\* What a root of a bracket or a singleton owes the two tolerances of the solver.
RootFits(root) ==
  root.status # "NONE" =>
    /\ BracketWidth(root) =< RootAtol
    /\ root.status # "EXACT_BOUNDARY" => root.residual =< IdentityInformation

\* The records an experiment keeps of its answers.
AnswerRecord ==
  [population : Populations, rho : Nat, interval : [lower : Int, upper : Int],
   roots : [lower : RootRecord, upper : RootRecord]]

\* What an answer says of its budget.
AnswerTrue(a) ==
  /\ RootFits(a.roots.lower) /\ RootFits(a.roots.upper)
  /\ IF ~HasResolved(a.population) THEN a.interval = [lower |-> 0, upper |-> a.population.unresolved]
     ELSE IF a.rho < a.population.floor THEN a.interval = Nothing
     ELSE /\ LowerEnd(a.population, a.rho, a.interval.lower)
          /\ UpperEnd(a.population, a.rho, a.interval.upper)

\* The masses of a summary, and its profile above the floor.
LEMMA MassFacts ==
  ASSUME NEW p \in Populations
  PROVE  /\ p.harmful \in Nat /\ p.correct \in Nat /\ p.unresolved \in Nat /\ p.floor \in Nat
         /\ HasResolved(p) =>
              /\ Dagger(p) \in 0..p.unresolved /\ Excess(p, Dagger(p)) = 0
              /\ \A u \in 0..p.unresolved : Excess(p, u) \in Nat /\ Information(p, u) = Excess(p, u) + p.floor
              /\ TauOrZero(p) = p.floor /\ Tau(p) = p.floor
BY PopulationAssumption, ProfileAssumption DEF Information, Tau, TauOrZero

\* The latent risk of the point of minimum information, next to that of its hidden mass.
LEMMA ThetaFacts ==
  ASSUME NEW p \in Populations, HasResolved(p)
  PROVE  /\ ThetaDagger(p) \in Int /\ ComparisonGuard \in Nat
         /\ p.harmful + Dagger(p) =< ThetaDagger(p) + ComparisonGuard
         /\ ThetaDagger(p) =< p.harmful + Dagger(p) + ComparisonGuard
<1>1. PICK m, n : m = ThetaDagger(p) /\ n = p.harmful + Dagger(p)
  OBVIOUS
<1>2. m \in Nat /\ Magnitude(m - n) =< ComparisonGuard /\ ComparisonGuard \in Nat
  BY <1>1, LatentRiskAssumption, ToleranceAssumption
<1>3. n \in Int
  BY <1>1, MassFacts
<1> QED BY <1>1, <1>2, <1>3 DEF Magnitude

\* The slack is a set of integers with zero and every rounding in it.
LEMMA SlackIsInt == Slack \subseteq Int /\ 0 \in Slack /\ Roundings \subseteq Slack
BY SolverAssumption DEF Slack

\* A rounding is within the comparison guard.
LEMMA SlackBounds == \A s \in Slack : -ComparisonGuard =< s /\ s =< ComparisonGuard
<1>1. \A s \in Roundings : s \in Int /\ Magnitude(s) =< ComparisonGuard
  BY SolverAssumption, ToleranceAssumption
<1>2. ComparisonGuard \in Nat
  BY ToleranceAssumption
<1> QED BY <1>1, <1>2 DEF Slack, Magnitude

\* Twice a bracket of root_atol fits in identity_atol.
LEMMA HalfMass == IdentityMass \in Nat /\ RootAtol \in Nat \ {0} /\ 2 * RootAtol =< IdentityMass
BY SolverAssumption, ToleranceAssumption

\* Masses on one side of the point of minimum information between which a budget is crossed.
LEMMA NearBelow ==
  ASSUME NEW p \in Populations, HasResolved(p), NEW rho \in Nat, p.floor < rho, CrossingIsSharp(p, rho),
         NEW u \in 0..Dagger(p), NEW v \in 0..Dagger(p), NEW r \in Slack, NEW s \in Slack,
         Information(p, v) + s =< rho, rho =< Information(p, u) + r
  PROVE  2 * (RootAtol + u - v) =< IdentityMass
<1>1. /\ Dagger(p) \in 0..p.unresolved /\ p.unresolved \in Nat
      /\ u \in 0..p.unresolved /\ v \in 0..p.unresolved
  BY MassFacts
<1>2. CASE u =< v
  BY <1>1, <1>2, HalfMass
<1>3. CASE v < u
  <2>1. 2 * (RootAtol + Magnitude(v - u)) =< IdentityMass
    BY <1>1, <1>3 DEF CrossingIsSharp, Slack
  <2>2. Magnitude(v - u) = u - v
    BY <1>1, <1>3 DEF Magnitude
  <2> QED BY <1>1, <2>1, <2>2, HalfMass
<1> QED BY <1>1, <1>2, <1>3

\* The same on the upper branch.
LEMMA NearAbove ==
  ASSUME NEW p \in Populations, HasResolved(p), NEW rho \in Nat, p.floor < rho, CrossingIsSharp(p, rho),
         NEW u \in Dagger(p)..p.unresolved, NEW v \in Dagger(p)..p.unresolved,
         NEW r \in Slack, NEW s \in Slack,
         Information(p, v) + s =< rho, rho =< Information(p, u) + r
  PROVE  2 * (RootAtol + v - u) =< IdentityMass
<1>1. /\ Dagger(p) \in 0..p.unresolved /\ p.unresolved \in Nat
      /\ u \in 0..p.unresolved /\ v \in 0..p.unresolved /\ Dagger(p) =< u
  BY MassFacts
<1>2. CASE v =< u
  BY <1>1, <1>2, HalfMass
<1>3. CASE u < v
  <2>1. 2 * (RootAtol + Magnitude(v - u)) =< IdentityMass
    BY <1>1, <1>3 DEF CrossingIsSharp, Slack
  <2>2. Magnitude(v - u) = v - u
    BY <1>1, <1>3 DEF Magnitude
  <2> QED BY <1>1, <2>1, <2>2, HalfMass
<1> QED BY <1>1, <1>2, <1>3

\* The interval contains every mass within a budget above the floor, up to half of identity_atol.
LEMMA IntervalContains ==
  ASSUME NEW p \in Populations, HasResolved(p), NEW rho \in Nat, p.floor < rho, CrossingIsSharp(p, rho),
         NEW x, NEW y, LowerEnd(p, rho, x), UpperEnd(p, rho, y),
         NEW t \in 0..p.unresolved, NEW s \in Slack, Information(p, t) + s =< rho
  PROVE  2 * (x - t) =< IdentityMass /\ 2 * (t - y) =< IdentityMass
<1>1. Dagger(p) \in 0..p.unresolved /\ p.unresolved \in Nat /\ t \in Nat
  BY MassFacts
<1>2. IdentityMass \in Nat /\ RootAtol \in Nat \ {0}
  BY HalfMass
<1>3. x \in 0..Dagger(p) /\ y \in Dagger(p)..p.unresolved
  BY DEF LowerEnd, UpperEnd
<1>4. 2 * (x - t) =< IdentityMass
  <2>1. CASE x =< t
    BY <1>1, <1>2, <1>3, <2>1
  <2>2. CASE t < x
    <3>1. PICK u \in 0..Dagger(p), r \in Slack :
            u =< x /\ 2 * (x - u) =< RootAtol /\ rho =< Information(p, u) + r
      BY <1>1, <1>3, <2>2 DEF LowerEnd
    <3>2. t \in 0..Dagger(p)
      BY <1>1, <1>3, <2>2
    <3>3. 2 * (RootAtol + u - t) =< IdentityMass
      BY <3>1, <3>2, NearBelow
    <3> QED BY <1>1, <1>2, <1>3, <3>1, <3>3
  <2> QED BY <1>1, <1>3, <2>1, <2>2
<1>5. 2 * (t - y) =< IdentityMass
  <2>1. CASE t =< y
    BY <1>1, <1>2, <1>3, <2>1
  <2>2. CASE y < t
    <3>1. PICK u \in Dagger(p)..p.unresolved, r \in Slack :
            y =< u /\ 2 * (u - y) =< RootAtol + 1 /\ rho =< Information(p, u) + r
      BY <1>1, <1>3, <2>2 DEF UpperEnd
    <3>2. t \in Dagger(p)..p.unresolved
      BY <1>1, <1>3, <2>2
    <3>3. 2 * (RootAtol + t - u) =< IdentityMass
      BY <3>1, <3>2, NearAbove
    <3> QED BY <1>1, <1>2, <1>3, <3>1, <3>3
  <2> QED BY <1>1, <1>3, <2>1, <2>2
<1> QED BY <1>4, <1>5

\* Of two summaries with the same masses the one with the higher floor has the narrower
\* interval, up to half of identity_atol at each end.
LEMMA HigherFloorNarrows ==
  ASSUME NEW p \in Populations, NEW q \in Populations, HasResolved(p), SameMasses(p, q),
         q.floor =< p.floor, NEW rho \in Nat, p.floor =< rho, CrossingIsSharp(q, rho),
         NEW x, NEW y, NEW l, NEW h,
         LowerEnd(p, rho, x), UpperEnd(p, rho, y), LowerEnd(q, rho, l), UpperEnd(q, rho, h)
  PROVE  2 * (l - x) =< IdentityMass /\ 2 * (y - h) =< IdentityMass
<1>1. HasResolved(q) /\ Dagger(q) = Dagger(p) /\ q.unresolved = p.unresolved
  BY DEF SameMasses, HasResolved, Resolved3, Dagger
<1>2. /\ Dagger(p) \in 0..p.unresolved /\ p.unresolved \in Nat /\ p.floor \in Nat /\ q.floor \in Nat
      /\ \A u \in 0..p.unresolved : /\ Excess(p, u) \in Nat /\ Excess(q, u) = Excess(p, u)
                                    /\ Information(p, u) = Excess(p, u) + p.floor
                                    /\ Information(q, u) = Excess(p, u) + q.floor
  BY <1>1, MassFacts, MassesAssumption
<1>3. IdentityMass \in Nat /\ RootAtol \in Nat \ {0}
  BY HalfMass
<1>4. /\ x \in 0..Dagger(p) /\ y \in Dagger(p)..p.unresolved
      /\ l \in 0..Dagger(p) /\ h \in Dagger(p)..p.unresolved
  BY <1>1 DEF LowerEnd, UpperEnd
<1>5. CASE rho = q.floor
  <2>1. x = Dagger(p) /\ y = Dagger(p) /\ l = Dagger(p) /\ h = Dagger(p)
    <3>1. rho = p.floor
      BY <1>2, <1>5
    <3> QED BY <1>1, <1>5, <3>1 DEF LowerEnd, UpperEnd
  <2> QED BY <1>2, <1>3, <2>1
<1>6. CASE q.floor < rho
  <2>1. 2 * (l - x) =< IdentityMass
    <3>1. CASE l = 0
      BY <1>2, <1>3, <1>4, <3>1
    <3>2. CASE l # 0
      <4>1. PICK u \in 0..Dagger(p), r \in Slack :
              u =< l /\ 2 * (l - u) =< RootAtol /\ rho =< Information(q, u) + r
        BY <1>1, <3>2 DEF LowerEnd
      <4>2. PICK v \in 0..Dagger(p), s \in Slack :
              x =< v /\ 2 * (v - x) =< RootAtol + 1 /\ Information(p, v) + s =< rho
        BY DEF LowerEnd
      <4>3. v \in 0..p.unresolved /\ s \in Int
        BY <1>2, SlackIsInt
      <4>4. Information(q, v) + s =< rho
        BY <1>2, <4>2, <4>3
      <4>5. 2 * (RootAtol + u - v) =< IdentityMass
        BY <1>1, <1>6, <4>1, <4>4, NearBelow
      <4> QED BY <1>2, <1>3, <1>4, <4>1, <4>2, <4>5
    <3> QED BY <3>1, <3>2
  <2>2. 2 * (y - h) =< IdentityMass
    <3>1. CASE h = p.unresolved
      BY <1>2, <1>3, <1>4, <3>1
    <3>2. CASE h # p.unresolved
      <4>1. PICK u \in Dagger(p)..p.unresolved, r \in Slack :
              h =< u /\ 2 * (u - h) =< RootAtol + 1 /\ rho =< Information(q, u) + r
        BY <1>1, <3>2 DEF UpperEnd
      <4>2. PICK v \in Dagger(p)..p.unresolved, s \in Slack :
              v =< y /\ 2 * (y - v) =< RootAtol /\ Information(p, v) + s =< rho
        BY DEF UpperEnd
      <4>3. v \in 0..p.unresolved /\ s \in Int
        BY <1>2, SlackIsInt
      <4>4. Information(q, v) + s =< rho
        BY <1>2, <4>2, <4>3
      <4>5. 2 * (RootAtol + v - u) =< IdentityMass
        BY <1>1, <1>6, <4>1, <4>4, NearAbove
      <4> QED BY <1>2, <1>3, <1>4, <4>1, <4>2, <4>5
    <3> QED BY <3>1, <3>2
  <2> QED BY <2>1, <2>2
<1> QED BY <1>2, <1>5, <1>6

-----------------------------------------------------------------------------
(* What a request makes of its ends                                        *)

\* What is known of the ends while a request is worked on, and of the answer.
EndInv ==
  /\ stage = "assess" => roots = [lower |-> NoRoot, upper |-> NoRoot] /\ answer = Nothing
  /\ Searching => Law.floor < request.rho
  /\ stage = "upper" => RootFits(roots.lower) /\ LowerEnd(Law, request.rho, roots.lower.root)
  /\ stage = "answered" => answer \in [lower : Int, upper : Int] /\ AnswerTrue(Given)

\* The sign of a residual compares the profile, up to its rounding, with the budget.
LEMMA ResidualSign ==
  ASSUME SolverTypeOK, HasResolved(Law), NEW u \in 0..Law.unresolved
  PROVE  /\ Residual(u) >= 0 => \E s \in Slack : request.rho =< Information(Law, u) + s
         /\ Residual(u) =< 0 => \E s \in Slack : Information(Law, u) + s =< request.rho
<1>1. Law \in Populations /\ request.rho \in Nat /\ request.rounding \in Int /\ request.rounding \in Slack
  BY BottomInside DEF SolverTypeOK, Request, Slack
<1>2. Information(Law, u) \in Nat
  BY <1>1, MassFacts
<1>3. PICK i : i = Information(Law, u)
  OBVIOUS
<1>4. Residual(u) = (IF i + request.rounding < 0 THEN 0 ELSE i + request.rounding) - request.rho
  BY <1>3 DEF Residual
<1>5. Residual(u) >= 0 => request.rho =< i + request.rounding \/ request.rho =< i + 0
  BY <1>1, <1>2, <1>3, <1>4
<1>6. Residual(u) =< 0 => i + request.rounding =< request.rho
  BY <1>1, <1>2, <1>3, <1>4
<1> QED BY <1>1, <1>3, <1>5, <1>6, SlackIsInt

\* What is searched for is a budget above the floor.
LEMMA AboveFloor ==
  ASSUME SolverTypeOK, SearchInv, EndInv, Searching
  PROVE  request.rho # Law.floor
<1>1. Law.floor < request.rho /\ request.rho \in Nat /\ Law.floor \in Nat
  BY BottomInside, MassFacts DEF SearchInv, EndInv
<1> QED BY <1>1

\* A boundary within the budget is an end.
LEMMA BoundaryEnd ==
  ASSUME SolverTypeOK, SearchInv, BoundaryIsRoot, request.rho # Law.floor
  PROVE  /\ stage = "lower" => LowerEnd(Law, request.rho, Boundary)
         /\ stage = "upper" => UpperEnd(Law, request.rho, Boundary)
<1>1. Searching /\ HasResolved(Law) /\ Residual(Boundary) =< 0
  BY DEF BoundaryIsRoot, SearchInv
<1>2. /\ Law.unresolved \in Nat /\ Bottom \in 0..Law.unresolved /\ Bottom = Dagger(Law)
      /\ Boundary = IF stage = "lower" THEN 0 ELSE Law.unresolved
  BY <1>1, BottomInside DEF Boundary, Bottom
<1>3. \E s \in Slack : Information(Law, Boundary) + s =< request.rho
  BY <1>1, <1>2, ResidualSign
<1>4. RootAtol \in Nat
  BY SolverAssumption
<1> QED BY <1>2, <1>3, <1>4 DEF LowerEnd, UpperEnd

\* So is the middle of a narrow bracket.
LEMMA BracketEnd ==
  ASSUME SolverTypeOK, SearchInv, Searching, bracket # Nothing, BracketWidth(bracket) =< RootAtol,
         request.rho # Law.floor,
         NEW m, m = (bracket.lower + bracket.upper) \div 2
  PROVE  /\ stage = "lower" => LowerEnd(Law, request.rho, m)
         /\ stage = "upper" => UpperEnd(Law, request.rho, m)
<1> DEFINE l == bracket.lower
           r == bracket.upper
<1>1. /\ HasResolved(Law) /\ l \in Branch /\ r \in Branch /\ l =< r
      /\ Falling(l) >= 0 /\ Falling(r) =< 0
  BY DEF SearchInv
<1>2. Law.unresolved \in Nat /\ Bottom \in 0..Law.unresolved /\ Bottom = Dagger(Law)
  BY <1>1, BottomInside DEF Bottom
<1>3. l \in 0..Law.unresolved /\ r \in 0..Law.unresolved /\ r - l =< RootAtol /\ RootAtol \in Nat
  <2>1. \A u \in Branch : u \in 0..Law.unresolved
    BY <1>2 DEF Branch
  <2> QED BY <1>1, <2>1, SolverAssumption DEF BracketWidth
<1>4. m = (l + r) \div 2
  OBVIOUS
<1>5. Residual(l) \in Int /\ Residual(r) \in Int
  BY <1>1, <1>3, ResidualIsInt
<1> HIDE DEF l, r
<1>6. /\ l =< m /\ m =< r /\ 2 * (m - l) =< RootAtol /\ 2 * (r - m) =< RootAtol + 1 /\ m \in Int
  BY <1>1, <1>3, <1>4
<1>7. CASE stage = "lower"
  <2>1. l \in 0..Dagger(Law) /\ r \in 0..Dagger(Law) /\ Residual(l) >= 0 /\ Residual(r) =< 0
    BY <1>1, <1>2, <1>5, <1>7 DEF Branch, Falling, Sign
  <2>2. /\ \E s \in Slack : request.rho =< Information(Law, l) + s
        /\ \E s \in Slack : Information(Law, r) + s =< request.rho
    BY <1>1, <1>3, <2>1, ResidualSign
  <2>3. m \in 0..Dagger(Law)
    BY <1>2, <1>6, <2>1
  <2> QED BY <1>6, <1>7, <2>1, <2>2, <2>3 DEF LowerEnd
<1>8. CASE stage = "upper"
  <2>1. /\ l \in Dagger(Law)..Law.unresolved /\ r \in Dagger(Law)..Law.unresolved
        /\ Residual(l) =< 0 /\ Residual(r) >= 0
    BY <1>1, <1>2, <1>5, <1>8 DEF Branch, Falling, Sign
  <2>2. /\ \E s \in Slack : request.rho =< Information(Law, r) + s
        /\ \E s \in Slack : Information(Law, l) + s =< request.rho
    BY <1>1, <1>3, <2>1, ResidualSign
  <2>3. m \in Dagger(Law)..Law.unresolved
    BY <1>2, <1>6, <2>1
  <2> QED BY <1>6, <1>8, <2>1, <2>2, <2>3 DEF UpperEnd
<1> QED BY <1>7, <1>8

\* The point of minimum information is both ends of a budget on the floor, within its
\* rounding of it, or of a summary without unresolved mass.
LEMMA SingletonEnds ==
  ASSUME SolverTypeOK, HasResolved(Law), Law.floor =< request.rho,
         request.rho = Law.floor \/ Law.unresolved = 0 \/ 0 =< Residual(Bottom)
  PROVE  LowerEnd(Law, request.rho, Bottom) /\ UpperEnd(Law, request.rho, Bottom)
<1>1. /\ Law \in Populations /\ Law.unresolved \in Nat /\ Bottom \in 0..Law.unresolved
      /\ Bottom = Dagger(Law) /\ request.rho \in Nat /\ RootAtol \in Nat
  BY BottomInside, SolverAssumption DEF Bottom
<1>2. Law.floor \in Nat /\ Information(Law, Bottom) = Law.floor /\ 0 \in Slack
  BY <1>1, MassFacts, SlackIsInt
<1>3. Information(Law, Bottom) + 0 =< request.rho
  BY <1>1, <1>2
<1>4. Law.unresolved = 0 \/ \E s \in Slack : request.rho =< Information(Law, Bottom) + s
  <2>1. CASE request.rho = Law.floor
    BY <1>1, <1>2, <2>1
  <2>2. CASE 0 =< Residual(Bottom)
    BY <1>1, <2>2, ResidualSign, ResidualIsInt
  <2> QED BY <2>1, <2>2
<1>5. LowerEnd(Law, request.rho, Bottom)
  BY <1>1, <1>2, <1>3, <1>4 DEF LowerEnd
<1>6. UpperEnd(Law, request.rho, Bottom)
  BY <1>1, <1>2, <1>3, <1>4 DEF UpperEnd
<1> QED BY <1>5, <1>6

\* A root that is found is the end of its branch, and both ends are the answer.
LEMMA FoundEnd ==
  ASSUME SolverTypeOK, SearchInv, EndInv, Searching, NEW root \in RootRecord, Found(root), RootFits(root),
         stage = "lower" => LowerEnd(Law, request.rho, root.root),
         stage = "upper" => UpperEnd(Law, request.rho, root.root)
  PROVE  EndInv'
<1>1. /\ HasResolved(Law) /\ Law.floor < request.rho /\ Law \in Populations
      /\ request.rho \in Nat /\ Law.floor \in Nat
  BY BottomInside, MassFacts DEF SearchInv, EndInv
<1>2. CASE stage = "lower"
  <2>1. stage' = "upper" /\ UNCHANGED request /\ roots'.lower = root
    BY <1>2 DEF Found, SolverTypeOK
  <2>2. RootFits(roots.lower)' /\ LowerEnd(Law, request.rho, roots.lower.root)'
    BY <1>2, <2>1 DEF Law
  <2> QED BY <1>1, <2>1, <2>2 DEF EndInv, Searching, Law
<1>3. CASE stage = "upper"
  <2>1. /\ stage' = "answered" /\ UNCHANGED request
        /\ roots' = [lower |-> roots.lower, upper |-> root]
        /\ answer' = [lower |-> roots.lower.root, upper |-> root.root]
    BY <1>3 DEF Found, Answer
  <2>2. answer' \in [lower : Int, upper : Int]
    BY <2>1 DEF SolverTypeOK, RootRecord
  <2>3. RootFits(roots.lower) /\ LowerEnd(Law, request.rho, roots.lower.root)
    BY <1>3 DEF EndInv
  <2>4. /\ Given'.population = Law /\ Given'.rho = request.rho
        /\ Given'.interval.lower = roots.lower.root /\ Given'.interval.upper = root.root
        /\ Given'.roots.lower = roots.lower /\ Given'.roots.upper = root
    BY <2>1 DEF Given, Law
  <2>5. ~(request.rho < Law.floor)
    BY <1>1, MassFacts
  <2>6. AnswerTrue(Given)'
    BY <1>1, <1>3, <2>3, <2>4, <2>5 DEF AnswerTrue
  <2> QED BY <2>1, <2>2, <2>6 DEF EndInv, Searching
<1> QED BY <1>2, <1>3 DEF Searching

\* An answer of a singleton.
LEMMA SingletonAnswer ==
  ASSUME SolverTypeOK, HasResolved(Law), Law.floor =< request.rho,
         request.rho = Law.floor \/ Law.unresolved = 0 \/ 0 =< Residual(Bottom),
         NEW root \in RootRecord, root.root = Bottom, RootFits(root), Answer(root, root)
  PROVE  EndInv'
<1>1. Law \in Populations /\ request.rho \in Nat
  BY BottomInside
<1>2. /\ stage' = "answered" /\ UNCHANGED request /\ roots' = [lower |-> root, upper |-> root]
      /\ answer' = [lower |-> Bottom, upper |-> Bottom]
  BY DEF Answer
<1>3. answer' \in [lower : Int, upper : Int]
  BY <1>2 DEF RootRecord
<1>4. /\ Given'.population = Law /\ Given'.rho = request.rho
      /\ Given'.interval.lower = Bottom /\ Given'.interval.upper = Bottom
      /\ Given'.roots.lower = root /\ Given'.roots.upper = root
  BY <1>2 DEF Given, Law
<1>5. ~(request.rho < Law.floor)
  BY <1>1, MassFacts
<1>6. AnswerTrue(Given)'
  BY <1>4, <1>5, SingletonEnds DEF AnswerTrue
<1> QED BY <1>2, <1>3, <1>6 DEF EndInv, Searching

\* Every step of a request keeps what is known of its ends.
LEMMA EndKept ==
  ASSUME SolverTypeOK, SearchInv, EndInv, [Ask \/ Solve]_solverVars
  PROVE  EndInv'
<1>1. CASE Ask
  BY <1>1 DEF Ask, EndInv, Searching
<1>2. CASE AssessDegenerate
  <2>1. /\ stage = "assess" /\ stage' = "answered" /\ UNCHANGED <<request, roots>>
        /\ roots = [lower |-> NoRoot, upper |-> NoRoot]
        /\ answer' = IF HasResolved(Law) THEN Nothing ELSE [lower |-> 0, upper |-> Law.unresolved]
        /\ Regime(Law, request.rho) \in {"MODEL_INCOMPATIBLE", "NO_RESOLVED_MASS"}
    BY <1>2 DEF AssessDegenerate, EndInv
  <2>2. Law \in Populations /\ Law.unresolved \in Nat
    BY MassFacts DEF SolverTypeOK, Request, Law
  <2>3. answer' \in [lower : Int, upper : Int]
    BY <2>1, <2>2 DEF Nothing, None
  <2>4. /\ Given'.population = Law /\ Given'.rho = request.rho /\ Given'.interval = answer'
        /\ Given'.roots.lower = NoRoot /\ Given'.roots.upper = NoRoot
    BY <2>1 DEF Given, Law
  <2>5. RootFits(NoRoot)
    BY DEF RootFits, NoRoot
  <2>6. HasResolved(Law) => request.rho < Law.floor
    BY <2>1 DEF Regime
  <2>7. AnswerTrue(Given)'
    BY <2>1, <2>4, <2>5, <2>6 DEF AnswerTrue
  <2> QED BY <2>1, <2>3, <2>7 DEF EndInv, Searching
<1>3. CASE Assess
  <2> DEFINE regime == Regime(Law, request.rho)
             point == ExactRoot(Bottom, "MINIMUM_SINGLETON")
  <2>1. HasResolved(Law) /\ regime \notin {"MODEL_INCOMPATIBLE", "NO_RESOLVED_MASS"} /\ stage = "assess"
    BY <1>3 DEF Assess, Regime
  <2>2. /\ Law \in Populations /\ Law.unresolved \in Nat /\ Bottom \in 0..Law.unresolved
        /\ request.rho \in Nat /\ Law.floor \in Nat
    BY <2>1, BottomInside, MassFacts
  <2>3. /\ Law.floor =< request.rho
        /\ regime = "MINIMUM_INFORMATION_SINGLETON" => request.rho = Law.floor
        /\ regime = "NO_UNRESOLVED_MASS" => Law.unresolved = 0
        /\ regime \notin {"MINIMUM_INFORMATION_SINGLETON", "NO_UNRESOLVED_MASS"} => Law.floor < request.rho
    BY <2>1, <2>2 DEF Regime
  <2>4. CASE regime = "NO_UNRESOLVED_MASS"
    <3> DEFINE root == ExactRoot(0, "EXACT_BOUNDARY")
    <3>1. Answer(root, root) /\ Bottom = 0
      BY <1>3, <2>2, <2>3, <2>4 DEF Assess
    <3>2. root \in RootRecord
      BY <2>1, <2>2, ExactRootTyped
    <3>3. root.root = 0 /\ RootFits(root)
      BY SolverAssumption DEF ExactRoot, RootFits, BracketWidth
    <3> HIDE DEF root
    <3> QED BY <2>1, <2>3, <2>4, <3>1, <3>2, <3>3, SingletonAnswer
  <2>5. CASE regime # "NO_UNRESOLVED_MASS" /\ ~IsMinimumSingleton(regime)
    <3>1. stage' = "lower" /\ UNCHANGED request
      BY <1>3, <2>5 DEF Assess
    <3>2. Law.floor < request.rho
      BY <2>3, <2>5 DEF IsMinimumSingleton
    <3> QED BY <3>1, <3>2 DEF EndInv, Searching, Law
  <2>6. CASE regime # "NO_UNRESOLVED_MASS" /\ IsMinimumSingleton(regime)
    <3>1. request.rho = Law.floor \/ 0 =< Residual(Bottom)
      BY <2>3, <2>6 DEF IsMinimumSingleton
    <3>2. CASE point.residual =< IdentityInformation
      <4>1. Answer(point, point)
        BY <1>3, <2>6, <3>2 DEF Assess
      <4>2. point \in RootRecord
        BY <2>1, <2>2, ExactRootTyped
      <4>3. point.root = Bottom /\ RootFits(point)
        BY <2>2, <3>2, SolverAssumption DEF ExactRoot, RootFits, BracketWidth
      <4> HIDE DEF point
      <4> QED BY <2>1, <2>3, <3>1, <4>1, <4>2, <4>3, SingletonAnswer
    <3>3. CASE ~(point.residual =< IdentityInformation)
      <4>1. stage' = "raised"
        BY <1>3, <2>6, <3>3 DEF Assess, Raise
      <4> QED BY <4>1 DEF EndInv, Searching
    <3> QED BY <3>2, <3>3
  <2> QED BY <2>4, <2>5, <2>6
<1>4. CASE BoundaryIsRoot
  <2> DEFINE root == ExactRoot(Boundary, "EXACT_BOUNDARY")
  <2>1. Searching /\ HasResolved(Law) /\ Found(root)
    BY <1>4 DEF BoundaryIsRoot, SearchInv
  <2>2. root \in RootRecord
    BY <2>1, BottomInside, ExactRootTyped DEF Boundary
  <2>3. root.root = Boundary /\ RootFits(root)
    <3>1. Boundary \in Int
      BY <2>1, BottomInside DEF Boundary
    <3> QED BY <3>1, SolverAssumption DEF ExactRoot, RootFits, BracketWidth
  <2>4. request.rho # Law.floor
    BY <2>1, AboveFloor
  <2> HIDE DEF root
  <2> QED BY <1>4, <2>1, <2>2, <2>3, <2>4, BoundaryEnd, FoundEnd
<1>5. CASE OpenBracket
  <2>1. UNCHANGED <<request, roots>> /\ (stage' = stage \/ stage' = "raised") /\ Searching
    BY <1>5 DEF OpenBracket, Raise
  <2> QED BY <2>1 DEF EndInv, Searching, Law
<1>6. CASE Bisect
  <2>1. UNCHANGED <<request, roots>> /\ (stage' = stage \/ stage' = "raised") /\ Searching
    BY <1>6 DEF Bisect, Raise
  <2> QED BY <2>1 DEF EndInv, Searching, Law
<1>7. CASE CloseBracket
  <2> DEFINE m == (bracket.lower + bracket.upper) \div 2
             root == [status |-> "BISECTION", lower |-> bracket.lower, upper |-> bracket.upper,
                      root |-> m, residual |-> Magnitude(Residual(m))]
  <2>1. /\ Searching /\ bracket # Nothing /\ BracketWidth(bracket) =< RootAtol
        /\ HasResolved(Law)
    BY <1>7 DEF CloseBracket, SearchInv
  <2>2. CASE Magnitude(Residual(m)) > IdentityInformation
    <3>1. stage' = "raised"
      BY <1>7, <2>2 DEF CloseBracket, Raise
    <3> QED BY <3>1 DEF EndInv, Searching
  <2>3. CASE ~(Magnitude(Residual(m)) > IdentityInformation)
    <3>1. Found(root)
      BY <1>7, <2>3 DEF CloseBracket
    <3>2. /\ bracket.lower \in Int /\ bracket.upper \in Int /\ bracket.lower =< bracket.upper
          /\ bracket.lower \in 0..Law.unresolved /\ bracket.upper \in 0..Law.unresolved
          /\ Law.unresolved \in Nat
      BY <2>1, BottomInside DEF SearchInv, Branch
    <3>3. m \in 0..Law.unresolved
      BY <3>2, MiddleInside
    <3>4. Magnitude(Residual(m)) \in Int /\ m \in Int
      BY <2>1, <3>3, ResidualIsInt DEF Magnitude
    <3>5. root \in RootRecord
      BY <3>2, <3>4 DEF RootRecord
    <3>6. root.root = m /\ root.residual = Magnitude(Residual(m)) /\ BracketWidth(root) = BracketWidth(bracket)
      BY DEF BracketWidth
    <3>7. RootFits(root)
      BY <2>1, <2>3, <3>4, <3>6, SolverAssumption DEF RootFits
    <3>8. /\ stage = "lower" => LowerEnd(Law, request.rho, m)
          /\ stage = "upper" => UpperEnd(Law, request.rho, m)
      BY <2>1, AboveFloor, BracketEnd
    <3> HIDE DEF root, m
    <3> QED BY <2>1, <3>1, <3>5, <3>6, <3>7, <3>8, FoundEnd
  <2> QED BY <2>2, <2>3
<1>8. CASE UNCHANGED solverVars
  BY <1>8 DEF solverVars, EndInv, Searching, Law, Given
<1> QED BY <1>1, <1>2, <1>3, <1>4, <1>5, <1>6, <1>7, <1>8 DEF Solve

-----------------------------------------------------------------------------
(* The invariant of an experiment                                          *)

\* The call an answer is for.
Asked(i) == Calls(experiment)[i]

\* Every answer kept is that of its call and true of it; the call in progress is the last one
\* asked, and the solver keeps its own invariant and the ends of its request.
PopulationInv ==
  /\ experiment \in Experiments /\ asked \in 0..Len(Calls(experiment))
  /\ answers \in Seq(AnswerRecord)
  /\ \A i \in 1..Len(answers) :
       /\ AnswerTrue(answers[i])
       /\ answers[i].population = Asked(i).population /\ answers[i].rho = Asked(i).rho
  /\ stage = "idle" => asked = 0 /\ Len(answers) = 0
  /\ stage = "concluded" => Len(answers) = asked /\ asked = Len(Calls(experiment))
  /\ stage \notin {"idle", "concluded"} =>
       /\ asked >= 1 /\ Len(answers) = asked - 1
       /\ request.population = Asked(asked).population /\ request.rho = Asked(asked).rho
  /\ stage # "concluded" => SolverInv /\ EndInv

\* The calls of an experiment of the study are a sequence of summaries and budgets.
LEMMA CallsTyped ==
  ASSUME NEW e \in Experiments
  PROVE  /\ Len(Calls(e)) \in Nat /\ e.population \in Populations
         /\ \A i \in 1..Len(Calls(e)) : Calls(e)[i].population \in Populations /\ Calls(e)[i].rho \in Nat
<1>1. Calls(e) \in Seq([population : Populations, rho : Nat]) /\ e.population \in Populations
  BY ExperimentsAssumption
<1>2. PICK s : s = Calls(e)
  OBVIOUS
<1>3. s \in Seq([population : Populations, rho : Nat])
  BY <1>1, <1>2
<1> DEFINE R == [population : Populations, rho : Nat]
<1>4. Len(s) \in Nat /\ \A i \in 1..Len(s) : s[i] \in R
  <2> HIDE DEF R
  <2>1. s \in Seq(R)
    BY <1>3 DEF R
  <2> QED BY <2>1
<1>5. \A c \in R : c.population \in Populations /\ c.rho \in Nat
  OBVIOUS
<1> HIDE DEF R
<1>6. \A i \in 1..Len(s) : s[i].population \in Populations /\ s[i].rho \in Nat
  BY <1>4, <1>5
<1> QED BY <1>1, <1>2, <1>4, <1>6, Zenon

\* An experiment starts with nothing asked and nothing answered.
LEMMA InitPopulation == ExperimentInit => PopulationInv
<1> SUFFICES ASSUME ExperimentInit PROVE PopulationInv
  OBVIOUS
<1>1. experiment.population \in Populations /\ Len(Calls(experiment)) \in Nat
  BY CallsTyped DEF ExperimentInit
<1>2. PICK r : r = CHOOSE x \in Roundings : TRUE
  OBVIOUS
<1>3. request = [population |-> experiment.population, rho |-> 0, rounding |-> r]
  BY <1>2 DEF ExperimentInit
<1>4. r \in Roundings
  BY <1>2, SolverAssumption
<1>5. request \in Request
  BY <1>1, <1>3, <1>4 DEF Request
<1>6. SolverInv /\ EndInv
  BY <1>5 DEF ExperimentInit, SolverInv, SolverTypeOK, SearchInv, SharpInv, Searching, LowerSharp,
         UpperSharp, Searched, NoRoot, Nothing, None, RootRecord, EndInv
<1>7. answers \in Seq(AnswerRecord) /\ Len(answers) = 0
  BY DEF ExperimentInit
<1> QED BY <1>1, <1>6, <1>7 DEF ExperimentInit, PopulationInv

\* What was given is a record of an answer.
LEMMA GivenTyped ==
  ASSUME SolverInv, EndInv, stage = "answered"
  PROVE  Given \in AnswerRecord /\ AnswerTrue(Given)
<1>1. request \in Request /\ roots \in [lower : RootRecord, upper : RootRecord]
  BY DEF SolverInv, SolverTypeOK
<1>2. answer \in [lower : Int, upper : Int] /\ AnswerTrue(Given)
  BY DEF EndInv
<1> QED BY <1>1, <1>2 DEF Given, AnswerRecord, Request

\* One answer more.
LEMMA AnswerAppended ==
  ASSUME PopulationInv, stage = "answered", answers' = Append(answers, Given), UNCHANGED experiment
  PROVE  /\ answers' \in Seq(AnswerRecord) /\ Len(answers') = asked
         /\ \A i \in 1..Len(answers') :
              /\ AnswerTrue(answers'[i])
              /\ answers'[i].population = Asked(i).population /\ answers'[i].rho = Asked(i).rho
<1>1. Given \in AnswerRecord /\ AnswerTrue(Given)
  BY GivenTyped DEF PopulationInv
<1>2. /\ answers \in Seq(AnswerRecord) /\ asked \in Nat /\ Len(answers) = asked - 1
      /\ Given.population = Asked(asked).population /\ Given.rho = Asked(asked).rho
  BY CallsTyped DEF PopulationInv, Given
<1>3. PICK g : g = Given
  OBVIOUS
<1>4. /\ answers' \in Seq(AnswerRecord) /\ Len(answers') = asked
      /\ \A i \in 1..Len(answers') : answers'[i] = IF i = asked THEN g ELSE answers[i]
  BY <1>1, <1>2, <1>3
<1>5. ASSUME NEW i \in 1..Len(answers')
      PROVE  /\ AnswerTrue(answers'[i])
             /\ answers'[i].population = Asked(i).population /\ answers'[i].rho = Asked(i).rho
  <2>1. CASE i = asked
    BY <1>1, <1>2, <1>3, <1>4, <2>1, Zenon
  <2>2. CASE i # asked
    <3>1. i \in 1..Len(answers) /\ answers'[i] = answers[i]
      BY <1>2, <1>4, <2>2
    <3> QED BY <3>1 DEF PopulationInv
  <2> QED BY <2>1, <2>2
<1> QED BY <1>4, <1>5

\* Every step of an experiment keeps its invariant: the next call, a step of the solver, and
\* the conclusion.
LEMMA StepPopulation ==
  ASSUME PopulationInv, [ExperimentNext]_<<solverVars, experimentVars>>
  PROVE  PopulationInv'
<1>1. ASSUME [Ask \/ Solve]_solverVars, stage # "concluded" PROVE (SolverInv /\ EndInv)'
  BY <1>1, TypesKept, SearchKept, SharpKept, EndKept DEF SolverInv, PopulationInv
<1>2. CASE AskNext
  <2> DEFINE call == Calls(experiment)[asked + 1]
  <2>1. /\ asked < Len(Calls(experiment)) /\ Ask /\ asked' = asked + 1 /\ UNCHANGED experiment
        /\ stage \in {"idle", "answered"} /\ stage' = "assess"
        /\ request'.population = call.population /\ request'.rho = call.rho
    BY <1>2 DEF AskNext, Remaining, Ask
  <2>2. (SolverInv /\ EndInv)'
    BY <1>1, <2>1
  <2>3. Len(Calls(experiment)) \in Nat /\ asked \in Nat /\ experiment \in Experiments
    BY CallsTyped DEF PopulationInv
  <2>4. /\ answers' \in Seq(AnswerRecord) /\ Len(answers') = asked
        /\ \A i \in 1..Len(answers') :
             /\ AnswerTrue(answers'[i])
             /\ answers'[i].population = Asked(i).population /\ answers'[i].rho = Asked(i).rho
    <3>1. CASE stage = "answered"
      <4>1. answers' = Append(answers, Given)
        BY <1>2, <3>1 DEF AskNext
      <4> QED BY <2>1, <3>1, <4>1, AnswerAppended
    <3>2. CASE stage = "idle"
      BY <1>2, <3>2 DEF AskNext, PopulationInv
    <3> QED BY <2>1, <3>1, <3>2
  <2> HIDE DEF call
  <2>5. call = Asked(asked)' /\ \A i : Asked(i)' = Asked(i)
    BY <2>1 DEF call, Asked
  <2>6. PICK n : n = Len(Calls(experiment))
    OBVIOUS
  <2>7. asked' \in 0..n /\ asked' >= 1 /\ Len(answers') = asked' - 1
    BY <2>1, <2>3, <2>4, <2>6
  <2>8. asked' \in 0..Len(Calls(experiment'))
    BY <2>1, <2>6, <2>7, Zenon
  <2>9. request'.population = Asked(asked)'.population /\ request'.rho = Asked(asked)'.rho
    BY <2>1, <2>5, Zenon
  <2> QED BY <2>1, <2>2, <2>3, <2>4, <2>5, <2>7, <2>8, <2>9 DEF PopulationInv
<1>3. CASE Solve /\ UNCHANGED experimentVars
  <2>1. UNCHANGED <<experiment, asked, answers, request>>
    BY <1>3 DEF experimentVars, Solve, AssessDegenerate, Assess, BoundaryIsRoot, OpenBracket, Bisect,
                CloseBracket, Found, Answer, Raise
  <2>2. stage \notin {"idle", "concluded"} /\ stage' \notin {"idle", "concluded"}
    BY <1>3 DEF Solve, AssessDegenerate, Assess, BoundaryIsRoot, OpenBracket, Bisect,
                CloseBracket, Found, Answer, Raise, Searching
  <2>3. (SolverInv /\ EndInv)'
    BY <1>1, <1>3, <2>2
  <2> QED BY <2>1, <2>2, <2>3 DEF PopulationInv, Asked
<1>4. CASE Conclude
  <2>1. /\ ~(asked < Len(Calls(experiment))) /\ stage = "answered" /\ stage' = "concluded"
        /\ answers' = Append(answers, Given) /\ UNCHANGED <<experiment, asked>>
    BY <1>4 DEF Conclude, Remaining
  <2>2. /\ answers' \in Seq(AnswerRecord) /\ Len(answers') = asked
        /\ \A i \in 1..Len(answers') :
             /\ AnswerTrue(answers'[i])
             /\ answers'[i].population = Asked(i).population /\ answers'[i].rho = Asked(i).rho
    BY <2>1, AnswerAppended
  <2>3. asked = Len(Calls(experiment)) /\ experiment \in Experiments /\ asked \in 0..Len(Calls(experiment))
    BY <2>1, CallsTyped DEF PopulationInv
  <2> QED BY <2>1, <2>2, <2>3 DEF PopulationInv, Asked
<1>5. CASE UNCHANGED <<solverVars, experimentVars>>
  <2>1. UNCHANGED <<experiment, asked, answers, stage, request>> /\ UNCHANGED solverVars
    BY <1>5 DEF solverVars, experimentVars
  <2>2. stage # "concluded" => (SolverInv /\ EndInv)'
    BY <1>1, <2>1
  <2> QED BY <2>1, <2>2 DEF PopulationInv, Asked
<1> QED BY <1>2, <1>3, <1>4, <1>5 DEF ExperimentNext

\* The invariant holds in every behaviour of an experiment.
LEMMA PopulationInvHolds == ExperimentSpec => []PopulationInv
  BY InitPopulation, StepPopulation, PTL DEF ExperimentSpec

-----------------------------------------------------------------------------
(* What an answer contains                                                 *)

\* What is known of every answer so far.
LEMMA AnswersKnown ==
  ASSUME PopulationInv, NEW i \in DOMAIN answers
  PROVE  /\ answers[i] \in AnswerRecord /\ AnswerTrue(answers[i])
         /\ answers[i].population = Calls(experiment)[i].population
         /\ answers[i].rho = Calls(experiment)[i].rho
         /\ AtHorizon(experiment, i) \/ CrossingIsSharp(answers[i].population, answers[i].rho)
<1>1. experiment \in Experiments /\ asked \in 0..Len(Calls(experiment)) /\ answers \in Seq(AnswerRecord)
  BY DEF PopulationInv
<1> DEFINE R == AnswerRecord
           S == [population : Populations, rho : Nat]
<1>2. Len(answers) \in Nat /\ i \in 1..Len(answers) /\ answers[i] \in R
  <2> HIDE DEF R
  <2>1. answers \in Seq(R)
    BY <1>1 DEF R
  <2> QED BY <2>1
<1>3. /\ AnswerTrue(answers[i])
      /\ answers[i].population = Calls(experiment)[i].population
      /\ answers[i].rho = Calls(experiment)[i].rho
  BY <1>2 DEF PopulationInv, Asked
<1>4. DOMAIN Calls(experiment) = 1..Len(Calls(experiment)) /\ Len(Calls(experiment)) \in Nat
  <2>1. Calls(experiment) \in Seq(S)
    BY <1>1, ExperimentsAssumption
  <2> HIDE DEF S
  <2>2. PICK c : c = Calls(experiment)
    OBVIOUS
  <2>3. DOMAIN c = 1..Len(c) /\ Len(c) \in Nat
    BY <2>1, <2>2
  <2> QED BY <2>2, <2>3
<1>5. i \in DOMAIN Calls(experiment)
  <2>1. PICK n, m : n = Len(answers) /\ m = Len(Calls(experiment))
    OBVIOUS
  <2>2. /\ n \in Nat /\ m \in Nat /\ asked \in 0..m
        /\ n = asked \/ n = asked - 1
    BY <1>1, <1>2, <1>4, <2>1 DEF PopulationInv
  <2> QED BY <1>2, <1>4, <2>1, <2>2
<1>6. AtHorizon(experiment, i) \/ CrossingIsSharp(Calls(experiment)[i].population, Calls(experiment)[i].rho)
  BY <1>1, <1>5, CrossingAssumption, Zenon
<1>7. AtHorizon(experiment, i) \/ CrossingIsSharp(answers[i].population, answers[i].rho)
  BY <1>3, <1>6, Zenon
<1> QED BY <1>2, <1>3, <1>7

\* The answers of a concluded experiment are those of its calls.
LEMMA ConcludedAnswers ==
  ASSUME PopulationInv, stage = "concluded"
  PROVE  /\ Len(answers) = Len(Calls(experiment)) /\ Len(answers) \in Nat /\ experiment \in Experiments
         /\ \A i \in 1..Len(Calls(experiment)) :
              /\ answers[i] \in AnswerRecord /\ AnswerTrue(answers[i])
              /\ answers[i].population = Calls(experiment)[i].population
              /\ answers[i].rho = Calls(experiment)[i].rho
              /\ experiment.kind = "TRAJECTORY" \/ CrossingIsSharp(answers[i].population, answers[i].rho)
<1>1. /\ experiment \in Experiments /\ answers \in Seq(AnswerRecord)
      /\ Len(answers) = Len(Calls(experiment))
  BY DEF PopulationInv
<1> DEFINE R == AnswerRecord
<1>2. Len(answers) \in Nat /\ DOMAIN answers = 1..Len(answers)
  <2> HIDE DEF R
  <2>1. answers \in Seq(R)
    BY <1>1 DEF R
  <2> QED BY <2>1
<1> QED BY <1>1, <1>2, AnswersKnown DEF AtHorizon

\* The interval of an answer, by what its summary and its budget are.
LEMMA IntervalCases ==
  ASSUME NEW a \in AnswerRecord, AnswerTrue(a)
  PROVE  /\ a.population \in Populations /\ a.rho \in Nat
         /\ a.interval.lower \in Int /\ a.interval.upper \in Int
         /\ ~HasResolved(a.population) =>
              HasInterval(a) /\ a.interval.lower = 0 /\ a.interval.upper = a.population.unresolved
         /\ HasResolved(a.population) /\ a.rho < a.population.floor => ~HasInterval(a)
         /\ HasResolved(a.population) /\ ~(a.rho < a.population.floor) =>
              /\ HasInterval(a)
              /\ LowerEnd(a.population, a.rho, a.interval.lower)
              /\ UpperEnd(a.population, a.rho, a.interval.upper)
<1>1. /\ a.population \in Populations /\ a.rho \in Nat
      /\ a.interval \in [lower : Int, upper : Int]
  BY DEF AnswerRecord
<1>2. a.interval.lower \in Nat => HasInterval(a)
  BY DEF HasInterval, Nothing, None
<1>3. CASE ~HasResolved(a.population)
  <2>1. a.interval = [lower |-> 0, upper |-> a.population.unresolved]
    BY <1>3 DEF AnswerTrue
  <2> QED BY <1>1, <1>2, <1>3, <2>1
<1>4. CASE HasResolved(a.population) /\ a.rho < a.population.floor
  BY <1>1, <1>4 DEF AnswerTrue, HasInterval
<1>5. CASE HasResolved(a.population) /\ ~(a.rho < a.population.floor)
  <2>1. /\ LowerEnd(a.population, a.rho, a.interval.lower)
        /\ UpperEnd(a.population, a.rho, a.interval.upper)
    BY <1>5 DEF AnswerTrue
  <2>2. a.interval.lower \in 0..Dagger(a.population) /\ Dagger(a.population) \in 0..a.population.unresolved
    BY <1>1, <1>5, <2>1, MassFacts DEF LowerEnd
  <2> QED BY <1>1, <1>2, <1>5, <2>1, <2>2
<1> QED BY <1>3, <1>4, <1>5

\* Both ends are hidden masses of the summary, on either side of its point of minimum information.
LEMMA EndsInside ==
  ASSUME NEW a \in AnswerRecord, AnswerTrue(a), HasInterval(a)
  PROVE  /\ a.interval.lower \in 0..a.population.unresolved
         /\ a.interval.upper \in a.interval.lower..a.population.unresolved
         /\ HasResolved(a.population) => a.interval.lower =< Dagger(a.population) /\ Dagger(a.population) =< a.interval.upper
<1>1. a.population \in Populations
  BY IntervalCases
<1>2. a.population.unresolved \in Nat
  BY <1>1, MassFacts
<1>3. CASE ~HasResolved(a.population)
  BY <1>2, <1>3, IntervalCases
<1>4. CASE HasResolved(a.population)
  <2>1. /\ LowerEnd(a.population, a.rho, a.interval.lower)
        /\ UpperEnd(a.population, a.rho, a.interval.upper)
    BY <1>4, IntervalCases
  <2>2. /\ a.interval.lower \in 0..Dagger(a.population)
        /\ a.interval.upper \in Dagger(a.population)..a.population.unresolved
    BY <2>1 DEF LowerEnd, UpperEnd
  <2>3. Dagger(a.population) \in 0..a.population.unresolved
    BY <1>1, <1>4, MassFacts
  <2> QED BY <1>2, <2>2, <2>3
<1> QED BY <1>3, <1>4

\* An answer contains every true mass its budget allows; at the floor there is only one.
LEMMA AnswerContains ==
  ASSUME NEW a \in AnswerRecord, AnswerTrue(a), CrossingIsSharp(a.population, a.rho),
         NEW t \in 0..a.population.unresolved, NEW s \in Slack,
         HasResolved(a.population) =>
           /\ Information(a.population, t) + s =< a.rho /\ a.population.floor =< a.rho
           /\ a.rho = a.population.floor => Magnitude(t - Dagger(a.population)) =< IdentityMass
  PROVE  Contains(a, a.population.harmful + t)
<1>1. PICK p, x, y : p = a.population /\ x = a.interval.lower /\ y = a.interval.upper
  OBVIOUS
<1>2. /\ p \in Populations /\ a.rho \in Nat /\ x \in Int /\ y \in Int
      /\ p.harmful \in Nat /\ p.unresolved \in Nat /\ p.floor \in Nat
      /\ IdentityMass \in Nat /\ t \in Nat /\ t =< p.unresolved
  BY <1>1, IntervalCases, MassFacts, ToleranceAssumption
<1>3. /\ RiskLower(a) = p.harmful + x /\ RiskUpper(a) = p.harmful + y
  BY <1>1 DEF RiskLower, RiskUpper
<1>4. HasInterval(a) /\ x - t =< IdentityMass /\ t - y =< IdentityMass
  <2>1. CASE ~HasResolved(p)
    <3>1. HasInterval(a) /\ x = 0 /\ y = p.unresolved
      BY <1>1, <2>1, IntervalCases
    <3> QED BY <1>2, <3>1
  <2>2. CASE HasResolved(p)
    <3>1. ~(a.rho < p.floor)
      BY <1>1, <1>2, <2>2
    <3>2. HasInterval(a) /\ LowerEnd(p, a.rho, x) /\ UpperEnd(p, a.rho, y)
      BY <1>1, <2>2, <3>1, IntervalCases
    <3>3. CASE a.rho = p.floor
      <4>1. x = Dagger(p) /\ y = Dagger(p) /\ Magnitude(t - Dagger(p)) =< IdentityMass
        BY <1>1, <2>2, <3>2, <3>3 DEF LowerEnd, UpperEnd
      <4> QED BY <1>2, <3>2, <4>1 DEF Magnitude
    <3>4. CASE p.floor < a.rho
      <4>1. 2 * (x - t) =< IdentityMass /\ 2 * (t - y) =< IdentityMass
        BY <1>1, <1>2, <2>2, <3>2, <3>4, IntervalContains
      <4> QED BY <1>2, <3>2, <4>1
    <3> QED BY <1>2, <3>1, <3>3, <3>4
  <2> QED BY <2>1, <2>2
<1> QED BY <1>1, <1>2, <1>3, <1>4 DEF Contains

\* The last element of a sequence that one element was appended to.
LEMMA LastAppended ==
  ASSUME NEW S, NEW q \in Seq(S), NEW x \in S
  PROVE  Len(q) \in Nat /\ Len(q \o <<x>>) = Len(q) + 1 /\ (q \o <<x>>)[Len(q) + 1] = x
OBVIOUS

\* The last call of a trajectory is at the information of its horizon.
LEMMA TrajectoryLast ==
  ASSUME NEW e \in Experiments, e.kind = "TRAJECTORY"
  PROVE  /\ Len(Calls(e)) \in Nat \ {0}
         /\ Calls(e)[Len(Calls(e))].population = e.population
         /\ Calls(e)[Len(Calls(e))].rho = HorizonInformation(e)
<1> DEFINE p == e.population
           c == Call(p, HorizonInformation(e))
<1>1. Calls(e) = TrajectoryCalls(e)
  BY DEF Calls
<1>2. PICK f : f = Call(p, e.rho)
  OBVIOUS
<1>3. PICK g : g = Call(p, TauOrZero(p) + SharpnessOffset)
  OBVIOUS
<1>4. PICK h : h = Call(p, Tau(p))
  OBVIOUS
<1>5. PICK d : d = c
  OBVIOUS
<1>6. Calls(e) = <<f, g>> \o (IF HasResolved(p) THEN <<h>> ELSE <<>>) \o <<d>>
  BY <1>1, <1>2, <1>3, <1>4, <1>5, Zenon DEF TrajectoryCalls
<1>7. PICK u : u = <<f, g>> \o (IF HasResolved(p) THEN <<h>> ELSE <<>>)
  OBVIOUS
<1>8. u \in Seq({f, g, h, d})
  <2>1. <<f, g>> \in Seq({f, g, h, d}) /\ <<h>> \in Seq({f, g, h, d}) /\ <<>> \in Seq({f, g, h, d})
    OBVIOUS
  <2>2. \A x, y \in Seq({f, g, h, d}) : x \o y \in Seq({f, g, h, d})
    OBVIOUS
  <2> QED BY <1>7, <2>1, <2>2
<1>9. Calls(e) = u \o <<d>>
  BY <1>6, <1>7, Zenon
<1>10. Len(Calls(e)) = Len(u) + 1 /\ Len(u) \in Nat /\ Calls(e)[Len(u) + 1] = d
  BY <1>8, <1>9, LastAppended
<1> QED BY <1>5, <1>10 DEF Call

\* A mass below the lower end that shows as within the budget is not told from a mass at it.
LEMMA IndistinctBelow ==
  ASSUME NEW p \in Populations, HasResolved(p), NEW rho \in Nat, NEW x, LowerEnd(p, rho, x),
         NEW t \in 0..p.unresolved, t < x, NEW r \in Roundings, Information(p, t) + r =< rho
  PROVE  \E u \in 0..p.unresolved :
           /\ Magnitude(u - x) =< RootAtol
           /\ Magnitude(Information(p, t) - Information(p, u)) =< 2 * ComparisonGuard
<1>1. /\ Dagger(p) \in 0..p.unresolved /\ p.unresolved \in Nat /\ p.floor \in Nat
      /\ \A u \in 0..p.unresolved : Excess(p, u) \in Nat /\ Information(p, u) = Excess(p, u) + p.floor
  BY MassFacts
<1>2. x \in 0..Dagger(p) /\ x # 0 /\ RootAtol \in Nat \ {0} /\ ComparisonGuard \in Nat
  BY <1>1, HalfMass, ToleranceAssumption DEF LowerEnd
<1>3. PICK u \in 0..Dagger(p), s \in Slack :
        u =< x /\ 2 * (x - u) =< RootAtol /\ rho =< Information(p, u) + s
  BY <1>2 DEF LowerEnd
<1>4. u \in 0..p.unresolved /\ Magnitude(u - x) =< RootAtol
  BY <1>1, <1>2, <1>3 DEF Magnitude
<1>5. /\ r \in Int /\ -ComparisonGuard =< r /\ s \in Int /\ s =< ComparisonGuard
  BY <1>2, SlackBounds, SlackIsInt
<1>6. CASE t =< u
  <2>1. Excess(p, u) =< Excess(p, t)
    <3>1. CASE t = u
      BY <1>1, <1>4, <3>1
    <3>2. CASE t < u
      BY <1>1, <1>3, <1>4, <3>2, ProfileAssumption
    <3> QED BY <1>1, <1>4, <1>6, <3>1, <3>2
  <2>2. PICK k, l : k = Information(p, t) /\ l = Information(p, u)
    OBVIOUS
  <2>3. k \in Int /\ l \in Int /\ l =< k /\ k + r =< rho /\ rho =< l + s
    BY <1>1, <1>3, <1>4, <2>1, <2>2
  <2>4. Magnitude(k - l) =< 2 * ComparisonGuard
    BY <1>2, <1>5, <2>3 DEF Magnitude
  <2> QED BY <1>4, <2>2, <2>4
<1>7. CASE u < t
  <2>1. Magnitude(t - x) =< RootAtol
    BY <1>1, <1>2, <1>3, <1>7 DEF Magnitude
  <2>2. Magnitude(Information(p, t) - Information(p, t)) =< 2 * ComparisonGuard
    BY <1>1, <1>2 DEF Magnitude
  <2> QED BY <2>1, <2>2
<1> QED BY <1>1, <1>4, <1>6, <1>7

\* The same above the upper end.
LEMMA IndistinctAbove ==
  ASSUME NEW p \in Populations, HasResolved(p), NEW rho \in Nat, NEW x, UpperEnd(p, rho, x),
         NEW t \in 0..p.unresolved, x < t, NEW r \in Roundings, Information(p, t) + r =< rho
  PROVE  \E u \in 0..p.unresolved :
           /\ Magnitude(u - x) =< RootAtol
           /\ Magnitude(Information(p, t) - Information(p, u)) =< 2 * ComparisonGuard
<1>1. /\ Dagger(p) \in 0..p.unresolved /\ p.unresolved \in Nat /\ p.floor \in Nat
      /\ \A u \in 0..p.unresolved : Excess(p, u) \in Nat /\ Information(p, u) = Excess(p, u) + p.floor
  BY MassFacts
<1>2. x \in Dagger(p)..p.unresolved /\ x # p.unresolved /\ RootAtol \in Nat \ {0} /\ ComparisonGuard \in Nat
  BY <1>1, HalfMass, ToleranceAssumption DEF UpperEnd
<1>3. PICK u \in Dagger(p)..p.unresolved, s \in Slack :
        x =< u /\ 2 * (u - x) =< RootAtol + 1 /\ rho =< Information(p, u) + s
  BY <1>2 DEF UpperEnd
<1>4. u \in 0..p.unresolved /\ Magnitude(u - x) =< RootAtol
  BY <1>1, <1>2, <1>3 DEF Magnitude
<1>5. /\ r \in Int /\ -ComparisonGuard =< r /\ s \in Int /\ s =< ComparisonGuard
  BY <1>2, SlackBounds, SlackIsInt
<1>6. CASE u =< t
  <2>1. Excess(p, u) =< Excess(p, t)
    <3>1. CASE t = u
      BY <1>1, <1>4, <3>1
    <3>2. CASE u < t
      BY <1>1, <1>3, <1>4, <3>2, ProfileAssumption
    <3> QED BY <1>1, <1>4, <1>6, <3>1, <3>2
  <2>2. PICK k, l : k = Information(p, t) /\ l = Information(p, u)
    OBVIOUS
  <2>3. k \in Int /\ l \in Int /\ l =< k /\ k + r =< rho /\ rho =< l + s
    BY <1>1, <1>3, <1>4, <2>1, <2>2
  <2>4. Magnitude(k - l) =< 2 * ComparisonGuard
    BY <1>2, <1>5, <2>3 DEF Magnitude
  <2> QED BY <1>4, <2>2, <2>4
<1>7. CASE t < u
  <2>1. Magnitude(t - x) =< RootAtol
    BY <1>1, <1>2, <1>3, <1>7 DEF Magnitude
  <2>2. Magnitude(Information(p, t) - Information(p, t)) =< 2 * ComparisonGuard
    BY <1>1, <1>2 DEF Magnitude
  <2> QED BY <2>1, <2>2
<1> QED BY <1>1, <1>4, <1>6, <1>7

\* The budget of the horizon is not below what rounding makes of the information of the truth.
LEMMA HorizonAllows ==
  ASSUME NEW e \in Experiments, e.kind = "TRAJECTORY", HasResolved(e.population)
  PROVE  /\ Information(e.population, e.truth) + e.rounding =< HorizonInformation(e)
         /\ e.population.floor =< HorizonInformation(e)
<1>1. PICK p, t, s : p = e.population /\ t = e.truth /\ s = e.rounding
  OBVIOUS
<1>2. p \in Populations /\ t \in 0..p.unresolved /\ s \in Roundings
  BY <1>1, ExperimentsAssumption
<1>3. PICK k : k = Information(p, t) + s
  OBVIOUS
<1>4. k \in Int /\ p.floor \in Nat
  <2>1. Information(p, t) \in Int /\ p.floor \in Nat
    BY <1>1, <1>2, MassFacts
  <2>2. s \in Int
    BY <1>2, SolverAssumption
  <2> QED BY <1>3, <2>1, <2>2
<1>5. HorizonInformation(e) = IF k < p.floor THEN p.floor ELSE k
  BY <1>1, <1>3 DEF HorizonInformation, Tau
<1> QED BY <1>1, <1>3, <1>4, <1>5

\* A concluded trajectory at the information of its horizon.
LEMMA DiagnosticContains == PopulationInv => DiagnosticContainsTruth
<1> SUFFICES ASSUME PopulationInv, stage = "concluded", experiment.kind = "TRAJECTORY"
             PROVE  LET p == experiment.population
                        ends == {Last.interval.lower, Last.interval.upper}
                        indistinct(u) == Magnitude(Information(p, experiment.truth) - Information(p, u))
                                           =< 2 * ComparisonGuard
                    IN /\ HasInterval(Last)
                       /\ \/ Contains(Last, p.harmful + experiment.truth)
                          \/ /\ HasResolved(p)
                             /\ \E u \in 0..p.unresolved, x \in ends :
                                  Magnitude(u - x) =< RootAtol /\ indistinct(u)
  BY DEF DiagnosticContainsTruth, Concluded
<1>1. PICK n : n = Len(Calls(experiment))
  OBVIOUS
<1>2. PICK p, t, r : p = experiment.population /\ t = experiment.truth /\ r = experiment.rounding
  OBVIOUS
<1>3. experiment \in Experiments /\ Len(answers) = n /\ n \in Nat \ {0}
  BY <1>1, ConcludedAnswers, TrajectoryLast
<1>4. Calls(experiment)[n].population = p /\ Calls(experiment)[n].rho = HorizonInformation(experiment)
  BY <1>1, <1>2, <1>3, TrajectoryLast
<1>5. PICK a : a = Last
  OBVIOUS
<1>6. a \in AnswerRecord /\ AnswerTrue(a) /\ a.population = p /\ a.rho = HorizonInformation(experiment)
  <2>1. a = answers[n]
    BY <1>3, <1>5 DEF Last
  <2> QED BY <1>1, <1>3, <1>4, <2>1, ConcludedAnswers
<1>7. /\ p \in Populations /\ t \in 0..p.unresolved /\ r \in Roundings
      /\ p.harmful \in Nat /\ p.unresolved \in Nat /\ p.floor \in Nat /\ a.rho \in Nat
      /\ IdentityMass \in Nat
  <2>1. p \in Populations /\ t \in 0..p.unresolved /\ r \in Roundings
    BY <1>2, <1>3, ExperimentsAssumption
  <2> QED BY <1>6, <2>1, MassFacts, IntervalCases, ToleranceAssumption
<1>8. PICK x, y : x = a.interval.lower /\ y = a.interval.upper
  OBVIOUS
<1>9. x \in Int /\ y \in Int /\ RiskLower(a) = p.harmful + x /\ RiskUpper(a) = p.harmful + y
  BY <1>6, <1>8, IntervalCases DEF RiskLower, RiskUpper
<1>10. CASE ~HasResolved(p)
  <2>1. HasInterval(a) /\ x = 0 /\ y = p.unresolved
    BY <1>6, <1>8, <1>10, IntervalCases
  <2>2. Contains(a, p.harmful + t)
    BY <1>7, <1>9, <2>1 DEF Contains
  <2> QED BY <1>2, <1>5, <2>1, <2>2
<1>11. CASE HasResolved(p)
  <2>1. Information(p, t) + r =< a.rho /\ p.floor =< a.rho
    BY <1>2, <1>3, <1>6, <1>11, HorizonAllows
  <2>2. HasInterval(a) /\ LowerEnd(p, a.rho, x) /\ UpperEnd(p, a.rho, y)
    <3>1. ~(a.rho < p.floor)
      BY <1>7, <2>1
    <3> QED BY <1>6, <1>8, <1>11, <3>1, IntervalCases
  <2> DEFINE missed == \E u \in 0..p.unresolved, z \in {x, y} :
                         /\ Magnitude(u - z) =< RootAtol
                         /\ Magnitude(Information(p, t) - Information(p, u)) =< 2 * ComparisonGuard
  <2>3. CASE t < x
    <3>1. missed
      BY <1>7, <1>11, <2>1, <2>2, <2>3, IndistinctBelow
    <3> QED BY <1>2, <1>5, <1>8, <1>11, <2>2, <3>1
  <2>4. CASE y < t
    <3>1. missed
      BY <1>7, <1>11, <2>1, <2>2, <2>4, IndistinctAbove
    <3> QED BY <1>2, <1>5, <1>8, <1>11, <2>2, <3>1
  <2>5. CASE x =< t /\ t =< y
    <3>1. Contains(a, p.harmful + t)
      BY <1>7, <1>9, <2>2, <2>5 DEF Contains
    <3> QED BY <1>2, <1>5, <2>2, <3>1
  <2> QED BY <1>7, <1>9, <2>3, <2>4, <2>5
<1> QED BY <1>10, <1>11

\* At the information its own horizon has, a real cell always has an interval, and the interval
\* contains the true risk of its cohort up to identity_atol or ends, up to root_atol, on a mass
\* whose information is that of the truth up to the guard of the two evaluations: however flat
\* the profile is there, and whatever the rounding of the horizon information and of the solver
\* (_horizon_information, evaluate_real_trajectory_cell, _contains).
THEOREM TruthAtHorizon == ExperimentSpec => []DiagnosticContainsTruth
  BY PopulationInvHolds, DiagnosticContains, PTL

-----------------------------------------------------------------------------
(* Finer timing                                                            *)

\* Two answers to the same budget, the second about the same masses with a lower floor: up to
\* identity_atol the second interval contains the first.
LEMMA LowerFloorContains ==
  ASSUME NEW a \in AnswerRecord, AnswerTrue(a), NEW b \in AnswerRecord, AnswerTrue(b), a.rho = b.rho,
         CrossingIsSharp(b.population, b.rho), SameMasses(a.population, b.population),
         HasResolved(a.population) => b.population.floor =< a.population.floor
  PROVE  /\ HasInterval(a) => HasInterval(b)
         /\ HasInterval(a) => /\ RiskLower(a) + IdentityMass >= RiskLower(b)
                              /\ RiskUpper(a) =< RiskUpper(b) + IdentityMass
                              /\ BracketWidth(b.interval) - BracketWidth(a.interval) >= -IdentityMass
<1>1. PICK p : p = a.population
  OBVIOUS
<1>2. PICK q : q = b.population
  OBVIOUS
<1>3. PICK x, y : x = a.interval.lower /\ y = a.interval.upper
  OBVIOUS
<1>4. PICK l, h : l = b.interval.lower /\ h = b.interval.upper
  OBVIOUS
<1>5. /\ p \in Populations /\ q \in Populations /\ a.rho \in Nat
      /\ x \in Int /\ y \in Int /\ l \in Int /\ h \in Int
  BY <1>1, <1>2, <1>3, <1>4, IntervalCases
<1>6. /\ p.floor \in Nat /\ q.floor \in Nat /\ p.harmful \in Nat /\ IdentityMass \in Nat
      /\ p.unresolved = q.unresolved /\ p.harmful = q.harmful /\ HasResolved(p) = HasResolved(q)
      /\ p.unresolved \in Nat
  BY <1>1, <1>2, <1>5, MassFacts, ToleranceAssumption DEF SameMasses, HasResolved, Resolved3
<1>7. /\ RiskLower(a) = p.harmful + x /\ RiskUpper(a) = p.harmful + y
      /\ RiskLower(b) = q.harmful + l /\ RiskUpper(b) = q.harmful + h
      /\ BracketWidth(a.interval) = y - x /\ BracketWidth(b.interval) = h - l
  BY <1>1, <1>2, <1>3, <1>4 DEF RiskLower, RiskUpper, BracketWidth
<1>8. CASE ~HasResolved(p)
  <2>1. HasInterval(b) /\ x = 0 /\ l = 0 /\ y = p.unresolved /\ h = q.unresolved
    BY <1>1, <1>2, <1>3, <1>4, <1>6, <1>8, IntervalCases
  <2> QED BY <1>6, <1>7, <2>1
<1>9. CASE HasResolved(p) /\ HasInterval(a)
  <2>1. ~(a.rho < p.floor) /\ LowerEnd(p, a.rho, x) /\ UpperEnd(p, a.rho, y)
    BY <1>1, <1>3, <1>9, IntervalCases
  <2>2. ~(b.rho < q.floor)
    BY <1>1, <1>2, <1>5, <1>6, <1>9, <2>1
  <2>3. HasInterval(b) /\ LowerEnd(q, a.rho, l) /\ UpperEnd(q, a.rho, h)
    BY <1>2, <1>4, <1>6, <1>9, <2>2, IntervalCases
  <2>4. SameMasses(p, q) /\ q.floor =< p.floor /\ CrossingIsSharp(q, a.rho) /\ p.floor =< a.rho
    BY <1>1, <1>2, <1>5, <1>6, <1>9, <2>1
  <2>5. 2 * (l - x) =< IdentityMass /\ 2 * (y - h) =< IdentityMass
    BY <1>5, <1>9, <2>1, <2>3, <2>4, HigherFloorNarrows
  <2> QED BY <1>5, <1>6, <1>7, <2>3, <2>5
<1> QED BY <1>8, <1>9

\* A fine answer passes against a coarse one.
LEMMA CoherenceHolds ==
  ASSUME NEW a \in AnswerRecord, AnswerTrue(a), NEW b \in AnswerRecord, AnswerTrue(b), a.rho = b.rho,
         CrossingIsSharp(b.population, b.rho),
         SameMasses(a.population, b.population), HasResolved(a.population),
         b.population.floor =< a.population.floor
  PROVE  CoherencePasses(a, b)
<1>1. PICK p : p = a.population
  OBVIOUS
<1>2. PICK q : q = b.population
  OBVIOUS
<1>3. p \in Populations /\ q \in Populations /\ SameMasses(p, q) /\ q.floor =< p.floor
  BY <1>1, <1>2, IntervalCases
<1>4. HasResolved(p) /\ HasResolved(q) /\ p.unresolved = q.unresolved
  BY <1>1, <1>3 DEF SameMasses, HasResolved, Resolved3
<1>5. Tau(p) = p.floor /\ Tau(q) = q.floor /\ p.floor \in Nat /\ q.floor \in Nat
  BY <1>3, <1>4, MassFacts
<1>6. IdentityInformation \in Nat
  BY SolverAssumption
<1>7. Tau(p) + IdentityInformation >= Tau(q)
  BY <1>3, <1>5, <1>6
<1>8. ASSUME NEW u \in 0..p.unresolved
      PROVE  Magnitude((Information(p, u) - Information(q, u)) - (Tau(p) - Tau(q))) =< IdentityInformation
  <2>1. /\ Excess(p, u) \in Nat /\ Excess(q, u) = Excess(p, u)
        /\ Information(p, u) = Excess(p, u) + p.floor /\ Information(q, u) = Excess(q, u) + q.floor
    BY <1>3, <1>4, MassFacts, MassesAssumption
  <2>2. (Information(p, u) - Information(q, u)) - (Tau(p) - Tau(q)) = 0
    BY <1>5, <2>1
  <2> QED BY <1>6, <2>2 DEF Magnitude
<1>9. IF HasInterval(a) /\ HasInterval(b)
      THEN /\ RiskLower(a) + IdentityMass >= RiskLower(b)
           /\ RiskUpper(a) =< RiskUpper(b) + IdentityMass
      ELSE ~HasInterval(a)
  BY LowerFloorContains
<1> QED BY <1>1, <1>2, <1>7, <1>8, <1>9 DEF CoherencePasses

\* An answer with timing passes against one of the same endpoint with less of it.
LEMMA EndpointHolds ==
  ASSUME NEW a \in AnswerRecord, AnswerTrue(a), NEW b \in AnswerRecord, AnswerTrue(b), a.rho = b.rho,
         CrossingIsSharp(a.population, a.rho), SameMasses(a.population, b.population),
         TauOrZero(a.population) =< TauOrZero(b.population)
  PROVE  EndpointPasses(a, b)
<1>1. PICK p : p = a.population
  OBVIOUS
<1>2. PICK q : q = b.population
  OBVIOUS
<1>3. p \in Populations /\ q \in Populations /\ SameMasses(p, q) /\ SameMasses(q, p)
  BY <1>1, <1>2, IntervalCases DEF SameMasses
<1>4. /\ p.harmful \in Nat /\ p.correct \in Nat /\ p.unresolved \in Nat /\ IdentityMass \in Nat
      /\ p.floor \in Nat /\ q.floor \in Nat
      /\ p.harmful = q.harmful /\ p.correct = q.correct /\ p.unresolved = q.unresolved
  BY <1>3, MassFacts, ToleranceAssumption DEF SameMasses
<1>5. SameEndpoint(p, q)
  BY <1>4 DEF SameEndpoint, Resolved3, Magnitude
<1>6. HasResolved(q) => p.floor =< q.floor
  BY <1>1, <1>2, <1>4 DEF TauOrZero, HasResolved, Resolved3
<1>7. /\ RiskLower(b) + IdentityMass >= RiskLower(a) \/ ~HasInterval(b)
      /\ RiskUpper(b) =< RiskUpper(a) + IdentityMass \/ ~HasInterval(b)
  BY <1>1, <1>2, <1>3, <1>6, LowerFloorContains
<1>8. TauOrZero(q) + IdentityInformation >= TauOrZero(p)
  BY <1>1, <1>2, <1>4, SolverAssumption DEF TauOrZero
<1> QED BY <1>1, <1>2, <1>5, <1>7, <1>8 DEF EndpointPasses

\* The two answers of a concluded timing experiment are those compared.
LEMMA TimingTightens == PopulationInv => TimingOnlyTightens
<1> SUFFICES ASSUME PopulationInv, stage = "concluded", experiment.kind \in {"COHERENCE", "ENDPOINT"}
             PROVE  /\ experiment.kind = "COHERENCE" => CoherencePasses(answers[1], answers[2])
                    /\ experiment.kind = "ENDPOINT" =>
                         (TauOrZero(experiment.population) =< TauOrZero(experiment.other)
                            => EndpointPasses(answers[1], answers[2]))
  BY DEF TimingOnlyTightens, Concluded
<1>1. PICK c : c = Call(experiment.population, experiment.rho)
  OBVIOUS
<1>2. PICK d : d = Call(experiment.other, experiment.rho)
  OBVIOUS
<1>3. Calls(experiment) = <<c, d>>
  BY <1>1, <1>2 DEF Calls
<1>4. Len(Calls(experiment)) = 2 /\ Calls(experiment)[1] = c /\ Calls(experiment)[2] = d
  BY <1>3
<1>5. /\ answers[1] \in AnswerRecord /\ AnswerTrue(answers[1])
      /\ answers[1].population = c.population /\ answers[1].rho = c.rho
      /\ answers[2] \in AnswerRecord /\ AnswerTrue(answers[2])
      /\ answers[2].population = d.population /\ answers[2].rho = d.rho
      /\ CrossingIsSharp(answers[1].population, answers[1].rho)
      /\ CrossingIsSharp(answers[2].population, answers[2].rho)
  <2>1. 1 \in 1..Len(Calls(experiment)) /\ 2 \in 1..Len(Calls(experiment))
    BY <1>4
  <2>2. experiment.kind # "TRAJECTORY"
    OBVIOUS
  <2> QED BY <1>4, <2>1, <2>2, ConcludedAnswers
<1>6. /\ answers[1].population = experiment.population /\ answers[2].population = experiment.other
      /\ answers[1].rho = answers[2].rho
  BY <1>1, <1>2, <1>5 DEF Call
<1>7. /\ SameMasses(experiment.population, experiment.other)
      /\ experiment.kind = "COHERENCE" =>
           HasResolved(experiment.population) /\ experiment.other.floor =< experiment.population.floor
  BY ConcludedAnswers, ExperimentsAssumption
<1>8. PICK a, b : a = answers[1] /\ b = answers[2]
  OBVIOUS
<1>9. experiment.kind = "COHERENCE" => CoherencePasses(a, b)
  BY <1>5, <1>6, <1>7, <1>8, CoherenceHolds
<1>10. TauOrZero(experiment.population) =< TauOrZero(experiment.other) => EndpointPasses(a, b)
  BY <1>5, <1>6, <1>7, <1>8, EndpointHolds
<1> QED BY <1>8, <1>9, <1>10

\* Finer timing of the same masses can only tighten: the fine summary passes against the
\* coarse one, and of two summaries with the same endpoint the one with more timing
\* information has the narrower interval, up to identity_atol, for every budget, summary and
\* rounding (evaluate_partition_coherence, evaluate_same_endpoint_different_timing).
THEOREM FinerTimingTightens == ExperimentSpec => []TimingOnlyTightens
  BY PopulationInvHolds, TimingTightens, PTL

-----------------------------------------------------------------------------
(* Foreign timing                                                          *)

\* A sequence of one element before the values of a function.
LEMMA HeadThenTail ==
  ASSUME NEW S, NEW c \in S, NEW n \in Nat, NEW f \in [1..n -> S]
  PROVE  /\ Len(<<c>> \o f) = n + 1 /\ (<<c>> \o f)[1] = c
         /\ \A i \in 1..n : (<<c>> \o f)[i + 1] = f[i]
<1>1. f \in Seq(S) /\ Len(f) = n /\ <<c>> \in Seq(S) /\ Len(<<c>>) = 1
  OBVIOUS
<1>2. /\ Len(<<c>> \o f) = 1 + n
      /\ \A i \in 1..(1 + n) : (<<c>> \o f)[i] = IF i <= 1 THEN <<c>>[i] ELSE f[i - 1]
  BY <1>1, ConcatProperties
<1>3. (<<c>> \o f)[1] = c
  BY <1>2
<1>4. ASSUME NEW i \in 1..n
      PROVE  (<<c>> \o f)[i + 1] = f[i]
  <2>1. i + 1 \in 1..(1 + n) /\ ~(i + 1 <= 1) /\ (i + 1) - 1 = i
    OBVIOUS
  <2> QED BY <1>2, <2>1
<1> QED BY <1>2, <1>3, <1>4

\* The call after the local one is, for every point, that of its path, then the pooled one.
LEMMA PathCalls ==
  ASSUME NEW e \in Experiments, e.kind = "FOREIGN"
  PROVE  /\ Len(Calls(e)) = 2 * Len(e.points) + 1 /\ Calls(e)[1] = Call(e.population, e.rho)
         /\ \A i \in 1..Len(e.points) :
              Calls(e)[2 * i] = Call(PathSummary(e.population, e.points[i]), e.rho)
<1>1. PICK n : n = Len(e.points)
  OBVIOUS
<1>2. n \in Nat
  BY <1>1, ExperimentsAssumption
<1> DEFINE value(i) == LET point == e.points[(i + 1) \div 2]
                       IN Call(IF i % 2 = 1 THEN PathSummary(e.population, point)
                                            ELSE PooledSummary(e.population, point), e.rho)
           f == [i \in 1..(2 * n) |-> value(i)]
           c == Call(e.population, e.rho)
           S == {c} \cup {value(i) : i \in 1..(2 * n)}
<1>3. Calls(e) = <<c>> \o f
  BY <1>1 DEF Calls, ForeignCalls
<1>4. c \in S /\ 2 * n \in Nat /\ \A i \in 1..(2 * n) : value(i) \in S
  BY <1>2
<1>5. \A i \in 1..n : value(2 * i - 1) = Call(PathSummary(e.population, e.points[i]), e.rho)
  <2> SUFFICES ASSUME NEW i \in 1..n
               PROVE  value(2 * i - 1) = Call(PathSummary(e.population, e.points[i]), e.rho)
    OBVIOUS
  <2>1. ((2 * i - 1) + 1) \div 2 = i /\ (2 * i - 1) % 2 = 1
    BY <1>2
  <2> QED BY <2>1
<1> HIDE DEF value, c, S
<1>6. f \in [1..(2 * n) -> S]
  BY <1>4
<1>7. \A i \in 1..(2 * n) : f[i] = value(i)
  OBVIOUS
<1> HIDE DEF f
<1>8. /\ Len(Calls(e)) = 2 * n + 1 /\ Calls(e)[1] = c
      /\ \A i \in 1..(2 * n) : Calls(e)[i + 1] = f[i]
  BY <1>3, <1>4, <1>6, HeadThenTail
<1>9. ASSUME NEW i \in 1..n
      PROVE  Calls(e)[2 * i] = Call(PathSummary(e.population, e.points[i]), e.rho)
  <2>1. 2 * i - 1 \in 1..(2 * n) /\ (2 * i - 1) + 1 = 2 * i
    BY <1>2
  <2>2. Calls(e)[(2 * i - 1) + 1] = f[2 * i - 1]
    BY <1>8, <2>1
  <2>3. f[2 * i - 1] = value(2 * i - 1)
    BY <1>7, <2>1
  <2> QED BY <1>5, <2>1, <2>2, <2>3
<1> QED BY <1>1, <1>8, <1>9 DEF c

\* The safety regime of a summary is a matter of its masses.
LEMMA RegimeOfMasses ==
  ASSUME NEW p, NEW q, SameMasses(p, q), NEW beta
  PROVE  SafetyRegime(p, beta) = SafetyRegime(q, beta)
BY DEF SameMasses, SafetyRegime, HasResolved, Resolved3, ThetaDagger, UnresolvedAsHarm

\* The severity of a regime is a number.
LEMMA SeverityIsInt ==
  ASSUME NEW p, NEW beta
  PROVE  Severity[SafetyRegime(p, beta)] \in Int
BY DEF SafetyRegime, Severity

\* So is the fixed risk budget of the foreign-information control.
LEMMA FixedBudgetIsInt ==
  ASSUME NEW p \in Populations
  PROVE  FixedRiskBudget(p) \in Int
<1>1. p.harmful \in Nat /\ p.unresolved \in Nat /\ (HasResolved(p) => ThetaDagger(p) \in Int)
  BY MassFacts, ThetaFacts
<1>2. PICK m : m = ThetaDagger(p)
  OBVIOUS
<1>3. /\ HasResolved(p) => m \in Int
      /\ SafetyBudgetCases(p, HarmOffset).INTERIOR_SAFETY_FRONTIER =
           IF HasResolved(p) THEN (m + (p.harmful + p.unresolved)) \div 2 ELSE None
      /\ SafetyBudgetCases(p, HarmOffset).ASSUMPTION_FREE_BOUNDARY = p.harmful + p.unresolved
  BY <1>1, <1>2 DEF SafetyBudgetCases, UnresolvedAsHarm
<1>4. PICK v, w : v = SafetyBudgetCases(p, HarmOffset).INTERIOR_SAFETY_FRONTIER
                  /\ w = SafetyBudgetCases(p, HarmOffset).ASSUMPTION_FREE_BOUNDARY
  OBVIOUS
<1>5. v \in Int /\ w \in Int
  BY <1>1, <1>3, <1>4 DEF None
<1>6. FixedRiskBudget(p) = IF v # None THEN v ELSE w
  BY <1>4 DEF FixedRiskBudget
<1> QED BY <1>5, <1>6

\* An answer that contains the true risk shows no error about it.
LEMMA NoErrorShown ==
  ASSUME NEW b \in AnswerRecord, AnswerTrue(b), NEW local, NEW risk \in Int, NEW beta \in Int,
         Contains(b, risk)
  PROVE  HasInterval(b) /\ ~IntroducesError(local, b, risk, beta)
<1>1. b.interval.upper \in Int /\ b.population.harmful \in Nat /\ IdentityMass \in Nat
  BY IntervalCases, MassFacts, ToleranceAssumption
<1>2. RiskUpper(b) \in Int
  BY <1>1 DEF RiskUpper
<1>3. HasInterval(b) /\ risk =< RiskUpper(b) + IdentityMass
  BY DEF Contains
<1>4. ~Misses(b, risk)
  BY DEF Misses
<1>5. ~Underestimates(b, risk)
  BY <1>1, <1>2, <1>3 DEF Underestimates
<1>6. ~FalselyCertifies(b, risk, beta)
  BY <1>1, <1>2, <1>3 DEF FalselyCertifies
<1> QED BY <1>3, <1>4, <1>5, <1>6 DEF IntroducesError

\* No other mass has the information of the floor.
LEMMA AwayFromMinimum ==
  ASSUME NEW p \in Populations, HasResolved(p), NEW u \in 0..p.unresolved, u # Dagger(p)
  PROVE  Excess(p, u) > 0
<1>1. Dagger(p) \in 0..p.unresolved /\ Excess(p, Dagger(p)) = 0 /\ p.unresolved \in Nat
  BY MassFacts
<1>2. CASE u < Dagger(p)
  BY <1>1, <1>2, ProfileAssumption
<1>3. CASE Dagger(p) < u
  BY <1>1, <1>3, ProfileAssumption
<1> QED BY <1>1, <1>2, <1>3

\* Under a path whose floor is not above the local one, a local law that meets its budget
\* shows neither an error nor an improvement.
LEMMA LowerFloorHarmless ==
  ASSUME NEW a \in AnswerRecord, AnswerTrue(a), NEW b \in AnswerRecord, AnswerTrue(b), a.rho = b.rho,
         CrossingIsSharp(b.population, b.rho), SameMasses(a.population, b.population), b.population.floor =< a.population.floor,
         NEW t \in 0..a.population.unresolved, Information(a.population, t) =< a.rho,
         NEW beta \in Int
  PROVE  /\ Effect(a, b, a.population.harmful + t, beta) \notin {"ERRONEOUS_BOUND", "BENIGN_TIGHTENING"}
         /\ ~SpuriousImprovement(a, b, beta)
<1>1. PICK p : p = a.population
  OBVIOUS
<1>2. PICK q : q = b.population
  OBVIOUS
<1>3. p \in Populations /\ q \in Populations /\ a.rho \in Nat /\ SameMasses(p, q) /\ q.floor =< p.floor
  BY <1>1, <1>2, IntervalCases
<1>4. /\ p.harmful = q.harmful /\ p.unresolved = q.unresolved /\ HasResolved(p) = HasResolved(q)
      /\ p.harmful \in Nat /\ p.unresolved \in Nat /\ p.floor \in Nat /\ q.floor \in Nat
      /\ IdentityMass \in Nat /\ t \in Nat
  BY <1>1, <1>3, MassFacts, ToleranceAssumption DEF SameMasses, HasResolved, Resolved3
<1>5. ASSUME HasResolved(p)
      PROVE  /\ Information(p, t) =< a.rho /\ p.floor =< a.rho
             /\ Information(q, t) =< a.rho /\ q.floor =< a.rho
  <2>1. /\ Excess(p, t) \in Nat /\ Excess(q, t) = Excess(p, t)
        /\ Information(p, t) = Excess(p, t) + p.floor /\ Information(q, t) = Excess(q, t) + q.floor
    BY <1>1, <1>3, <1>4, <1>5, MassFacts, MassesAssumption
  <2>2. Information(p, t) =< a.rho
    BY <1>1
  <2> QED BY <1>3, <1>4, <2>1, <2>2
<1>6. Contains(b, q.harmful + t)
  <2>1. ASSUME HasResolved(q)
        PROVE  /\ Information(q, t) + 0 =< b.rho /\ q.floor =< b.rho
               /\ b.rho = q.floor => Magnitude(t - Dagger(q)) =< IdentityMass
    <3>1. t \in 0..q.unresolved
      BY <1>1, <1>4
    <3>2. Excess(q, t) \in Nat /\ Information(q, t) = Excess(q, t) + q.floor /\ Dagger(q) \in 0..q.unresolved
      BY <1>3, <2>1, <3>1, MassFacts
    <3>3. Information(q, t) =< b.rho /\ q.floor =< b.rho
      BY <1>4, <1>5, <2>1
    <3>4. b.rho = q.floor => t = Dagger(q)
      <4>1. t # Dagger(q) => Excess(q, t) > 0
        BY <1>3, <2>1, <3>1, AwayFromMinimum
      <4> QED BY <1>4, <3>2, <3>3, <4>1
    <3>5. Magnitude(Dagger(q) - Dagger(q)) = 0
      BY <3>2 DEF Magnitude
    <3> QED BY <1>4, <3>2, <3>3, <3>4, <3>5
  <2>2. t \in 0..q.unresolved
    BY <1>1, <1>4
  <2> QED BY <1>2, <2>1, <2>2, SlackIsInt, AnswerContains
<1>7. PICK risk : risk = p.harmful + t
  OBVIOUS
<1>8. HasInterval(b) /\ ~IntroducesError(a, b, risk, beta) /\ risk \in Int
  <2>1. risk \in Int /\ risk = q.harmful + t
    BY <1>4, <1>7
  <2>2. Contains(b, risk)
    BY <1>6, <2>1
  <2> QED BY <2>1, <2>2, NoErrorShown
<1>9. PICK w : w = BracketWidth(b.interval)
  OBVIOUS
<1>10. PICK v : v = BracketWidth(a.interval)
  OBVIOUS
<1>11. w \in Int /\ v \in Int
  BY <1>9, <1>10, IntervalCases DEF BracketWidth
<1>12. HasInterval(a) => w - v >= -IdentityMass
  BY <1>1, <1>2, <1>3, <1>9, <1>10, LowerFloorContains
<1>13. Effect(a, b, risk, beta) \notin {"ERRONEOUS_BOUND", "BENIGN_TIGHTENING"}
  <2>1. Effect(a, b, risk, beta) =
          IF ~HasInterval(a) THEN "NO_CHANGE"
          ELSE IF w - v < -IdentityMass THEN "BENIGN_TIGHTENING"
          ELSE IF w - v > IdentityMass THEN "CONSERVATIVE_WIDENING" ELSE "NO_CHANGE"
    BY <1>8, <1>9, <1>10 DEF Effect
  <2>2. HasInterval(a) => ~(w - v < -IdentityMass)
    BY <1>4, <1>11, <1>12
  <2> QED BY <2>1, <2>2
<1>14. ~SpuriousImprovement(a, b, beta)
  <2>1. SafetyRegime(p, beta) = SafetyRegime(q, beta)
    BY <1>3, RegimeOfMasses
  <2>2. ~(Severity[SafetyRegime(q, beta)] > Severity[SafetyRegime(p, beta)])
    BY <2>1, SeverityIsInt
  <2>3. HasInterval(a) => ~(w < v - IdentityMass)
    BY <1>4, <1>11, <1>12
  <2> QED BY <1>1, <1>2, <1>9, <1>10, <2>2, <2>3 DEF SpuriousImprovement
<1> QED BY <1>1, <1>7, <1>13, <1>14

\* A concluded foreign-information control finds nothing at a point whose path floor is lower.
LEMMA ForeignHarmless == PopulationInv => ForeignErrorNeedsHigherFloor
<1> SUFFICES ASSUME PopulationInv, stage = "concluded", experiment.kind = "FOREIGN",
                    Information(answers[1].population, experiment.truth) =< experiment.rho,
                    NEW i \in DOMAIN experiment.points,
                    answers[2 * i].population.floor =< answers[1].population.floor
             PROVE  LET beta == FixedRiskBudget(answers[1].population)
                        risk == answers[1].population.harmful + experiment.truth
                    IN /\ Effect(answers[1], answers[2 * i], risk, beta)
                            \notin {"ERRONEOUS_BOUND", "BENIGN_TIGHTENING"}
                       /\ ~SpuriousImprovement(answers[1], answers[2 * i], beta)
  BY DEF ForeignErrorNeedsHigherFloor, Concluded
<1>1. PICK a : a = answers[1]
  OBVIOUS
<1>2. PICK b : b = answers[2 * i]
  OBVIOUS
<1>3. PICK n : n = Len(experiment.points)
  OBVIOUS
<1>4. PICK p : p = experiment.population
  OBVIOUS
<1>5. PICK t : t = experiment.truth
  OBVIOUS
<1>6. /\ experiment \in Experiments /\ p \in Populations /\ t \in 0..p.unresolved
      /\ n \in Nat /\ i \in 1..n
  BY <1>3, <1>4, <1>5, ConcludedAnswers, ExperimentsAssumption
<1>7. Len(Calls(experiment)) = 2 * n + 1 /\ Calls(experiment)[1] = Call(p, experiment.rho)
  BY <1>3, <1>4, <1>6, PathCalls
<1>8. Calls(experiment)[2 * i] = Call(PathSummary(p, experiment.points[i]), experiment.rho)
  BY <1>3, <1>4, <1>6, PathCalls
<1>9. 1 \in 1..Len(Calls(experiment)) /\ 2 * i \in 1..Len(Calls(experiment))
  BY <1>6, <1>7
<1>10. /\ a \in AnswerRecord /\ AnswerTrue(a) /\ a.population = Calls(experiment)[1].population
       /\ a.rho = Calls(experiment)[1].rho
  BY <1>1, <1>9, ConcludedAnswers
<1>11. /\ b \in AnswerRecord /\ AnswerTrue(b) /\ b.population = Calls(experiment)[2 * i].population
       /\ b.rho = Calls(experiment)[2 * i].rho /\ CrossingIsSharp(b.population, b.rho)
  <2>1. experiment.kind # "TRAJECTORY"
    OBVIOUS
  <2> QED BY <1>2, <1>9, <2>1, ConcludedAnswers
<1>12. /\ a.population = p /\ a.rho = experiment.rho /\ b.rho = experiment.rho
       /\ b.population = PathSummary(p, experiment.points[i])
  BY <1>7, <1>8, <1>10, <1>11 DEF Call
<1>13. SameMasses(p, b.population)
  <2>1. p \in [harmful : Nat, correct : Nat, unresolved : Nat, floor : Nat]
    BY <1>6, PopulationAssumption
  <2>2. PICK f : f = experiment.points[i].pathFloor
    OBVIOUS
  <2>3. b.population = [p EXCEPT !.floor = f]
    BY <1>12, <2>2 DEF PathSummary
  <2> QED BY <2>1, <2>3 DEF SameMasses
<1>14. PICK beta : beta = FixedRiskBudget(p)
  OBVIOUS
<1>15. beta \in Int
  BY <1>6, <1>14, FixedBudgetIsInt
<1>16. b.population.floor =< a.population.floor /\ Information(a.population, t) =< a.rho
  BY <1>1, <1>2, <1>5, <1>12
<1>17. /\ Effect(a, b, a.population.harmful + t, beta) \notin {"ERRONEOUS_BOUND", "BENIGN_TIGHTENING"}
       /\ ~SpuriousImprovement(a, b, beta)
  BY <1>6, <1>10, <1>11, <1>12, <1>13, <1>15, <1>16, LowerFloorHarmless
<1> QED BY <1>1, <1>2, <1>5, <1>12, <1>14, <1>17

\* Where the local law meets its own budget, foreign timing whose floor is not above the local
\* one is never reported as an erroneous bound, a benign tightening or a spurious improvement
\* (_evaluate_condition, _introduces_error, _effect, _is_spurious_improvement).
THEOREM LowerFloorNeverMisleads == ExperimentSpec => []ForeignErrorNeedsHigherFloor
  BY PopulationInvHolds, ForeignHarmless, PTL

-----------------------------------------------------------------------------
(* The oracle                                                              *)

\* The lowest of a set of masses is one of them and below every other.
LEMMA LowestIsLowest ==
  ASSUME NEW S, S \subseteq Nat, S # {}
  PROVE  Lowest(S) \in S /\ \A y \in S : Lowest(S) =< y
<1>1. \E x \in S : \A y \in S : x =< y
  BY Minimum
<1> QED BY <1>1 DEF Lowest

\* The highest of a bounded set of masses, the lowest seen from the bound.
LEMMA HighestIsHighest ==
  ASSUME NEW n \in Nat, NEW S, S \subseteq 0..n, S # {}
  PROVE  Highest(S) \in S /\ \A y \in S : y =< Highest(S)
<1> DEFINE T == {n - x : x \in S}
<1>1. T \subseteq Nat /\ T # {}
  <2>1. \A x \in S : x \in Int /\ n - x \in Nat
    OBVIOUS
  <2> QED BY <2>1
<1>2. PICK z \in T : \A y \in T : z =< y
  <2> HIDE DEF T
  <2> QED BY <1>1, Minimum
<1>3. PICK x \in S : z = n - x
  OBVIOUS
<1>4. ASSUME NEW y \in S PROVE y =< x
  <2>1. z =< n - y
    BY <1>2
  <2> QED BY <1>3, <2>1
<1> HIDE DEF T
<1>5. \E m \in S : \A y \in S : y =< m
  BY <1>4
<1> QED BY <1>5 DEF Highest

\* The masses within a budget that reaches the floor.
LEMMA MassesWithinFacts ==
  ASSUME NEW p \in Populations, HasResolved(p), NEW rho \in Nat, p.floor =< rho
  PROVE  /\ Lowest(MassesWithin(p, rho)) \in 0..Dagger(p)
         /\ Highest(MassesWithin(p, rho)) \in Dagger(p)..p.unresolved
         /\ Information(p, Lowest(MassesWithin(p, rho))) =< rho
         /\ Information(p, Highest(MassesWithin(p, rho))) =< rho
         /\ \A u \in 0..p.unresolved :
              /\ u < Lowest(MassesWithin(p, rho)) => ~(Information(p, u) =< rho)
              /\ u > Highest(MassesWithin(p, rho)) => ~(Information(p, u) =< rho)
<1>1. /\ p.unresolved \in Nat /\ p.floor \in Nat /\ Dagger(p) \in 0..p.unresolved
      /\ Information(p, Dagger(p)) = p.floor
  BY MassFacts
<1> DEFINE S == MassesWithin(p, rho)
<1>2. /\ S \subseteq 0..p.unresolved /\ Dagger(p) \in S
      /\ \A u \in 0..p.unresolved : u \in S <=> Information(p, u) =< rho
  BY <1>1 DEF MassesWithin
<1> HIDE DEF S
<1>3. S \subseteq Nat
  BY <1>1, <1>2
<1>4. Lowest(S) \in S /\ \A y \in S : Lowest(S) =< y
  BY <1>2, <1>3, LowestIsLowest
<1>5. Highest(S) \in S /\ \A y \in S : y =< Highest(S)
  BY <1>1, <1>2, HighestIsHighest
<1>6. PICK lo, hi : lo = Lowest(S) /\ hi = Highest(S)
  OBVIOUS
<1>7. lo \in 0..Dagger(p) /\ hi \in Dagger(p)..p.unresolved
  <2>1. lo \in S /\ hi \in S /\ lo =< Dagger(p) /\ Dagger(p) =< hi
    BY <1>2, <1>4, <1>5, <1>6, Zenon
  <2>2. lo \in 0..p.unresolved /\ hi \in 0..p.unresolved
    BY <1>2, <2>1
  <2> QED BY <1>1, <2>1, <2>2
<1>8. Information(p, lo) =< rho /\ Information(p, hi) =< rho
  <2>1. lo \in S /\ hi \in S
    BY <1>4, <1>5, <1>6, Zenon
  <2>2. lo \in 0..p.unresolved /\ hi \in 0..p.unresolved
    BY <1>1, <1>7
  <2> QED BY <1>2, <2>1, <2>2, Zenon
<1>9. ASSUME NEW u \in 0..p.unresolved
      PROVE  (u < lo => ~(Information(p, u) =< rho)) /\ (u > hi => ~(Information(p, u) =< rho))
  <2>1. u \in S => lo =< u /\ u =< hi
    BY <1>4, <1>5, <1>6
  <2>2. u \in Int /\ lo \in Int /\ hi \in Int
    BY <1>1, <1>7
  <2>3. Information(p, u) =< rho => u \in S
    BY <1>2
  <2> QED BY <2>1, <2>2, <2>3
<1> QED BY <1>6, <1>7, <1>8, <1>9 DEF S

\* Masses the profile itself keeps out of a budget cannot be far inside an interval.
LEMMA LowerNearOracle ==
  ASSUME NEW p \in Populations, HasResolved(p), NEW rho \in Nat, p.floor < rho, CrossingIsSharp(p, rho),
         NEW x, LowerEnd(p, rho, x), NEW lo \in 0..Dagger(p),
         \A u \in 0..p.unresolved : u < lo => ~(Information(p, u) =< rho)
  PROVE  lo - x =< IdentityMass
<1>1. /\ Dagger(p) \in 0..p.unresolved /\ p.unresolved \in Nat /\ p.floor \in Nat
      /\ \A u \in 0..p.unresolved : Information(p, u) \in Int
  <2>1. \A u \in 0..p.unresolved : Excess(p, u) \in Nat /\ Information(p, u) = Excess(p, u) + p.floor
    BY MassFacts
  <2> QED BY <2>1, MassFacts
<1>2. IdentityMass \in Nat /\ RootAtol \in Nat \ {0} /\ 2 * RootAtol =< IdentityMass
  BY HalfMass
<1>3. x \in 0..Dagger(p)
  BY DEF LowerEnd
<1>4. PICK v \in 0..Dagger(p), s \in Slack :
        x =< v /\ 2 * (v - x) =< RootAtol + 1 /\ Information(p, v) + s =< rho
  BY DEF LowerEnd
<1>5. CASE lo =< v
  BY <1>1, <1>2, <1>3, <1>4, <1>5
<1>6. CASE v < lo
  <2>1. lo - 1 \in 0..Dagger(p) /\ lo - 1 \in 0..p.unresolved /\ 0 \in Slack
    BY <1>1, <1>6, SlackIsInt
  <2>2. rho =< Information(p, lo - 1) + 0
    BY <1>1, <2>1
  <2>3. 2 * (RootAtol + (lo - 1) - v) =< IdentityMass
    BY <1>4, <2>1, <2>2, NearBelow
  <2> QED BY <1>1, <1>2, <1>3, <1>4, <2>3
<1> QED BY <1>1, <1>5, <1>6

\* The same at the upper end.
LEMMA UpperNearOracle ==
  ASSUME NEW p \in Populations, HasResolved(p), NEW rho \in Nat, p.floor < rho, CrossingIsSharp(p, rho),
         NEW y, UpperEnd(p, rho, y), NEW hi \in Dagger(p)..p.unresolved,
         \A u \in 0..p.unresolved : u > hi => ~(Information(p, u) =< rho)
  PROVE  y - hi =< IdentityMass
<1>1. /\ Dagger(p) \in 0..p.unresolved /\ p.unresolved \in Nat /\ p.floor \in Nat
      /\ \A u \in 0..p.unresolved : Information(p, u) \in Int
  <2>1. \A u \in 0..p.unresolved : Excess(p, u) \in Nat /\ Information(p, u) = Excess(p, u) + p.floor
    BY MassFacts
  <2> QED BY <2>1, MassFacts
<1>2. IdentityMass \in Nat /\ RootAtol \in Nat \ {0} /\ 2 * RootAtol =< IdentityMass
  BY HalfMass
<1>3. y \in Dagger(p)..p.unresolved
  BY DEF UpperEnd
<1>4. PICK v \in Dagger(p)..p.unresolved, s \in Slack :
        v =< y /\ 2 * (y - v) =< RootAtol /\ Information(p, v) + s =< rho
  BY DEF UpperEnd
<1>5. CASE v =< hi
  BY <1>1, <1>2, <1>3, <1>4, <1>5
<1>6. CASE hi < v
  <2>1. hi + 1 \in Dagger(p)..p.unresolved /\ hi + 1 \in 0..p.unresolved /\ 0 \in Slack
    BY <1>1, <1>6, SlackIsInt
  <2>2. rho =< Information(p, hi + 1) + 0
    BY <1>1, <2>1
  <2>3. 2 * (RootAtol + v - (hi + 1)) =< IdentityMass
    BY <1>4, <2>1, <2>2, NearAbove
  <2> QED BY <1>1, <1>2, <1>3, <1>4, <2>3
<1> QED BY <1>1, <1>5, <1>6

\* A budget on the floor has both ends at the point of minimum information; any other those of
\* the masses within it, up to identity_atol.
LEMMA EndsNearOracle ==
  ASSUME NEW p \in Populations, HasResolved(p), NEW rho \in Nat, p.floor =< rho, CrossingIsSharp(p, rho),
         NEW x, NEW y, LowerEnd(p, rho, x), UpperEnd(p, rho, y), NEW lo, NEW hi,
         \/ rho = p.floor /\ lo = Dagger(p) /\ hi = Dagger(p)
         \/ p.floor < rho /\ lo = Lowest(MassesWithin(p, rho)) /\ hi = Highest(MassesWithin(p, rho))
  PROVE  /\ lo \in Nat /\ hi \in Nat
         /\ Magnitude(x - lo) =< IdentityMass /\ Magnitude(y - hi) =< IdentityMass
<1>1. /\ Dagger(p) \in 0..p.unresolved /\ p.unresolved \in Nat /\ p.floor \in Nat
      /\ \A u \in 0..p.unresolved : Information(p, u) \in Int
  <2>1. \A u \in 0..p.unresolved : Excess(p, u) \in Nat /\ Information(p, u) = Excess(p, u) + p.floor
    BY MassFacts
  <2> QED BY <2>1, MassFacts
<1>2. IdentityMass \in Nat
  BY HalfMass
<1>3. x \in 0..Dagger(p) /\ y \in Dagger(p)..p.unresolved
  BY DEF LowerEnd, UpperEnd
<1>4. CASE rho = p.floor /\ lo = Dagger(p) /\ hi = Dagger(p)
  <2>1. x = lo /\ y = hi /\ lo \in Nat /\ hi \in Nat
    BY <1>1, <1>4 DEF LowerEnd, UpperEnd
  <2> QED BY <1>2, <2>1 DEF Magnitude
<1>5. CASE p.floor < rho /\ lo = Lowest(MassesWithin(p, rho)) /\ hi = Highest(MassesWithin(p, rho))
  <2>1. /\ lo \in 0..Dagger(p) /\ hi \in Dagger(p)..p.unresolved
        /\ Information(p, lo) =< rho /\ Information(p, hi) =< rho
        /\ \A u \in 0..p.unresolved :
             /\ u < lo => ~(Information(p, u) =< rho)
             /\ u > hi => ~(Information(p, u) =< rho)
    BY <1>5, MassesWithinFacts
  <2>2. lo - x =< IdentityMass
    BY <1>5, <2>1, LowerNearOracle
  <2>3. y - hi =< IdentityMass
    BY <1>5, <2>1, UpperNearOracle
  <2>4. 2 * (x - lo) =< IdentityMass
    <3>1. lo \in 0..p.unresolved /\ Information(p, lo) + 0 =< rho
      BY <1>1, <2>1
    <3> QED BY <1>5, <3>1, SlackIsInt, IntervalContains
  <2>5. 2 * (hi - y) =< IdentityMass
    <3>1. hi \in 0..p.unresolved /\ Information(p, hi) + 0 =< rho
      BY <1>1, <2>1
    <3> QED BY <1>5, <3>1, SlackIsInt, IntervalContains
  <2>6. lo \in Int /\ hi \in Int /\ x \in Int /\ y \in Int
    BY <1>1, <1>3, <2>1
  <2>7. Magnitude(x - lo) =< IdentityMass
    BY <1>2, <2>2, <2>4, <2>6 DEF Magnitude
  <2>8. Magnitude(y - hi) =< IdentityMass
    BY <1>2, <2>3, <2>5, <2>6 DEF Magnitude
  <2> QED BY <1>1, <2>1, <2>7, <2>8
<1> QED BY <1>4, <1>5

\* The two regimes are the same where the floor is not contested.
LEMMA RegimesAgree ==
  ASSUME NEW p \in Populations, NEW rho \in Nat,
         HasResolved(p) => \/ Magnitude(rho - p.floor) > ComparisonGuard
                           \/ rho = p.floor /\ p.unresolved # 0
  PROVE  /\ Regime(p, rho) = OracleRegime(p, rho)
         /\ HasResolved(p) => (OracleRegime(p, rho) = "MODEL_INCOMPATIBLE") = (rho < p.floor)
         /\ HasResolved(p) => (OracleRegime(p, rho) = "MINIMUM_INFORMATION_SINGLETON") = (rho = p.floor)
         /\ HasResolved(p) => OracleRegime(p, rho) # "NO_RESOLVED_MASS"
<1>1. p.floor \in Nat /\ p.unresolved \in Nat /\ ComparisonGuard \in Nat
  BY MassFacts, ToleranceAssumption
<1>2. CASE ~HasResolved(p)
  BY <1>2 DEF Regime, OracleRegime
<1>3. CASE HasResolved(p) /\ rho = p.floor /\ p.unresolved # 0
  BY <1>1, <1>3 DEF Regime, OracleRegime, Magnitude
<1>4. CASE HasResolved(p) /\ Magnitude(rho - p.floor) > ComparisonGuard
  BY <1>1, <1>4 DEF Regime, OracleRegime, Magnitude
<1> QED BY <1>2, <1>3, <1>4

\* An answer to a budget that is not contested agrees with the oracle.
LEMMA UncontestedAgrees ==
  ASSUME NEW a \in AnswerRecord, AnswerTrue(a), CrossingIsSharp(a.population, a.rho),
         HasResolved(a.population) =>
           \/ Magnitude(a.rho - a.population.floor) > ComparisonGuard
           \/ a.rho = a.population.floor /\ a.population.unresolved # 0
  PROVE  Agrees(a)
<1>1. PICK p : p = a.population
  OBVIOUS
<1>2. PICK rho : rho = a.rho
  OBVIOUS
<1>3. PICK oracle : oracle = OracleInterval(p, rho)
  OBVIOUS
<1>4. PICK x, y : x = a.interval.lower /\ y = a.interval.upper
  OBVIOUS
<1>5. /\ p \in Populations /\ rho \in Nat /\ p.unresolved \in Nat /\ p.floor \in Nat
      /\ IdentityMass \in Nat
  BY <1>1, <1>2, IntervalCases, MassFacts, ToleranceAssumption
<1>6. /\ Regime(p, rho) = OracleRegime(p, rho)
      /\ HasResolved(p) => (OracleRegime(p, rho) = "MODEL_INCOMPATIBLE") = (rho < p.floor)
      /\ HasResolved(p) => (OracleRegime(p, rho) = "MINIMUM_INFORMATION_SINGLETON") = (rho = p.floor)
      /\ HasResolved(p) => OracleRegime(p, rho) # "NO_RESOLVED_MASS"
  BY <1>1, <1>2, <1>5, RegimesAgree
<1>7. (a.interval = Nothing) = (oracle = Nothing) /\ (a.interval # Nothing => ~Apart(a.interval, oracle))
  <2>1. CASE ~HasResolved(p)
    <3>1. OracleRegime(p, rho) = "NO_RESOLVED_MASS"
      BY <2>1 DEF OracleRegime
    <3>2. oracle = [lower |-> 0, upper |-> p.unresolved]
      BY <1>3, <3>1 DEF OracleInterval
    <3>3. a.interval # Nothing /\ x = 0 /\ y = p.unresolved
      BY <1>1, <1>4, <2>1, IntervalCases DEF HasInterval
    <3>4. oracle # Nothing
      BY <3>2 DEF Nothing, None
    <3>5. ~Apart(a.interval, oracle)
      BY <1>4, <1>5, <3>2, <3>3 DEF Apart, Magnitude
    <3> QED BY <3>3, <3>4, <3>5
  <2>2. CASE HasResolved(p) /\ rho < p.floor
    <3>1. oracle = Nothing
      BY <1>3, <1>6, <2>2 DEF OracleInterval
    <3>2. a.interval = Nothing
      BY <1>1, <1>2, <2>2, IntervalCases DEF HasInterval
    <3> QED BY <3>1, <3>2
  <2>3. CASE HasResolved(p) /\ ~(rho < p.floor)
    <3>1. a.interval # Nothing /\ LowerEnd(p, rho, x) /\ UpperEnd(p, rho, y)
      BY <1>1, <1>2, <1>4, <2>3, IntervalCases DEF HasInterval
    <3>2. PICK lo, hi :
            /\ oracle = [lower |-> lo, upper |-> hi]
            /\ \/ rho = p.floor /\ lo = Dagger(p) /\ hi = Dagger(p)
               \/ /\ p.floor < rho
                  /\ lo = Lowest(MassesWithin(p, rho)) /\ hi = Highest(MassesWithin(p, rho))
      <4>1. CASE rho = p.floor
        BY <1>3, <1>6, <2>3, <4>1 DEF OracleInterval
      <4>2. CASE rho # p.floor
        BY <1>3, <1>5, <1>6, <2>3, <4>2 DEF OracleInterval
      <4> QED BY <4>1, <4>2
    <3>3. /\ lo \in Nat /\ hi \in Nat
          /\ Magnitude(x - lo) =< IdentityMass /\ Magnitude(y - hi) =< IdentityMass
      <4>1. p.floor =< rho
        BY <1>5, <2>3
      <4>2. CrossingIsSharp(p, rho)
        BY <1>1, <1>2, Zenon
      <4> QED BY <1>5, <2>3, <3>1, <3>2, <4>1, <4>2, EndsNearOracle
    <3>4. oracle # Nothing /\ oracle.lower = lo /\ oracle.upper = hi
      BY <3>2, <3>3 DEF Nothing, None
    <3>5. x \in Int /\ y \in Int
      BY <1>4, IntervalCases
    <3>6. ~Apart(a.interval, oracle)
      BY <1>4, <1>5, <3>3, <3>4, <3>5 DEF Apart, Magnitude
    <3> QED BY <3>1, <3>4, <3>6
  <2> QED BY <2>1, <2>2, <2>3
<1>8. \A r \in {r \in {a.roots.lower, a.roots.upper} : r.status # "NONE"} :
        /\ BracketWidth(r) =< RootAtol
        /\ r.status # "EXACT_BOUNDARY" => r.residual =< IdentityInformation
  BY DEF AnswerTrue, RootFits
<1> QED BY <1>1, <1>2, <1>3, <1>6, <1>7, <1>8 DEF Agrees

\* So every answer kept agrees or is contested.
LEMMA OracleAgrees == PopulationInv => SolverAgreesWithOracle
<1> SUFFICES ASSUME PopulationInv, NEW i \in DOMAIN answers
             PROVE  LET a == answers[i]
                        distance == Magnitude(a.rho - TauOrZero(a.population))
                        contested == /\ HasResolved(a.population) /\ distance =< ComparisonGuard
                                     /\ distance > 0 \/ a.population.unresolved = 0
                    IN Agrees(a) \/ contested \/ AtHorizon(experiment, i)
  BY DEF SolverAgreesWithOracle
<1> SUFFICES ASSUME ~AtHorizon(experiment, i)
             PROVE  LET a == answers[i]
                        distance == Magnitude(a.rho - TauOrZero(a.population))
                        contested == /\ HasResolved(a.population) /\ distance =< ComparisonGuard
                                     /\ distance > 0 \/ a.population.unresolved = 0
                    IN Agrees(a) \/ contested
  OBVIOUS
<1>1. PICK a : a = answers[i]
  OBVIOUS
<1>2. a \in AnswerRecord /\ AnswerTrue(a) /\ CrossingIsSharp(a.population, a.rho)
  BY <1>1, AnswersKnown
<1>3. PICK p : p = a.population
  OBVIOUS
<1>4. p \in Populations /\ a.rho \in Nat /\ p.floor \in Nat /\ ComparisonGuard \in Nat
  BY <1>2, <1>3, IntervalCases, MassFacts, ToleranceAssumption
<1>5. CASE HasResolved(p)
  <2>1. TauOrZero(p) = p.floor
    BY <1>5 DEF TauOrZero
  <2>2. PICK d : d = Magnitude(a.rho - p.floor)
    OBVIOUS
  <2>3. d \in Nat /\ (d = 0 => a.rho = p.floor)
    BY <1>4, <2>2 DEF Magnitude
  <2>4. CASE d > ComparisonGuard \/ (d = 0 /\ p.unresolved # 0)
    <3>1. \/ Magnitude(a.rho - a.population.floor) > ComparisonGuard
          \/ a.rho = a.population.floor /\ a.population.unresolved # 0
      BY <1>3, <2>2, <2>3, <2>4
    <3>2. Agrees(a)
      BY <1>2, <3>1, UncontestedAgrees
    <3> QED BY <1>1, <3>2
  <2>5. CASE d =< ComparisonGuard /\ (d > 0 \/ p.unresolved = 0)
    BY <1>1, <1>3, <1>5, <2>1, <2>2, <2>5
  <2> QED BY <1>4, <2>3, <2>4, <2>5
<1>6. CASE ~HasResolved(p)
  BY <1>1, <1>2, <1>3, <1>6, UncontestedAgrees
<1> QED BY <1>5, <1>6

\* For every call of every experiment the production solver and the oracle give the same
\* regime and, up to identity_atol, the same interval, whatever the shortcut certified and
\* however the profile was rounded; they may differ only at a budget within the guard of the
\* floor but not on it, or on it with no unresolved mass. The budget at the information of a
\* horizon, for which the code asks no oracle, is left out (compare_production_solver_to_oracle).
THEOREM SolverMatchesOracle == ExperimentSpec => []SolverAgreesWithOracle
  BY PopulationInvHolds, OracleAgrees, PTL

-----------------------------------------------------------------------------
(* Verdicts                                                                *)

\* A number is below the next multiple of a divisor.
LEMMA QuotientAbove ==
  ASSUME NEW n \in Nat, NEW d \in Nat \ {0}
  PROVE  n < (n \div d + 1) * d
OBVIOUS

\* Where the point of minimum information lies strictly below the unresolved mass.
LEMMA DaggerBelow ==
  ASSUME NEW p \in Populations, HasResolved(p)
  PROVE  (Dagger(p) < p.unresolved) = (p.correct > 0 /\ p.unresolved > 0)
<1>1. PICK h, c, w : h = p.harmful /\ c = p.correct /\ w = p.unresolved
  OBVIOUS
<1>2. PICK d : d = Dagger(p)
  OBVIOUS
<1>3. /\ h \in Nat /\ c \in Nat /\ w \in Nat /\ h + c > 0 /\ d \in 0..w
      /\ d = (h * w) \div (h + c)
  BY <1>1, <1>2, MassFacts DEF HasResolved, Resolved3, Dagger
<1>4. h * w \in Nat /\ h + c \in Nat \ {0}
  BY <1>3
<1>5. d * (h + c) =< h * w /\ h * w < (d + 1) * (h + c)
  BY <1>3, <1>4, QuotientBound, QuotientAbove
<1>6. CASE c > 0 /\ w > 0
  <2>1. w * c > 0 /\ w * (h + c) = h * w + w * c
    BY <1>3, <1>6
  <2>2. d # w
    BY <1>3, <1>4, <1>5, <2>1
  <2> QED BY <1>1, <1>2, <1>3, <1>6, <2>2
<1>7. CASE c = 0
  <2>1. h * w < (d + 1) * h
    BY <1>3, <1>5, <1>7
  <2>2. ASSUME d + 1 =< w PROVE FALSE
    <3>1. (d + 1) * h =< w * h
      BY <1>3, <2>2
    <3> QED BY <1>3, <2>1, <3>1
  <2>3. ~(d < w)
    BY <1>3, <2>2
  <2> QED BY <1>1, <1>2, <1>7, <2>3
<1>8. CASE w = 0
  BY <1>1, <1>2, <1>3, <1>8
<1> QED BY <1>3, <1>6, <1>7, <1>8

\* The middle of two different numbers, rounded down, is not the larger.
LEMMA HalfBetween ==
  ASSUME NEW x \in Int, NEW y \in Int, x < y
  PROVE  (x + y) \div 2 \in Int /\ x =< (x + y) \div 2 /\ (x + y) \div 2 < y
OBVIOUS

\* What the cases of a summary with resolved mass pass on: the risk of minimum information
\* lies between the resolved harm and the worst case.
LEMMA SafetyCases ==
  ASSUME NEW p \in Populations
  PROVE  (\A name \in DOMAIN ExpectedRegime : SafetyCasePasses(p, name))
           <=> /\ p.harmful > 0
               /\ p.harmful =< ThetaDagger(p) /\ ThetaDagger(p) < UnresolvedAsHarm(p)
<1>1. PICK h, w, m : h = p.harmful /\ w = p.unresolved /\ m = ThetaDagger(p)
  OBVIOUS
<1>2. PICK o : o = HarmOffset
  OBVIOUS
<1>3. /\ h \in Nat /\ w \in Nat /\ o \in Nat \ {0}
      /\ HasResolved(p) => m \in Int
      /\ h > 0 => HasResolved(p)
  <2>1. p.harmful \in Nat /\ p.unresolved \in Nat /\ p.correct \in Nat
    BY MassFacts
  <2>2. HasResolved(p) => ThetaDagger(p) \in Int
    BY ThetaFacts
  <2> QED BY <1>1, <1>2, <2>1, <2>2, ToleranceAssumption DEF Resolved3, HasResolved
<1> DEFINE below == IF h < o THEN 0 ELSE h - o
           between == IF HasResolved(p) /\ h # m THEN (h + m) \div 2 ELSE None
           at == IF HasResolved(p) THEN m ELSE None
           inside == IF HasResolved(p) THEN (m + (h + w)) \div 2 ELSE None
           top == h + w
           regime(b) == IF ~HasResolved(p) THEN "NO_RESOLVED_MASS"
                        ELSE IF b < h THEN "RESOLVED_HARM_EXCEEDS_BUDGET"
                        ELSE IF b < m THEN "INTRINSICALLY_UNCERTIFIABLE"
                        ELSE IF b < h + w THEN "INTERIOR_SAFETY_FRONTIER"
                        ELSE "ASSUMPTION_FREE_SAFE"
<1>4. \A b : SafetyRegime(p, b) = regime(b)
  BY <1>1 DEF SafetyRegime, UnresolvedAsHarm
<1>5. SafetyBudgetCases(p, HarmOffset) =
        [BELOW_RESOLVED_HARMFUL_MASS |-> below,
         BETWEEN_RESOLVED_MASS_AND_INTRINSIC_BOUNDARY |-> between,
         AT_INTRINSIC_BOUNDARY |-> at,
         INTERIOR_SAFETY_FRONTIER |-> inside,
         ASSUMPTION_FREE_BOUNDARY |-> top]
  BY <1>1, <1>2 DEF SafetyBudgetCases, UnresolvedAsHarm
<1> HIDE DEF below, between, at, inside, top, regime
<1>6. (\A name \in DOMAIN ExpectedRegime : SafetyCasePasses(p, name))
        <=> /\ below # None => regime(below) = "RESOLVED_HARM_EXCEEDS_BUDGET"
            /\ between # None => regime(between) = "INTRINSICALLY_UNCERTIFIABLE"
            /\ at # None => regime(at) = "INTERIOR_SAFETY_FRONTIER"
            /\ inside # None => regime(inside) = "INTERIOR_SAFETY_FRONTIER"
            /\ top # None => regime(top) = "ASSUMPTION_FREE_SAFE"
  BY <1>4, <1>5 DEF SafetyCasePasses, ExpectedRegime
<1>7. ASSUME h > 0, h =< m, m < h + w
      PROVE  /\ regime(below) = "RESOLVED_HARM_EXCEEDS_BUDGET"
             /\ between # None => regime(between) = "INTRINSICALLY_UNCERTIFIABLE"
             /\ regime(at) = "INTERIOR_SAFETY_FRONTIER"
             /\ regime(inside) = "INTERIOR_SAFETY_FRONTIER"
             /\ regime(top) = "ASSUMPTION_FREE_SAFE"
  <2>1. HasResolved(p) /\ m \in Int
    BY <1>3, <1>7
  <2>2. below \in Int /\ below < h
    BY <1>3, <1>7 DEF below
  <2>3. at = m /\ top = h + w
    BY <2>1 DEF at, top
  <2>4. inside \in Int /\ m =< inside /\ inside < h + w
    <3>1. inside = (m + (h + w)) \div 2 /\ h + w \in Int
      BY <1>3, <2>1 DEF inside
    <3> QED BY <1>7, <2>1, <3>1, HalfBetween
  <2>5. between # None => between \in Int /\ h =< between /\ between < m
    <3> SUFFICES ASSUME between # None PROVE between \in Int /\ h =< between /\ between < m
      OBVIOUS
    <3>1. h # m
      BY DEF between
    <3>2. h \in Int /\ h < m
      BY <1>3, <1>7, <2>1, <3>1
    <3>3. between = (h + m) \div 2
      BY <2>1, <3>1, Zenon DEF between
    <3> QED BY <2>1, <3>2, <3>3, HalfBetween
  <2> QED BY <1>3, <1>7, <2>1, <2>2, <2>3, <2>4, <2>5 DEF regime
<1>8. ASSUME h = 0
      PROVE  below # None /\ regime(below) # "RESOLVED_HARM_EXCEEDS_BUDGET"
  <2>1. below = 0
    BY <1>3, <1>8 DEF below
  <2> QED BY <1>3, <1>8, <2>1 DEF regime, None
<1>9. ASSUME h > 0, m < h \/ h + w =< m, m # None
      PROVE  at # None /\ regime(at) # "INTERIOR_SAFETY_FRONTIER"
  <2>1. HasResolved(p) /\ at = m /\ m \in Int
    BY <1>3, <1>9 DEF at
  <2> QED BY <1>3, <1>9, <2>1 DEF regime
<1>10. HasResolved(p) => m # None
  <2>1. HasResolved(p) => m \in Nat
    BY <1>1, LatentRiskAssumption
  <2> QED BY <2>1 DEF None
<1>11. (h > 0 /\ h =< m /\ m < h + w)
         <=> /\ p.harmful > 0
             /\ p.harmful =< ThetaDagger(p) /\ ThetaDagger(p) < UnresolvedAsHarm(p)
  BY <1>1 DEF UnresolvedAsHarm
<1>12. ASSUME ~(h > 0 /\ h =< m /\ m < h + w)
       PROVE  \/ below # None /\ regime(below) # "RESOLVED_HARM_EXCEEDS_BUDGET"
              \/ at # None /\ regime(at) # "INTERIOR_SAFETY_FRONTIER"
  <2>1. CASE h = 0
    BY <1>8, <2>1
  <2>2. CASE h > 0
    <3>1. m \in Int /\ m # None
      BY <1>3, <1>10, <2>2
    <3>2. m < h \/ h + w =< m
      BY <1>3, <1>12, <2>2, <3>1
    <3> QED BY <1>9, <2>2, <3>1, <3>2
  <2> QED BY <1>3, <2>1, <2>2
<1>13. (\A name \in DOMAIN ExpectedRegime : SafetyCasePasses(p, name))
         <=> (h > 0 /\ h =< m /\ m < h + w)
  BY <1>6, <1>7, <1>12
<1> QED BY <1>11, <1>13

\* In masses: the cases pass just when none is zero, but for the guard of the latent risk.
LEMMA SafetyMasses ==
  ASSUME NEW p \in Populations
  PROVE  LET near(x, y) == Magnitude(x - y) =< ComparisonGuard
         IN IF \A name \in DOMAIN ExpectedRegime : SafetyCasePasses(p, name)
            THEN /\ p.harmful > 0 /\ p.unresolved > 0
                 /\ Resolved3(p) > p.harmful \/ near(ThetaDagger(p), UnresolvedAsHarm(p))
            ELSE \/ p.harmful = 0 \/ Resolved3(p) = p.harmful \/ p.unresolved = 0
                 \/ near(ThetaDagger(p), p.harmful) \/ near(ThetaDagger(p), UnresolvedAsHarm(p))
<1>1. PICK h, c, w, m, d, g : /\ h = p.harmful /\ c = p.correct /\ w = p.unresolved
                              /\ m = ThetaDagger(p) /\ d = Dagger(p) /\ g = ComparisonGuard
  OBVIOUS
<1>2. h \in Nat /\ c \in Nat /\ w \in Nat /\ g \in Nat
  BY <1>1, MassFacts, ToleranceAssumption
<1>3. /\ Resolved3(p) = h + c /\ UnresolvedAsHarm(p) = h + w
      /\ HasResolved(p) <=> h + c > 0
  BY <1>1 DEF Resolved3, UnresolvedAsHarm, HasResolved
<1>4. h + c > 0 => /\ m \in Int /\ d \in 0..w /\ h + d =< m + g /\ m =< h + d + g
                   /\ d < w <=> c > 0 /\ w > 0
  <2> SUFFICES ASSUME h + c > 0
               PROVE  /\ m \in Int /\ d \in 0..w /\ h + d =< m + g /\ m =< h + d + g
                      /\ d < w <=> c > 0 /\ w > 0
    OBVIOUS
  <2>1. HasResolved(p)
    BY <1>3
  <2>2. m \in Int /\ h + d =< m + g /\ m =< h + d + g
    BY <1>1, <2>1, ThetaFacts
  <2>3. d \in 0..w /\ (d < w <=> c > 0 /\ w > 0)
    BY <1>1, <2>1, MassFacts, DaggerBelow
  <2> QED BY <2>2, <2>3
<1>5. (\A name \in DOMAIN ExpectedRegime : SafetyCasePasses(p, name)) <=> (h > 0 /\ h =< m /\ m < h + w)
  BY <1>1, <1>3, SafetyCases
<1>6. ASSUME h > 0, h =< m, m < h + w
      PROVE  w > 0 /\ (h + c > h \/ Magnitude(m - (h + w)) =< g)
  <2>1. h + c > 0
    BY <1>2, <1>6
  <2>2. m \in Int /\ d \in 0..w /\ h + d =< m + g /\ (d < w <=> c > 0 /\ w > 0)
    BY <1>4, <2>1
  <2>3. w > 0
    BY <1>2, <1>6, <2>2
  <2>4. CASE c > 0
    BY <1>2, <2>3, <2>4
  <2>5. CASE c = 0
    <3>1. d = w
      BY <1>2, <2>2, <2>5
    <3>2. h + w =< m + g
      BY <2>2, <3>1
    <3>3. m < h + w /\ h + w \in Int
      BY <1>2, <1>6
    <3>4. Magnitude(m - (h + w)) =< g
      BY <1>2, <2>2, <3>2, <3>3 DEF Magnitude
    <3> QED BY <2>3, <3>4
  <2> QED BY <1>2, <2>4, <2>5
<1>7. ASSUME ~(h > 0 /\ h =< m /\ m < h + w), h > 0, c > 0, w > 0
      PROVE  Magnitude(m - h) =< g \/ Magnitude(m - (h + w)) =< g
  <2>1. m \in Int /\ d \in 0..w /\ h + d =< m + g /\ m =< h + d + g
    BY <1>2, <1>4, <1>7
  <2>2. CASE m < h
    BY <1>2, <2>1, <2>2 DEF Magnitude
  <2>3. CASE h + w =< m
    <3>1. m =< h + w + g /\ h + w \in Int
      BY <1>2, <2>1
    <3> QED BY <1>2, <2>1, <2>3, <3>1 DEF Magnitude
  <2> QED BY <1>2, <1>7, <2>1, <2>2, <2>3
<1>8. h + c > h <=> c > 0
  BY <1>2
<1>9. h + c = h <=> c = 0
  BY <1>2
<1>10. CASE h > 0 /\ h =< m /\ m < h + w
  BY <1>1, <1>3, <1>5, <1>6, <1>10
<1>11. CASE ~(h > 0 /\ h =< m /\ m < h + w)
  <2>1. h = 0 \/ c = 0 \/ w = 0 \/ Magnitude(m - h) =< g \/ Magnitude(m - (h + w)) =< g
    BY <1>2, <1>7, <1>11
  <2> QED BY <1>1, <1>3, <1>5, <1>9, <1>11, <2>1
<1> QED BY <1>10, <1>11

\* The upper risk of an answer lies between the intrinsic risk and the worst case.
LEMMA UpperFacts ==
  ASSUME NEW a \in AnswerRecord, AnswerTrue(a)
  PROVE  /\ RiskUpper(a) \in Int
         /\ HasInterval(a) <=> (HasResolved(a.population) => a.population.floor =< a.rho)
         /\ HasInterval(a) => RiskUpper(a) =< UnresolvedAsHarm(a.population)
         /\ HasInterval(a) /\ HasResolved(a.population) =>
              /\ a.population.harmful + Dagger(a.population) =< RiskUpper(a)
              /\ ThetaDagger(a.population) =< RiskUpper(a) + ComparisonGuard
<1>1. PICK p : p = a.population
  OBVIOUS
<1>2. /\ p \in Populations /\ a.rho \in Nat /\ a.interval.upper \in Int
      /\ p.harmful \in Nat /\ p.floor \in Nat /\ p.unresolved \in Nat
      /\ HasResolved(p) => Dagger(p) \in 0..p.unresolved
  BY <1>1, IntervalCases, MassFacts
<1>3. HasInterval(a) <=> (HasResolved(p) => p.floor =< a.rho)
  BY <1>1, <1>2, IntervalCases
<1>4. HasInterval(a) => /\ a.interval.upper =< p.unresolved
                        /\ HasResolved(p) => Dagger(p) =< a.interval.upper
  <2> SUFFICES ASSUME HasInterval(a)
               PROVE  a.interval.upper =< p.unresolved /\ (HasResolved(p) => Dagger(p) =< a.interval.upper)
    OBVIOUS
  <2>1. a.interval.lower \in 0..p.unresolved /\ a.interval.upper \in a.interval.lower..p.unresolved
    BY <1>1, EndsInside
  <2>2. HasResolved(p) => Dagger(p) =< a.interval.upper
    BY <1>1, EndsInside
  <2> QED BY <1>2, <2>1, <2>2
<1>5. /\ RiskUpper(a) = p.harmful + a.interval.upper
      /\ UnresolvedAsHarm(p) = p.harmful + p.unresolved
  BY <1>1 DEF RiskUpper, UnresolvedAsHarm
<1>6. HasInterval(a) /\ HasResolved(p) =>
        /\ p.harmful + Dagger(p) =< RiskUpper(a)
        /\ ThetaDagger(p) =< RiskUpper(a) + ComparisonGuard
  <2> SUFFICES ASSUME HasInterval(a), HasResolved(p)
               PROVE  /\ p.harmful + Dagger(p) =< RiskUpper(a)
                      /\ ThetaDagger(p) =< RiskUpper(a) + ComparisonGuard
    OBVIOUS
  <2>1. PICK m, d : m = ThetaDagger(p) /\ d = Dagger(p)
    OBVIOUS
  <2>2. m \in Int /\ d \in Int /\ ComparisonGuard \in Nat /\ m =< p.harmful + d + ComparisonGuard
    BY <1>2, <2>1, ThetaFacts
  <2> QED BY <1>2, <1>4, <1>5, <2>1, <2>2
<1> QED BY <1>1, <1>2, <1>3, <1>4, <1>5, <1>6

\* The three states of an answer and a risk budget, side by side.
LEMMA ThreeStates ==
  ASSUME NEW a \in AnswerRecord, AnswerTrue(a), NEW p, p = a.population, NEW beta \in Int
  PROVE  /\ BoundaryState(a, beta) =
              IF ~HasInterval(a) THEN "MODEL_INCOMPATIBLE"
              ELSE IF HasResolved(p) /\ ThetaDagger(p) > beta THEN "INTRINSICALLY_UNCERTIFIABLE"
              ELSE IF RiskUpper(a) =< beta THEN "CERTIFIED" ELSE "UNCERTIFIED"
         /\ StateByClass[Feasibility(a, beta)] =
              IF HasResolved(p) /\ p.floor > a.rho + ComparisonGuard THEN "MODEL_INCOMPATIBLE"
              ELSE IF HasResolved(p) /\ ThetaDagger(p) > beta + ComparisonGuard
                   THEN "INTRINSICALLY_UNCERTIFIABLE"
              ELSE IF ~HasInterval(a) THEN "MODEL_INCOMPATIBLE"
              ELSE IF RiskUpper(a) =< beta THEN "CERTIFIED" ELSE "UNCERTIFIED"
         /\ TrajectoryState(a, beta) =
              IF ~HasInterval(a) THEN "MODEL_INCOMPATIBLE"
              ELSE IF HasResolved(p) /\ ThetaDagger(p) > beta + ComparisonGuard
                   THEN "INTRINSICALLY_UNCERTIFIABLE"
              ELSE IF RiskUpper(a) =< beta THEN "CERTIFIED" ELSE "UNCERTIFIED"
<1>1. p \in Populations /\ a.rho \in Nat /\ p.floor \in Nat /\ p.unresolved \in Nat
  BY IntervalCases, MassFacts
<1>2. PICK r : r = RiskUpper(a)
  OBVIOUS
<1>3. r \in Int /\ (HasInterval(a) <=> (HasResolved(p) => p.floor =< a.rho))
  BY <1>2, UpperFacts
<1>4. HasResolved(p) => Tau(p) = p.floor
  BY DEF Tau
<1>5. BoundaryState(a, beta) =
        IF ~HasInterval(a) THEN "MODEL_INCOMPATIBLE"
        ELSE IF HasResolved(p) /\ ThetaDagger(p) > beta THEN "INTRINSICALLY_UNCERTIFIABLE"
        ELSE IF r =< beta THEN "CERTIFIED" ELSE "UNCERTIFIED"
  <2>1. HasInterval(a) => ~(HasResolved(p) /\ Tau(p) > a.rho)
    BY <1>1, <1>3, <1>4
  <2> QED BY <1>2, <2>1 DEF BoundaryState
<1>6. TrajectoryState(a, beta) =
        IF ~HasInterval(a) THEN "MODEL_INCOMPATIBLE"
        ELSE IF HasResolved(p) /\ ThetaDagger(p) > beta + ComparisonGuard
             THEN "INTRINSICALLY_UNCERTIFIABLE"
        ELSE IF r =< beta THEN "CERTIFIED" ELSE "UNCERTIFIED"
  <2>1. (Regime(p, a.rho) = "MODEL_INCOMPATIBLE") <=> ~HasInterval(a)
    BY <1>1, <1>3 DEF Regime
  <2> QED BY <1>2, <2>1 DEF TrajectoryState
<1>7. StateByClass[Feasibility(a, beta)] =
        IF HasResolved(p) /\ p.floor > a.rho + ComparisonGuard THEN "MODEL_INCOMPATIBLE"
        ELSE IF HasResolved(p) /\ ThetaDagger(p) > beta + ComparisonGuard
             THEN "INTRINSICALLY_UNCERTIFIABLE"
        ELSE IF ~HasInterval(a) THEN "MODEL_INCOMPATIBLE"
        ELSE IF r =< beta THEN "CERTIFIED" ELSE "UNCERTIFIED"
  <2>1. Feasibility(a, beta) =
          IF HasResolved(p) /\ p.floor > a.rho + ComparisonGuard THEN "MODEL_INCOMPATIBLE"
          ELSE IF HasResolved(p) /\ ThetaDagger(p) > beta + ComparisonGuard
               THEN "INTRINSICALLY_UNCERTIFIABLE"
          ELSE IF ~HasInterval(a) THEN "MODEL_INCOMPATIBLE"
          ELSE IF beta < r THEN "COMPATIBLE_NOT_CERTIFIABLE"
          ELSE IF beta - r < BoundaryMargin THEN "BOUNDARY_CERTIFIABLE" ELSE "STRICTLY_CERTIFIABLE"
    BY <1>2, <1>4 DEF Feasibility
  <2>2. (beta < r) <=> ~(r =< beta)
    BY <1>3
  <2>3. /\ StateByClass["MODEL_INCOMPATIBLE"] = "MODEL_INCOMPATIBLE"
        /\ StateByClass["INTRINSICALLY_UNCERTIFIABLE"] = "INTRINSICALLY_UNCERTIFIABLE"
        /\ StateByClass["COMPATIBLE_NOT_CERTIFIABLE"] = "UNCERTIFIED"
        /\ StateByClass["BOUNDARY_CERTIFIABLE"] = "CERTIFIED"
        /\ StateByClass["STRICTLY_CERTIFIABLE"] = "CERTIFIED"
    BY DEF StateByClass
  <2> QED BY <2>1, <2>2, <2>3
<1> QED BY <1>2, <1>5, <1>6, <1>7

\* They differ only inside the guard; the two with it agree on certification, and the one
\* without it certifies nothing they do not.
LEMMA StatesAgree ==
  ASSUME NEW a \in AnswerRecord, AnswerTrue(a), NEW p, p = a.population, NEW beta \in Int
  PROVE  /\ \/ /\ HasResolved(p)
               /\ \/ a.rho < Tau(p) /\ Tau(p) =< a.rho + ComparisonGuard
                  \/ beta < ThetaDagger(p) /\ ThetaDagger(p) =< beta + ComparisonGuard
            \/ /\ BoundaryState(a, beta) = StateByClass[Feasibility(a, beta)]
               /\ BoundaryState(a, beta) = TrajectoryState(a, beta)
         /\ (StateByClass[Feasibility(a, beta)] = "CERTIFIED") = (TrajectoryState(a, beta) = "CERTIFIED")
         /\ BoundaryState(a, beta) = "CERTIFIED" => StateByClass[Feasibility(a, beta)] = "CERTIFIED"
<1>1. /\ p \in Populations /\ a.rho \in Nat /\ p.floor \in Nat /\ p.unresolved \in Nat
      /\ p.harmful \in Nat /\ ComparisonGuard \in Nat
  BY IntervalCases, MassFacts, ToleranceAssumption
<1>2. PICK r, th, bs, ds, ts, f :
        /\ r = RiskUpper(a) /\ th = ThetaDagger(p) /\ bs = BoundaryState(a, beta)
        /\ ds = StateByClass[Feasibility(a, beta)] /\ ts = TrajectoryState(a, beta) /\ f = p.floor
  OBVIOUS
<1>3. r \in Int /\ (HasInterval(a) <=> (HasResolved(p) => f =< a.rho))
  BY <1>2, UpperFacts
<1>4. HasResolved(p) => Tau(p) = f /\ th \in Int
  BY <1>1, <1>2, ThetaFacts DEF Tau
<1>5. /\ bs = IF ~HasInterval(a) THEN "MODEL_INCOMPATIBLE"
              ELSE IF HasResolved(p) /\ th > beta THEN "INTRINSICALLY_UNCERTIFIABLE"
              ELSE IF r =< beta THEN "CERTIFIED" ELSE "UNCERTIFIED"
      /\ ds = IF HasResolved(p) /\ f > a.rho + ComparisonGuard THEN "MODEL_INCOMPATIBLE"
              ELSE IF HasResolved(p) /\ th > beta + ComparisonGuard THEN "INTRINSICALLY_UNCERTIFIABLE"
              ELSE IF ~HasInterval(a) THEN "MODEL_INCOMPATIBLE"
              ELSE IF r =< beta THEN "CERTIFIED" ELSE "UNCERTIFIED"
      /\ ts = IF ~HasInterval(a) THEN "MODEL_INCOMPATIBLE"
              ELSE IF HasResolved(p) /\ th > beta + ComparisonGuard THEN "INTRINSICALLY_UNCERTIFIABLE"
              ELSE IF r =< beta THEN "CERTIFIED" ELSE "UNCERTIFIED"
  BY <1>2, ThreeStates
<1>6. CASE ~HasResolved(p)
  BY <1>2, <1>3, <1>5, <1>6
<1>7. CASE HasResolved(p)
  <2>1. f \in Int /\ a.rho \in Int /\ th \in Int /\ Tau(p) = f
    BY <1>1, <1>2, <1>4, <1>7
  <2>2. CASE ~HasInterval(a)
    BY <1>1, <1>2, <1>3, <1>5, <1>7, <2>1, <2>2
  <2>3. CASE HasInterval(a)
    BY <1>1, <1>2, <1>3, <1>5, <1>7, <2>1, <2>3
  <2> QED BY <2>2, <2>3
<1> QED BY <1>6, <1>7

\* A bound that is material certifies a budget the worst case does not.
LEMMA MaterialCertifies ==
  ASSUME NEW a \in AnswerRecord, AnswerTrue(a), NEW p, p = a.population, MateriallyNonvacuous(a)
  PROVE  TrajectoryState(a, UnresolvedAsHarm(p) - Tightening) = "CERTIFIED"
<1>1. /\ p \in Populations /\ p.harmful \in Nat /\ p.unresolved \in Nat /\ Tightening \in Int
      /\ ComparisonGuard \in Nat
  BY IntervalCases, MassFacts, ToleranceAssumption
<1>2. PICK r, top : r = RiskUpper(a) /\ top = UnresolvedAsHarm(p)
  OBVIOUS
<1>3. r \in Int /\ HasInterval(a) /\ top - r >= Tightening
  BY <1>2, UpperFacts DEF MateriallyNonvacuous
<1>4. HasResolved(p) => ThetaDagger(p) \in Int /\ ThetaDagger(p) =< r + ComparisonGuard
  BY <1>1, <1>2, <1>3, ThetaFacts, UpperFacts
<1>5. top \in Int
  BY <1>1, <1>2 DEF UnresolvedAsHarm
<1>6. PICK b : b = top - Tightening
  OBVIOUS
<1>7. b \in Int /\ r =< b
  BY <1>1, <1>3, <1>5, <1>6
<1>8. HasResolved(p) => ~(ThetaDagger(p) > b + ComparisonGuard)
  BY <1>1, <1>3, <1>4, <1>7
<1> QED BY <1>2, <1>3, <1>6, <1>7, <1>8, ThreeStates

\* A certified budget is, up to identity_atol, one the safety frontier allows.
LEMMA CertifiedAllowed ==
  ASSUME NEW a \in AnswerRecord, AnswerTrue(a), NEW p, p = a.population, NEW beta \in Int,
         HasResolved(p), CrossingIsSharp(p, a.rho), BoundaryState(a, beta) = "CERTIFIED"
  PROVE  \/ SafetyRegime(p, beta + IdentityMass) = "ASSUMPTION_FREE_SAFE"
         \/ SafetyFrontier(p, beta + IdentityMass) >= a.rho
<1>1. /\ p \in Populations /\ a.rho \in Nat /\ p.harmful \in Nat /\ p.unresolved \in Nat
      /\ p.floor \in Nat /\ Dagger(p) \in 0..p.unresolved
  BY IntervalCases, MassFacts
<1>2. IdentityMass \in Nat /\ RootAtol \in Nat \ {0} /\ 2 * RootAtol =< IdentityMass
  BY HalfMass
<1>3. PICK y, m : y = a.interval.upper /\ m = ThetaDagger(p)
  OBVIOUS
<1>4. /\ HasInterval(a) /\ y \in Int /\ RiskUpper(a) = p.harmful + y
      /\ p.harmful + y =< beta /\ Dagger(p) =< y /\ m \in Int /\ m =< beta
  <2>1. HasInterval(a) /\ RiskUpper(a) =< beta /\ ~(m > beta)
    BY <1>3, ThreeStates
  <2>2. y \in Int /\ RiskUpper(a) = p.harmful + y
    BY <1>3, IntervalCases DEF RiskUpper
  <2>3. p.harmful + Dagger(p) =< RiskUpper(a)
    BY <2>1, UpperFacts
  <2>4. m \in Int
    BY <1>1, <1>3, ThetaFacts
  <2> QED BY <1>1, <2>1, <2>2, <2>3, <2>4
<1>5. PICK b : b = beta + IdentityMass
  OBVIOUS
<1>6. CASE b >= p.harmful + p.unresolved
  BY <1>1, <1>2, <1>3, <1>4, <1>5, <1>6 DEF SafetyRegime, UnresolvedAsHarm
<1>7. CASE b < p.harmful + p.unresolved
  <2>1. SafetyRegime(p, b) = "INTERIOR_SAFETY_FRONTIER"
    BY <1>1, <1>2, <1>3, <1>4, <1>5, <1>7 DEF SafetyRegime, UnresolvedAsHarm
  <2>2. PICK u : u = b - p.harmful
    OBVIOUS
  <2>3. SafetyFrontier(p, b) = Information(p, u)
    BY <2>1, <2>2 DEF SafetyFrontier
  <2>4. u \in 0..p.unresolved /\ u - y >= IdentityMass
    BY <1>1, <1>2, <1>4, <1>5, <1>7, <2>2
  <2>5. Excess(p, u) \in Nat /\ Information(p, u) = Excess(p, u) + p.floor
    BY <1>1, <2>4, MassFacts
  <2>6. ASSUME Information(p, u) < a.rho PROVE FALSE
    <3>1. Information(p, u) + 0 =< a.rho
      BY <1>1, <2>5, <2>6
    <3>2. LowerEnd(p, a.rho, a.interval.lower) /\ UpperEnd(p, a.rho, y)
      <4>1. p.floor =< a.rho
        BY <1>4, UpperFacts
      <4> QED BY <1>1, <1>3, <4>1, IntervalCases
    <3>3. p.floor < a.rho
      BY <1>1, <2>5, <2>6
    <3>4. 2 * (u - y) =< IdentityMass
      <4>1. u \in 0..p.unresolved /\ 0 \in Slack
        BY <2>4, SlackIsInt
      <4> QED BY <1>1, <3>1, <3>2, <3>3, <4>1, IntervalContains
    <3>5. 2 * IdentityMass =< IdentityMass
      BY <1>1, <1>2, <1>4, <2>4, <3>4
    <3> QED BY <1>2, <3>5
  <2> QED BY <1>1, <1>5, <2>3, <2>5, <2>6
<1> QED BY <1>1, <1>2, <1>4, <1>5, <1>6, <1>7

\* A budget that stays uncertified is, up to identity_atol, one it does not allow, unless the
\* budget is within the guard of the latent risk of the point of minimum information.
LEMMA UncertifiedForbidden ==
  ASSUME NEW a \in AnswerRecord, AnswerTrue(a), NEW p, p = a.population, NEW beta \in Int,
         HasResolved(p), CrossingIsSharp(p, a.rho), BoundaryState(a, beta) = "UNCERTIFIED",
         ~(Magnitude((beta - IdentityMass) - ThetaDagger(p)) =< ComparisonGuard)
  PROVE  /\ SafetyRegime(p, beta - IdentityMass) # "ASSUMPTION_FREE_SAFE"
         /\ ~(SafetyFrontier(p, beta - IdentityMass) >= a.rho)
<1>1. /\ p \in Populations /\ a.rho \in Nat /\ p.harmful \in Nat /\ p.unresolved \in Nat
      /\ p.floor \in Nat /\ Dagger(p) \in 0..p.unresolved
  BY IntervalCases, MassFacts
<1>2. IdentityMass \in Nat /\ RootAtol \in Nat \ {0} /\ 2 * RootAtol =< IdentityMass
  BY HalfMass
<1>3. PICK y, m : y = a.interval.upper /\ m = ThetaDagger(p)
  OBVIOUS
<1>4. PICK b : b = beta - IdentityMass
  OBVIOUS
<1>5. HasInterval(a) /\ y \in Int /\ p.harmful + y > beta /\ y =< p.unresolved /\ UpperEnd(p, a.rho, y)
  <2>1. HasInterval(a) /\ ~(RiskUpper(a) =< beta)
    BY ThreeStates
  <2>2. y \in Int /\ RiskUpper(a) = p.harmful + y
    BY <1>3, IntervalCases DEF RiskUpper
  <2>3. p.floor =< a.rho
    BY <2>1, UpperFacts
  <2>4. UpperEnd(p, a.rho, y)
    BY <1>1, <1>3, <2>3, IntervalCases
  <2> QED BY <1>1, <2>1, <2>2, <2>4 DEF UpperEnd
<1>6. SafetyRegime(p, b) # "ASSUMPTION_FREE_SAFE"
  <2>1. b < p.harmful + p.unresolved
    BY <1>1, <1>2, <1>4, <1>5
  <2> QED BY <2>1 DEF SafetyRegime, UnresolvedAsHarm
<1>7. CASE SafetyRegime(p, b) # "INTERIOR_SAFETY_FRONTIER"
  <2>1. SafetyFrontier(p, b) = -1
    BY <1>7 DEF SafetyFrontier, None
  <2> QED BY <1>1, <1>4, <1>6, <2>1
<1>8. CASE SafetyRegime(p, b) = "INTERIOR_SAFETY_FRONTIER"
  <2>1. b >= p.harmful + Dagger(p) /\ b < p.harmful + p.unresolved
    <3>1. b \in Int /\ ~(b < m) /\ b < p.harmful + p.unresolved
      BY <1>1, <1>2, <1>3, <1>4, <1>8 DEF SafetyRegime, UnresolvedAsHarm
    <3>2. /\ m \in Int /\ ComparisonGuard \in Nat
          /\ p.harmful + Dagger(p) =< m + ComparisonGuard
      BY <1>1, <1>3, ThetaFacts
    <3>3. ~(Magnitude(b - m) =< ComparisonGuard)
      BY <1>3, <1>4
    <3>4. b > m + ComparisonGuard
      BY <3>1, <3>2, <3>3 DEF Magnitude
    <3> QED BY <1>1, <3>1, <3>2, <3>4
  <2>2. PICK u : u = b - p.harmful
    OBVIOUS
  <2>3. SafetyFrontier(p, b) = Information(p, u)
    BY <1>8, <2>2 DEF SafetyFrontier
  <2>4. u \in Dagger(p)..p.unresolved /\ u \in 0..p.unresolved /\ y - u > IdentityMass
    BY <1>1, <1>2, <1>4, <1>5, <2>1, <2>2
  <2>5. ASSUME Information(p, u) >= a.rho PROVE FALSE
    <3>1. PICK v \in Dagger(p)..p.unresolved, s \in Slack :
            v =< y /\ 2 * (y - v) =< RootAtol /\ Information(p, v) + s =< a.rho
      BY <1>5 DEF UpperEnd
    <3>2. v \in 0..p.unresolved /\ s \in Int /\ 0 \in Slack
      BY <1>1, SlackIsInt
    <3>3. /\ Excess(p, u) \in Nat /\ Information(p, u) = Excess(p, u) + p.floor
          /\ Excess(p, v) \in Nat /\ Information(p, v) = Excess(p, v) + p.floor
      BY <1>1, <2>4, <3>2, MassFacts
    <3>4. p.floor < a.rho
      <4>1. a.rho # p.floor
        BY <1>1, <1>2, <1>5, <2>4 DEF UpperEnd
      <4>2. p.floor =< a.rho
        BY <1>5, UpperFacts
      <4> QED BY <1>1, <4>1, <4>2
    <3>5. a.rho =< Information(p, u) + 0
      BY <1>1, <2>5, <3>3
    <3>6. 2 * (RootAtol + v - u) =< IdentityMass
      BY <1>1, <2>4, <3>1, <3>2, <3>4, <3>5, NearAbove
    <3> QED BY <1>1, <1>2, <1>5, <2>4, <3>1, <3>2, <3>6
  <2> QED BY <1>4, <1>6, <2>3, <2>5
<1> QED BY <1>7, <1>8

\* A boundary experiment makes one call, and its risk budget is a number of ticks.
LEMMA BoundaryCall ==
  ASSUME NEW e \in Experiments, e.kind = "BOUNDARY"
  PROVE  /\ Len(Calls(e)) = 1 /\ Calls(e)[1].population = e.population
         /\ BoundaryBeta(e) \in Int
<1>1. Calls(e) = <<Call(e.population, BoundaryRho(e))>>
  BY DEF Calls
<1>2. Len(Calls(e)) = 1 /\ Calls(e)[1].population = e.population
  BY <1>1 DEF Call
<1>3. /\ e.beta \in Nat /\ e.level \in Int /\ Whole \in Nat
      /\ HasResolved(e.population) => ThetaDagger(e.population) \in Int
  BY ExperimentsAssumption, PopulationAssumption, ThetaFacts
<1>4. PICK k : k = e.level + IF HasResolved(e.population) THEN ThetaDagger(e.population) ELSE 0
  OBVIOUS
<1>5. k \in Int
  BY <1>3, <1>4
<1>6. BoundaryBeta(e) = IF e.axis # "RISK_OFFSET" THEN e.beta
                        ELSE IF k < 0 THEN 0 ELSE IF k > Whole THEN Whole ELSE k
  BY <1>4 DEF BoundaryBeta
<1>7. BoundaryBeta(e) \in Int
  BY <1>3, <1>5, <1>6
<1> QED BY <1>2, <1>7

\* The verdicts on the one answer of a concluded boundary experiment.
LEMMA VerdictsHold == PopulationInv => VerdictsAgree
<1> SUFFICES ASSUME PopulationInv, stage = "concluded", experiment.kind = "BOUNDARY"
             PROVE  VerdictsAgree
  BY DEF VerdictsAgree, Concluded
<1>1. PICK a : a = Last
  OBVIOUS
<1>2. PICK p : p = experiment.population
  OBVIOUS
<1>3. PICK beta : beta = BoundaryBeta(experiment)
  OBVIOUS
<1>4. /\ a \in AnswerRecord /\ AnswerTrue(a) /\ p = a.population /\ beta \in Int
      /\ CrossingIsSharp(p, a.rho)
  <2>1. Len(Calls(experiment)) = 1 /\ Calls(experiment)[1].population = p /\ beta \in Int
    BY <1>2, <1>3, ConcludedAnswers, BoundaryCall
  <2>2. Len(answers) = 1 /\ 1 \in 1..Len(Calls(experiment))
    BY <2>1, ConcludedAnswers
  <2>3. a = answers[1] /\ experiment.kind # "TRAJECTORY"
    BY <1>1, <2>2 DEF Last
  <2> QED BY <2>1, <2>2, <2>3, ConcludedAnswers
<1>5. p \in Populations /\ IdentityMass \in Nat
  BY <1>4, IntervalCases, ToleranceAssumption
<1> DEFINE allowed(b) == \/ SafetyRegime(p, b) = "ASSUMPTION_FREE_SAFE"
                         \/ SafetyFrontier(p, b) >= a.rho
           inside(x, y) == x < y /\ y =< x + ComparisonGuard
           near(x, y) == Magnitude(x - y) =< ComparisonGuard
<1>6. /\ \/ HasResolved(p) /\ (inside(a.rho, Tau(p)) \/ inside(beta, ThetaDagger(p)))
         \/ /\ BoundaryState(a, beta) = StateByClass[Feasibility(a, beta)]
            /\ BoundaryState(a, beta) = TrajectoryState(a, beta)
      /\ (StateByClass[Feasibility(a, beta)] = "CERTIFIED") = (TrajectoryState(a, beta) = "CERTIFIED")
      /\ BoundaryState(a, beta) = "CERTIFIED" => StateByClass[Feasibility(a, beta)] = "CERTIFIED"
  BY <1>4, StatesAgree
<1>7. ASSUME BoundaryState(a, beta) = "CERTIFIED", HasResolved(p)
      PROVE  \E b \in beta..beta + IdentityMass : allowed(b)
  <2>1. allowed(beta + IdentityMass)
    BY <1>4, <1>7, CertifiedAllowed
  <2>2. beta + IdentityMass \in beta..beta + IdentityMass
    BY <1>4, <1>5
  <2> HIDE DEF allowed
  <2> QED BY <2>1, <2>2
<1>8. BoundaryState(a, beta) = "UNCERTIFIED" /\ HasResolved(p) =>
        ~allowed(beta - IdentityMass) \/ near(beta - IdentityMass, ThetaDagger(p))
  BY <1>4, UncertifiedForbidden
<1>9. MateriallyNonvacuous(a) => TrajectoryState(a, UnresolvedAsHarm(p) - Tightening) = "CERTIFIED"
  BY <1>4, MaterialCertifies
<1>10. IF \A name \in DOMAIN ExpectedRegime : SafetyCasePasses(p, name)
       THEN /\ p.harmful > 0 /\ p.unresolved > 0
            /\ Resolved3(p) > p.harmful \/ near(ThetaDagger(p), UnresolvedAsHarm(p))
       ELSE \/ p.harmful = 0 \/ Resolved3(p) = p.harmful \/ p.unresolved = 0
            \/ near(ThetaDagger(p), p.harmful) \/ near(ThetaDagger(p), UnresolvedAsHarm(p))
  BY <1>5, SafetyMasses
<1> QED BY <1>1, <1>2, <1>3, <1>6, <1>7, <1>8, <1>9, <1>10 DEF VerdictsAgree

\* The three classifications of an answer against a risk budget differ only inside the guard;
\* the two with it agree on certification and the one without certifies nothing they do not. A
\* certified budget is one the safety frontier allows and an uncertified one it forbids, up to
\* identity_atol and the guard of the latent risk; a material bound certifies a budget the
\* worst case does not; and the safety cases lie in their regimes just when no mass is zero,
\* but for a latent risk within the guard of an end, however the quotient that gives it is
\* rounded (_population_state, _classify_feasibility, _classify_scientific_state,
\* assess_safety_geometry, population_sensitivity_utility, safety_budget_cases).
THEOREM VerdictsNeverConflict == ExperimentSpec => []VerdictsAgree
  BY PopulationInvHolds, VerdictsHold, PTL
================================================================================

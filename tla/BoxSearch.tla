------------------------------ MODULE BoxSearch ------------------------------
(***************************************************************************)
(* The boxes that inference/projection.py searches, and the bounds it      *)
(* takes on them.  A box is an interval of resolved harmful mass, one of   *)
(* resolved correct mass and one of hidden terminal harmful mass.  Masses  *)
(* are integers in units of 1/Unit, on which the code's directed rounding  *)
(* is exact.  Entropy is a parameter: of the functions the code evaluates  *)
(* with ball arithmetic the search uses no more than EntropyBounds says.   *)
(***************************************************************************)
EXTENDS Integers

CONSTANTS
  Unit,                       \* the mass 1.0
  MassEntropy(_, _),          \* the entropy of a pair of masses
  MassEntropyUpper(_, _, _, _) \* its upper bound over two intervals of mass

Mass == 0..Unit

ASSUME UnitAssumption == Unit \in Nat \ {0}

\* What ball arithmetic on a concave function yields: the least corner is a
\* lower bound over a rectangle, and the interval evaluation is an upper one.
ASSUME EntropyBounds ==
  /\ \A x, y \in Mass : MassEntropy(x, y) \in Int
  /\ \A a, b, c, d \in Mass : MassEntropyUpper(a, b, c, d) \in Int
  /\ \A a, b, c, d \in Mass : \A x \in a..b, y \in c..d :
       /\ MassEntropy(x, y) =< MassEntropyUpper(a, b, c, d)
       /\ \E l \in {a, b}, m \in {c, d} : MassEntropy(l, m) =< MassEntropy(x, y)

ASSUME ThetaEntropyBounds ==
  \A a, b \in Mass : \A x \in a..b :
    \E t \in {a, b} : MassEntropy(t, Unit - t) =< MassEntropy(x, Unit - x)

\* The entropy is concave and homogeneous: what two parts of a mass have each is
\* no more than what they have together.
ASSUME EntropySuperadditive ==
  \A a, b, c, d \in Mass : a + b + c + d =< Unit =>
    MassEntropy(a, b) + MassEntropy(c, d) =< MassEntropy(a + c, b + d)

Larger(x, y) == IF x >= y THEN x ELSE y
Smaller(x, y) == IF x =< y THEN x ELSE y

Dimension == {"harmful", "correct", "hidden"}
Interval == {i \in [lower : Mass, upper : Mass] : i.lower =< i.upper}
Box == [Dimension -> Interval]
Point == [Dimension -> Mass]

\* What the search reads of an ObservableSummaryEnvelope.  The band intervals
\* enter by the totals they can be allocated to.
Envelope == [harmful : Interval, correct : Interval, unresolved : Interval,
             harmfulBands : Interval, correctBands : Interval, entropyUpper : Nat]

Within(x, i) == i.lower =< x /\ x =< i.upper
In(p, b) == \A d \in Dimension : Within(p[d], b[d])

InitialBox(e) ==
  [d \in Dimension |-> CASE d = "harmful" -> e.harmful
                         [] d = "correct" -> e.correct
                         [] d = "hidden" -> [lower |-> 0, upper |-> e.unresolved.upper]]

Width(b, d) == b[d].upper - b[d].lower

ObjectiveUpper(b) == Smaller(Unit, b["harmful"].upper + b["hidden"].upper)

\* The dimension whose width, relative to the initial box, is the largest; of
\* equal ones the first.
Scale(e, d) == Larger(Width(InitialBox(e), d), 1)
AsWide(b, e, d, f) == Width(b, d) * Scale(e, f) >= Width(b, f) * Scale(e, d)
SplitDimension(b, e) ==
  IF AsWide(b, e, "harmful", "correct") /\ AsWide(b, e, "harmful", "hidden") THEN "harmful"
  ELSE IF AsWide(b, e, "correct", "hidden") THEN "correct" ELSE "hidden"

Halves(b, d) ==
  LET middle == (b[d].lower + b[d].upper) \div 2
  IN {[b EXCEPT ![d] = [lower |-> middle, upper |-> b[d].upper]],
      [b EXCEPT ![d] = [lower |-> b[d].lower, upper |-> middle]]}

SplitBox(b, e) == Halves(b, SplitDimension(b, e))

\* _box_resolution(box, initial) <= gap, with gap in units
Resolved(b, e, gap) ==
  \A d \in Dimension : Width(b, d) * Unit =< gap * Scale(e, d)

UnresolvedUpper(b, e) ==
  Smaller(e.unresolved.upper, Unit - b["harmful"].lower - b["correct"].lower)
UnresolvedLower(b, e) ==
  Larger(e.unresolved.lower, Unit - b["harmful"].upper - b["correct"].upper)

BoxPossible(b, e) ==
  /\ b["harmful"].upper + b["correct"].upper >= Unit - e.unresolved.upper
  /\ b["harmful"].lower + b["correct"].lower =< Unit - e.unresolved.lower
  /\ b["hidden"].lower =< Smaller(b["hidden"].upper, UnresolvedUpper(b, e))

CompatibilityBoxLower(b, e) ==
  LET corner == CHOOSE m \in {MassEntropy(h, c) :
                    h \in {b["harmful"].lower, b["harmful"].upper},
                    c \in {b["correct"].lower, b["correct"].upper}} :
                  \A h \in {b["harmful"].lower, b["harmful"].upper},
                     c \in {b["correct"].lower, b["correct"].upper} : m =< MassEntropy(h, c)
  IN Larger(0, corner - e.entropyUpper)

\* Mutant: the least correct mass in the denominator.
IntrinsicBoxLowerOfCorner(b) ==
  LET denominator == b["harmful"].lower + b["correct"].lower
  IN IF denominator = 0 THEN 0 ELSE (Unit * b["harmful"].lower) \div denominator

IntrinsicBoxLower(b) ==
  LET denominator == b["harmful"].lower + b["correct"].upper
  IN IF denominator = 0 THEN 0 ELSE (Unit * b["harmful"].lower) \div denominator

\* _sensitivity_lower(box) > rho; the empty box, whose bound is infinite, too
SensitivityExcludes(b, e, rho) ==
  LET low == Larger(UnresolvedLower(b, e), 0)
      high == UnresolvedUpper(b, e)
      hidden == Smaller(b["hidden"].upper, high)
      thetaLow == b["harmful"].lower + b["hidden"].lower
      thetaHigh == Smaller(Unit, b["harmful"].upper + hidden)
      entropyLow == Smaller(MassEntropy(thetaLow, Unit - thetaLow),
                            MassEntropy(thetaHigh, Unit - thetaHigh))
      terminal == MassEntropyUpper(b["hidden"].lower, hidden,
                                   Larger(0, low - hidden), Larger(0, high - b["hidden"].lower))
  IN \/ low > high
     \/ b["hidden"].lower > hidden
     \/ Larger(0, entropyLow - e.entropyUpper - terminal) > rho

\* Where the code looks for a witness: the middle of the box, moved onto the
\* totals that leave an admissible unresolved mass.
AggregateMidpoint(b, e) ==
  LET h == b["harmful"]
      c == b["correct"]
      middle == [harmful |-> (h.lower + h.upper) \div 2, correct |-> (c.lower + c.upper) \div 2]
      low == Larger(Unit - e.unresolved.upper, h.lower + c.lower)
      high == Smaller(Unit - e.unresolved.lower, h.upper + c.upper)
      delta == Smaller(Larger(middle.harmful + middle.correct, low), high)
                 - middle.harmful - middle.correct
      first == IF delta >= 0 THEN Smaller(delta, h.upper - middle.harmful)
                             ELSE - Smaller(- delta, middle.harmful - h.lower)
  IN IF low > high THEN {}
     ELSE {[harmful |-> middle.harmful + first, correct |-> middle.correct + (delta - first)]}

\* What an aggregate point must satisfy to be realised by the envelope.
Plausible(p, e) ==
  /\ Within(p["harmful"], e.harmful) /\ Within(p["harmful"], e.harmfulBands)
  /\ Within(p["correct"], e.correct) /\ Within(p["correct"], e.correctBands)
  /\ Within(Unit - p["harmful"] - p["correct"], e.unresolved)
  /\ p["hidden"] =< Unit - p["harmful"] - p["correct"]

Risk(p) == p["harmful"] + p["hidden"]

InformationLower(p, e) ==
  MassEntropy(Risk(p), Unit - Risk(p)) - e.entropyUpper
    - MassEntropy(p["hidden"], Unit - p["harmful"] - p["correct"] - p["hidden"])

Feasible(p, e, rho) == Plausible(p, e) /\ InformationLower(p, e) =< rho

ZeroResolvedPlausible(e) ==
  e.harmful.lower = 0 /\ e.correct.lower = 0 /\ e.unresolved.upper = Unit
=============================================================================

----------------------------- MODULE EventLedger -----------------------------
(***************************************************************************)
(* From an event ledger to category counts: data/ledger.py, maturity.py    *)
(* and partitions.py, inference/categorical.py, and the ledgers that       *)
(* data/synthetic.py generates.  Ages are integers; the horizon is divided *)
(* into bands of equal width, closed above.                                *)
(***************************************************************************)
EXTENDS Integers, Sequences, FiniteSets, FiniteSetsExt, SequencesExt

CONSTANTS
  Horizon,       \* terminal_horizon
  FinestBands,   \* finest_band_count
  Bands          \* band_count of the partition in use

\* _validate_partition_shape
ASSUME PartitionAssumption ==
  /\ Horizon \in Nat \ {0} /\ FinestBands \in Nat \ {0} /\ Bands \in 1..FinestBands
  /\ FinestBands % Bands = 0 /\ Horizon % FinestBands = 0

Never == -1      \* the completion age of an event that is never adjudicated

Event == [id : Nat, issue : Nat, completion : Nat \cup {Never},
          label : {"HARMFUL", "CORRECT", "NONE"}]
ValidEvent(e) ==
  IF e.completion = Never THEN e.label = "NONE"
  ELSE e.label \in {"HARMFUL", "CORRECT"} /\ e.completion \in e.issue..(e.issue + Horizon)

ValidLedger(ledger) ==
  /\ \A e \in ledger : ValidEvent(e)
  /\ \A e, f \in ledger : e.id = f.id => e = f

MaturityAge(e) == e.issue + Horizon

-----------------------------------------------------------------------------
\* The canonical count vector: harmful and correct of each band, then unresolved.
Categories(bands) == 1..(2 * bands + 1)
CategoryOf(label, band) == IF label = "HARMFUL" THEN 2 * band - 1 ELSE 2 * band
Unresolved(bands) == 2 * bands + 1
HarmfulCategories(bands) == {2 * b - 1 : b \in 1..bands}
CorrectCategories(bands) == {2 * b : b \in 1..bands}

\* bisect_left of the boundaries, and of one more where the event is rejected
Band(elapsed, bands) == 1 + Cardinality({i \in 1..bands : Horizon * i < elapsed * bands})

\* mature_event; an event beyond the last boundary is a DataIntegrityError
Matures(e, bands) == e.completion = Never \/ Band(e.completion - e.issue, bands) =< bands
MaturedCategory(e, bands) ==
  IF e.completion = Never THEN Unresolved(bands)
  ELSE CategoryOf(e.label, Band(e.completion - e.issue, bands))

Earlier(e, f) ==
  \/ MaturityAge(e) < MaturityAge(f)
  \/ MaturityAge(e) = MaturityAge(f) /\ e.id < f.id

\* Mutant: in the order of the ledger, which is that of the identifiers.
LedgerOrder(ledger) == SetToSortSeq(ledger, LAMBDA e, f : e.id < f.id)

\* mature_ledger: the event at a position is the one with the others before it.
MaturityOrder(ledger) ==
  [i \in 1..Cardinality(ledger) |->
     CHOOSE e \in ledger : Cardinality({f \in ledger : Earlier(f, e)}) = i - 1]

-----------------------------------------------------------------------------
NoCounts(bands) == [c \in Categories(bands) |-> 0]
Counted(counts, category) == [counts EXCEPT ![category] = @ + 1]
Matured(counts) == SumFunction(counts)
ResolvedCount(counts, bands) == Matured(counts) - counts[Unresolved(bands)]

\* Mutant: the index is not shifted before it is divided.
CoarseBandUnshifted(band) == (band * Bands) \div FinestBands + 1

\* _coarsening_map_values
CoarseBand(band) == (band * Bands - 1) \div FinestBands + 1

\* The categories of the finest partition that a category is made of.
FineCategories(c) ==
  LET ratio == FinestBands \div Bands
      coarse == (c + 1) \div 2
  IN IF c = Unresolved(Bands) THEN {Unresolved(FinestBands)}
     ELSE {IF c % 2 = 1 THEN 2 * b - 1 ELSE 2 * b :
             b \in ((coarse - 1) * ratio + 1)..(coarse * ratio)}

\* coarsen_mass_vector, of a count vector on the finest partition
Coarsened(counts) ==
  [c \in Categories(Bands) |-> SumFunctionOnSet(counts, FineCategories(c))]

-----------------------------------------------------------------------------
\* _event_from_observable_category: issued one after the other, adjudicated at
\* the boundary of the band.
GeneratedEvent(index, category, bands) ==
  [id |-> index, issue |-> index,
   completion |-> IF category = Unresolved(bands) THEN Never
                  ELSE index + (Horizon * ((category + 1) \div 2)) \div bands,
   label |-> IF category = Unresolved(bands) THEN "NONE"
             ELSE IF category % 2 = 1 THEN "HARMFUL" ELSE "CORRECT"]

GeneratedLedger(categories, bands) ==
  {GeneratedEvent(i, categories[i], bands) : i \in DOMAIN categories}

\* The category that lags most behind its share of n events; of equal ones the first.
MostLagging(weights, counts, n) ==
  LET Lag(c) == n * weights[c] - counts[c] * SumFunction(weights)
  IN CHOOSE c \in DOMAIN weights :
       \A d \in DOMAIN weights : Lag(d) < Lag(c) \/ (Lag(d) = Lag(c) /\ c =< d)

\* balanced_prefix
BalancedPrefix(weights, total) ==
  LET Step(done, n) ==
        LET c == MostLagging(weights, done.counts, n)
        IN [counts |-> Counted(done.counts, c), categories |-> Append(done.categories, c)]
      start == [counts |-> [c \in DOMAIN weights |-> 0], categories |-> <<>>]
  IN FoldLeft(Step, start, [n \in 1..total |-> n])
=============================================================================

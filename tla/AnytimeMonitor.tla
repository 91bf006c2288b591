--------------------------- MODULE AnytimeMonitor ---------------------------
(***************************************************************************)
(* The streams of the anytime experiments: run_sequential_trace and        *)
(* coverage_stress_batch of experiments/anytime.py, evaluate_power_stream  *)
(* of experiments/power.py, and the evidence drawn from a set of streams.  *)
(* An action is one iteration of a loop over matured events: the counts,   *)
(* the running regions, and the checkpoint when one is due.                *)
(***************************************************************************)
EXTENDS ConfidenceRegion

CONSTANTS
  Laws,              \* [fine, hidden, rho, beta, ignorable]
  Ledgers(_, _),     \* the ledgers a kind of task may meet, of a law
  Streams,           \* the streams of a coverage or power experiment
  Every, Marks,      \* checkpoint_every, and the checkpoints of a power scenario
  MinimumMatured, MinimumResolved, Guard,
  StaticInterval(_, _),    \* _wilson_interval
  BernoulliInterval(_, _)  \* _bernoulli_interval

Kinds == {"coverage", "power", "trace"}

ASSUME MonitorAssumption ==
  /\ Streams \in Nat \ {0} /\ Every \in Nat \ {0} /\ Guard \in Nat
  /\ IsFiniteSet(Marks) /\ Marks # {} /\ Marks \subseteq Nat \ {0}
  /\ Laws \subseteq [fine : [Categories(FinestBands) -> Nat], hidden : Nat, rho : Nat, beta : Nat,
                    ignorable : BOOLEAN]
  /\ \A l \in Laws : SumFunction(l.fine) = Unit /\ l.hidden =< l.fine[Unresolved(FinestBands)]

\* Ledgers are finite, and the roots are found for as many events as they have; a
\* power stream has as many events as its last checkpoint asks for.
ASSUME LedgersAssumption ==
  \A kind \in Kinds, l \in Laws : \A g \in Ledgers(kind, l) :
    /\ IsFiniteSet(g) /\ g \subseteq Event /\ RootsBracketTheFrequency(Cardinality(g))
    /\ kind = "power" => Cardinality(g) = Max(Marks)

VARIABLES
  task,       \* [kind, law]
  ledger,     \* the events of the stream, as stored
  events,     \* ... in the order in which they mature
  position,
  counts,     \* the CategoricalState
  running,    \* the running region; <<>> for None
  ignorable,  \* [open, interval], of the ignorable-delay comparator
  stream,     \* what the stream has recorded
  outcomes,   \* of the streams that ended
  phase,      \* "between", "streaming", "raised", "reported", "rejected"
  report

vars == <<task, ledger, events, position, counts, running, ignorable, stream, outcomes, phase, report>>

Kind == task.kind
Law == task.law
Truth == Coarsened(Law.fine)
HarmfulMass == SumFunctionOnSet(Truth, HarmfulCategories(Bands))
ResolvedMass == Unit - Truth[Unresolved(Bands)]
Theta == HarmfulMass + Law.hidden       \* parameters.theta, the true risk

\* direct_mutual_information of the law
TrueInformation ==
  MassEntropy(Theta, Unit - Theta) - MassEntropy(Law.hidden, Unit - ResolvedMass - Law.hidden)
    - SumFunction([b \in 1..Bands |-> MassEntropy(Truth[2 * b - 1], Truth[2 * b])])

Methods == {"TRAJCERT", "CONFIDENCE_SEQUENCE", "TIME_UNIFORM_PROJECTION",
            "REPEATED_STATIC", "IGNORABLE_DELAY"}
NewStream == [failures |-> [m \in Methods |-> 0], checkpoints |-> <<>>,
              violated |-> FALSE, exclusion |-> None]

-----------------------------------------------------------------------------
(* A checkpoint                                                            *)

Due(n) ==
  IF Kind = "power" THEN n \in Marks ELSE n % Every = 0 \/ n = Len(events)

Sufficient(c) == Matured(c) >= MinimumMatured /\ ResolvedCount(c, Bands) >= MinimumResolved

State(bounds, c) == Classify(bounds, Law.rho, Law.beta, Guard, Sufficient(c))

StaticRegion(c) == [k \in DOMAIN c |-> StaticInterval(c[k], Matured(c))]

\* repeated_static_projection
StaticBounds(c) == ProjectionBounds(EnvelopeOf(StaticRegion(c)), Law.rho)

IgnorableCertifies(c, ign) ==
  ign.open /\ Sufficient(c) /\ ign.interval.upper =< Law.beta

\* Adds up the failures of the methods that have one.
Failing(record, methods) ==
  [record EXCEPT !.failures = [m \in Methods |-> @[m] + IF m \in methods THEN 1 ELSE 0]]

Recorded(record, matured, state, static, certifies) ==
  [record EXCEPT !.checkpoints =
     Append(@, [matured |-> matured, state |-> state, static |-> static, ignorable |-> certifies])]

\* What a coverage stream records of the bounds at a checkpoint: one whose
\* sequence emptied is not assessed any more, though its comparators are.
Assessed(record, c, region, ign, b, static) ==
  LET low == (IF region # <<>> /\ b.upper < Theta
                THEN {"TRAJCERT", "TIME_UNIFORM_PROJECTION"} ELSE {})
             \cup (IF static.upper < Theta THEN {"REPEATED_STATIC"} ELSE {})
             \cup (IF Law.ignorable /\ ign.open /\ ign.interval.upper < Theta
                     THEN {"IGNORABLE_DELAY"} ELSE {})
      failed == Failing(record, low)
  IN IF region = <<>> THEN failed
     ELSE Recorded(failed, Matured(c), State(b, c), "NONE", FALSE)

\* _coverage_checkpoint_update
CoverageCheckpoint(record, c, region, ign) ==
  {Assessed(record, c, region, ign, b, static) :
     b \in IF region = <<>> THEN {None} ELSE ProjectionBounds(EnvelopeOf(region), Law.rho),
     static \in StaticBounds(c)}

\* _checkpoint_outcome of power.py
PowerCheckpoint(record, c, region, ign) ==
  {Recorded(record, Matured(c), State(b, c), State(static, c), IgnorableCertifies(c, ign)) :
     b \in ProjectionBounds(EnvelopeOf(region), Law.rho), static \in StaticBounds(c)}

TraceCheckpoint(record, c, region) ==
  {Recorded(record, Matured(c), State(b, c), "NONE", FALSE) :
     b \in ProjectionBounds(EnvelopeOf(region), Law.rho)}

Checkpointed(record, c, region, ign) ==
  IF ~Due(Matured(c)) THEN {record}
  ELSE CASE Kind = "coverage" -> CoverageCheckpoint(record, c, region, ign)
         [] Kind = "power" -> PowerCheckpoint(record, c, region, ign)
         [] Kind = "trace" -> TraceCheckpoint(record, c, region)

-----------------------------------------------------------------------------
(* The regions                                                             *)

\* confidence_sequence_update: the first region is the raw one
Advanced(region, c) ==
  LET raw == RawRegion(c)
  IN IF region = <<>> THEN raw ELSE [k \in DOMAIN raw |-> Intersection(region[k], raw[k])]

\* ignorable_delay_update, for which the power experiment assumes its assumption
IgnorableAdvanced(ign, c) ==
  LET harmful == SumFunctionOnSet(c, HarmfulCategories(Bands))
      total == ResolvedCount(c, Bands)
      raw == IF total = 0 THEN Whole ELSE BernoulliInterval(harmful, total)
      both == Intersection(ign.interval, raw)
  IN IF ~ign.open THEN ign
     ELSE [open |-> ~Empty(both), interval |-> IF Empty(both) THEN Void ELSE both]

\* confidence_sequence_excludes of the true category probabilities
Excludes(c) == \E k \in DOMAIN c : ~Within(Truth[k], RawRegion(c)[k])

-----------------------------------------------------------------------------
(* The loops                                                               *)

StartStream ==
  /\ phase = "between" /\ Len(outcomes) < (IF Kind = "trace" THEN 1 ELSE Streams)
  /\ \E l \in Ledgers(Kind, Law) :
       /\ ValidLedger(l)
       /\ ledger' = l /\ events' = MaturityOrder(l)
       /\ phase' = IF \A e \in l : Matures(e, Bands) THEN "streaming" ELSE "raised"
  /\ position' = 0 /\ counts' = NoCounts(Bands) /\ running' = <<>>
  /\ ignorable' = [open |-> Kind = "power" \/ (Kind = "coverage" /\ Law.ignorable),
                   interval |-> Whole]
  /\ stream' = NewStream
  /\ UNCHANGED <<task, outcomes, report>>

Appended == Counted(counts, MaturedCategory(events[position + 1], Bands))

Streaming == phase = "streaming" /\ position < Len(events) /\ ~stream.violated

\* The first prefix that excludes the truth, of which power.py keeps track.
Excluded(record, c) ==
  [record EXCEPT !.exclusion =
     IF Kind = "power" /\ @ = None /\ Excludes(c) THEN Matured(c) ELSE @]

\* What a stream records of an intersection that is empty.
Emptied(record, c, lost) ==
  [(IF Kind = "coverage" THEN Failing(record, lost) ELSE Excluded(record, c))
     EXCEPT !.violated = TRUE]

\* A coverage stream counts the comparator that loses its interval.
IgnorableLost(ign) ==
  IF Kind = "coverage" /\ ignorable.open /\ ~ign.open THEN {"IGNORABLE_DELAY"} ELSE {}

\* The region is one: no interval is empty, and it meets the simplex.
AppendEvent ==
  LET region == Advanced(running, Appended)
      ign == IgnorableAdvanced(ignorable, Appended)
      record == Failing(Excluded(stream, Appended), IgnorableLost(ign))
  IN /\ Streaming
     /\ \A k \in DOMAIN region : ~Empty(region[k])
     /\ MeetsSimplex(region)
     /\ counts' = Appended /\ position' = position + 1
     /\ running' = region /\ ignorable' = ign
     /\ stream' \in Checkpointed(record, Appended, region, ign)
     /\ UNCHANGED <<task, ledger, events, outcomes, phase, report>>

\* _advance_anytime_regions, of an empty intersection
ViolationFailures == {"CONFIDENCE_SEQUENCE", "TRAJCERT", "TIME_UNIFORM_PROJECTION"}

\* An interval is empty: a coverage stream records it and goes on for its
\* comparators, a power stream and a trace end.
SequenceEmpties ==
  LET region == Advanced(running, Appended)
      ign == IgnorableAdvanced(ignorable, Appended)
      record == Emptied(stream, Appended, ViolationFailures \cup IgnorableLost(ign))
  IN /\ Streaming
     /\ \E k \in DOMAIN region : Empty(region[k])
     /\ counts' = Appended /\ position' = position + 1 /\ running' = <<>>
     /\ IF Kind = "coverage"
        THEN ignorable' = ign /\ stream' \in Checkpointed(record, Appended, <<>>, ign)
        ELSE stream' = record /\ UNCHANGED ignorable
     /\ UNCHANGED <<task, ledger, events, outcomes, phase, report>>

\* The rest of a coverage stream whose sequence has emptied.
AppendAfterViolation ==
  LET ign == IgnorableAdvanced(ignorable, Appended)
      record == Failing(stream, IgnorableLost(ign))
  IN /\ Kind = "coverage" /\ phase = "streaming" /\ stream.violated /\ position < Len(events)
     /\ counts' = Appended /\ position' = position + 1 /\ ignorable' = ign
     /\ stream' \in Checkpointed(record, Appended, <<>>, ign)
     /\ UNCHANGED <<task, ledger, events, running, outcomes, phase, report>>

\* No interval is empty, but the rectangle misses the simplex: a NumericalError,
\* which no loop catches.
RegionRaises ==
  LET region == Advanced(running, Appended)
  IN /\ Streaming
     /\ \A k \in DOMAIN region : ~Empty(region[k])
     /\ ~MeetsSimplex(region)
     /\ phase' = "raised"
     /\ stream' = Excluded(stream, Appended)
     /\ UNCHANGED <<task, ledger, events, position, counts, running, ignorable, outcomes, report>>

EndStream ==
  /\ phase = "streaming"
  /\ position = Len(events) \/ (Kind # "coverage" /\ stream.violated)
  /\ outcomes' = Append(outcomes, stream) /\ phase' = "between"
  /\ UNCHANGED <<task, ledger, events, position, counts, running, ignorable, stream, report>>

-----------------------------------------------------------------------------
(* The evidence                                                            *)

Failures(m) == SumFunction([i \in DOMAIN outcomes |-> outcomes[i].failures[m]])
Number(Test(_)) == Cardinality({i \in DOMAIN outcomes : Test(outcomes[i])})
Certified(o, matured) ==
  \E i \in DOMAIN o.checkpoints :
    o.checkpoints[i].state = "CERTIFIED" /\ o.checkpoints[i].matured =< matured

Applicable(m) == m = "IGNORABLE_DELAY" => Law.ignorable

\* combine_coverage_stress_batches, whose count of the confidence sequence is
\* that of the streams whose sequence emptied
CoverageCount(m) ==
  IF m = "CONFIDENCE_SEQUENCE" THEN Number(LAMBDA o : o.violated) ELSE Failures(m)

AllEnded == phase = "between" /\ Len(outcomes) = Streams

\* coverage_evidence_from_batches; the exact binomial limit takes no more
\* failures than streams.
ReportCoverage ==
  /\ Kind = "coverage" /\ AllEnded
  /\ IF \E m \in Methods : Applicable(m) /\ CoverageCount(m) > Streams
     THEN phase' = "rejected" /\ UNCHANGED report
     ELSE /\ phase' = "reported"
          /\ report' = [violations |-> [m \in Methods |-> CoverageCount(m)],
                        certified |-> Number(LAMBDA o : Certified(o, Len(events)))]
  /\ UNCHANGED <<task, ledger, events, position, counts, running, ignorable, stream, outcomes>>

\* _summarize_checkpoint of one mark
AtMark(mark, state) ==
  Number(LAMBDA o : \E i \in DOMAIN o.checkpoints :
                      o.checkpoints[i].matured = mark /\ o.checkpoints[i].state = state)

\* Mutant: a stream that certified and was decided otherwise later is not counted.
EverNow(mark) == AtMark(mark, "CERTIFIED")

Ever(mark) == Number(LAMBDA o : Certified(o, mark))

\* combine_power_batches, with _method_errors
ReportPower ==
  LET ever == Number(LAMBDA o : Certified(o, Len(events)))
  IN /\ Kind = "power" /\ AllEnded
     /\ phase' = "reported"
     /\ report' = [marks |-> [m \in Marks |->
                      [states |-> [s \in ScientificState |-> AtMark(m, s)], ever |-> Ever(m)]],
                   exclusions |-> Number(LAMBDA o : o.exclusion # None),
                   empty |-> Number(LAMBDA o : o.violated),
                   everCertified |-> ever,
                   falseCertifications |-> IF Theta =< Law.beta THEN 0 ELSE ever]
     /\ UNCHANGED <<task, ledger, events, position, counts, running, ignorable, stream, outcomes>>

Init ==
  /\ task \in [kind : Kinds, law : Laws]
  /\ ledger = {} /\ events = <<>> /\ position = 0 /\ counts = NoCounts(Bands) /\ running = <<>>
  /\ ignorable = [open |-> FALSE, interval |-> Void]
  /\ stream = NewStream /\ outcomes = <<>> /\ phase = "between" /\ report = <<>>

Next ==
  \/ StartStream \/ AppendEvent \/ SequenceEmpties \/ AppendAfterViolation \/ RegionRaises
  \/ EndStream \/ ReportCoverage \/ ReportPower

Spec == Init /\ [][Next]_vars

-----------------------------------------------------------------------------
(* Properties                                                              *)

\* The counts after n events of the stream.
Prefix(n) ==
  [c \in Categories(Bands) |->
     Cardinality({i \in 1..n : MaturedCategory(events[i], Bands) = c})]

\* The prefixes of which the stream has formed a region: where it raises, that of
\* the event it was at too.
Looked == IF phase = "raised" THEN position + 1 ELSE position

\* The raw regions of the stream have covered the truth so far: what holds of
\* all prefixes at once with the probability the experiment asks for.
Covered == \A n \in 1..Looked : \A c \in Categories(Bands) : Within(Truth[c], RawRegion(Prefix(n))[c])

\* The running region lies in the raw region of every prefix there has been, so
\* it has shrunk only (confidence_sequence_update, _intersect_running).
RunningCoversPrefix ==
  running # <<>> =>
    \A n \in 1..position : \A c \in Categories(Bands) :
      LET raw == RawRegion(Prefix(n))[c]
      IN raw.lower =< running[c].lower /\ running[c].upper =< raw.upper

\* While the raw regions cover the truth the sequence does not fail; and when the
\* sensitivity budget is true as well, what the checkpoints say is: the risk is
\* never below a certified budget, no upper bound is below the risk, and the
\* model is not called incompatible.
ValidStreamNeverFalse ==
  Covered =>
    /\ phase # "raised" /\ ~stream.violated
    /\ TrueInformation =< Law.rho =>
         /\ stream.failures["TRAJCERT"] = 0
         /\ \A i \in DOMAIN stream.checkpoints :
              /\ stream.checkpoints[i].state = "CERTIFIED" => Theta =< Law.beta
              /\ stream.checkpoints[i].state # "MODEL_INCOMPATIBLE"
              /\ stream.checkpoints[i].state = "INTRINSICALLY_UNCERTIFIABLE" =>
                   Unit * HarmfulMass > Law.beta * ResolvedMass

\* The counts are those of the events that have matured by some age: of as many
\* events of the ledger as were counted, none of which matures after one that
\* was not (mature_ledger, append_matured_event).
NoLookAhead ==
  phase \in {"streaming", "between"} =>
    LET seen == {events[i] : i \in 1..position}
    IN /\ seen \subseteq ledger /\ Cardinality(seen) = position
       /\ \A e \in seen, f \in ledger \ seen : MaturityAge(e) =< MaturityAge(f)
       /\ counts = Prefix(position)

\* An event matured on a coarse partition is in the coarse band of its fine one,
\* so counting on the coarse partition is coarsening the counts on the fine one:
\* the truth a stream is compared with is that of its categories.
CoarseningCommutes ==
  phase = "streaming" =>
    LET seen == {events[i] : i \in 1..position}
        fine == [c \in Categories(FinestBands) |->
                   Cardinality({e \in seen : MaturedCategory(e, FinestBands) = c})]
    IN /\ counts = Coarsened(fine)
       /\ \A e \in seen : e.completion # Never =>
            Band(e.completion - e.issue, Bands) = CoarseBand(Band(e.completion - e.issue, FinestBands))

\* The evidence accounts for every stream: at a mark a stream is in one state, or
\* its sequence has emptied; those that emptied have excluded the truth, or in a
\* coverage experiment are failures of the certificate too; a stream that was
\* certified stays counted at the later marks.
EvidenceAddsUp ==
  phase = "reported" =>
    IF Kind = "power"
    THEN LET Evaluated(m) == SumFunction(report.marks[m].states)
         IN /\ Evaluated(Max(Marks)) + report.empty = Streams
            /\ report.empty =< report.exclusions
            /\ report.everCertified = report.marks[Max(Marks)].ever
            /\ \A m, n \in Marks : m =< n => /\ Evaluated(n) =< Evaluated(m)
                                             /\ report.marks[m].ever =< report.marks[n].ever
    ELSE /\ report.violations["CONFIDENCE_SEQUENCE"] =< report.violations["TRAJCERT"]
         /\ report.violations["CONFIDENCE_SEQUENCE"] =< report.violations["TIME_UNIFORM_PROJECTION"]

\* _clopper_pearson_upper and the field ever_violations: of the streams of an
\* experiment no more fail than there are.
FailuresWithinStreams ==
  AllEnded => \A m \in Methods : Applicable(m) => CoverageCount(m) =< Streams
=============================================================================

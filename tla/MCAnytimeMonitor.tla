--------------------------- MODULE MCAnytimeMonitor ---------------------------
(***************************************************************************)
(* Small laws, ledgers and intervals for AnytimeMonitor.  The entropy is   *)
(* that of MCNumericalKernel: concave, homogeneous, symmetric.             *)
(***************************************************************************)
EXTENDS AnytimeMonitor

MCMassEntropy(x, y) == 2 * Smaller(x, y)
MCMassEntropyUpper(leftLower, leftUpper, rightLower, rightUpper) ==
  LET total == leftUpper + rightUpper
  IN IF leftLower > 0 /\ rightLower > 0
     THEN Smaller(2 * Smaller(leftUpper, rightUpper), total) ELSE total
MCTotalEntropy(x) == x

Around(s, n, radius) ==
  [lower |-> IF s = 0 THEN 0 ELSE Larger(0, (Unit * s) \div n - radius[n]),
   upper |-> IF s = n THEN Unit ELSE Smaller(Unit, - ((- Unit * s) \div n) + radius[n])]

\* Of s in n events: such that a sequence may cover the law, empty, or miss the simplex.
MCCategoryInterval(s, n) ==
  LET ends == CASE n = 1 -> <<<<0, 4>>, <<4, 8>>>>
                [] n = 2 -> <<<<0, 1>>, <<4, 6>>, <<6, 8>>>>
                [] n = 3 -> <<<<0, 2>>, <<1, 4>>, <<5, 7>>, <<6, 8>>>>
                [] n = 4 -> <<<<0, 2>>, <<1, 4>>, <<2, 6>>, <<4, 7>>, <<6, 8>>>>
  IN [lower |-> ends[s + 1][1], upper |-> ends[s + 1][2]]
MCStaticInterval(s, n) == Around(s, n, <<2, 1, 0, 0>>)
MCBernoulliInterval(s, n) == Around(s, n, <<2, 2, 1, 1>>)

Length == 3

\* Harmful and correct of four bands, then unresolved.
MCLaws ==
  {[fine |-> <<1, 1, 0, 0, 1, 1, 0, 0, 4>>, hidden |-> 2, rho |-> 0, beta |-> 3, ignorable |-> TRUE]}
  \cup {[fine |-> <<0, 3, 0, 3, 1, 0, 0, 0, 1>>, hidden |-> t[1], rho |-> t[2], beta |-> t[3],
         ignorable |-> FALSE] : t \in {<<0, 2, 2>>, <<1, 4, 0>>, <<1, 1, 1>>}}

Drawn(weights) == {c \in DOMAIN weights : weights[c] > 0}

\* Streams whose sequence empties at the third event, and that go on.
Overtaken(categories) ==
  {<<t[1], t[2], t[2], t[3]>> : t \in {t \in categories \X categories \X categories : t[1] # t[2]}}

\* Any ledger of three events, those of a law, and the balanced one.
MCLedgers(kind, law) ==
  CASE kind = "coverage" ->
         {GeneratedLedger(s, Bands) : s \in [1..Length -> Drawn(Coarsened(law.fine))]
                                              \cup Overtaken(Drawn(Coarsened(law.fine)))}
    [] kind = "power" ->
         {GeneratedLedger(s, FinestBands) : s \in [1..Length -> Drawn(law.fine)]}
    [] kind = "trace" ->
         {GeneratedLedger(BalancedPrefix(Coarsened(law.fine), Length).categories, Bands)}
         \cup {{[id |-> i, issue |-> s[i][1], completion |-> s[i][2], label |-> s[i][3]] : i \in 1..Length} :
                 s \in [1..Length -> {<<0, Never, "NONE">>, <<0, 2, "CORRECT">>, <<1, 2, "HARMFUL">>,
                                      <<1, 5, "CORRECT">>, <<2, 5, "HARMFUL">>}]}
===============================================================================

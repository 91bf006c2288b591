------------------------------ MODULE MCCampaign ------------------------------
(***************************************************************************)
(* A sound study, and every study that differs from it by one or two edits:  *)
(* values a validator must reject, values the planner refuses, and values     *)
(* only the dispatcher or the synthesis stumbles over.                         *)
(***************************************************************************)
EXTENDS Campaign

MCLaws == <<"no_path", "late", "unresolved", "timed">>
MCTau == [law \in Range(MCLaws) |->
            [bands \in 1..4 |-> IF law = "no_path" \/ bands = 1 THEN 0
                                ELSE IF law = "timed" THEN bands \div 2 ELSE 1]]
MCForeignTau == [law \in Range(MCLaws) |->
                   [bands \in 1..4 |-> MCTau[law][bands] + IF law = "no_path" /\ bands = 4 THEN 1 ELSE 2]]

Name(text, token) == [text |-> text, token |-> token]
Case(name, bands) == [name |-> name, law |-> "late", bands |-> bands]
Timing(fine, coarse) == [law |-> "late", fine |-> fine, coarse |-> coarse, gain |-> "positive"]
Scenario(name, bands, checkpoints) ==
  [name |-> name, law |-> "late", bands |-> bands, checkpoints |-> checkpoints]

Plan1 == Name("Plan one", "plan-one")
Plan1Again == Name("Plan-One", "plan-one")
Plan2 == Name("Plan two", "plan-two")
Nameless == Name("???", "")

Base ==
  [finest |-> 4, partitions |-> <<4, 2, 1>>, scaling |-> <<1, 2, 3, 4>>, rho |-> <<0, 2>>,
   sameEndpointRho |-> <<1, 2, 9>>, information |-> 2, utilityLaws |-> <<"no_path", "late", "unresolved">>,
   oracleLaws |-> <<"late">>, safetyLaws |-> <<"late">>, decisionLaws |-> <<"late">>,
   decisionBudgets |-> <<1, 2>>, representative |-> <<0, 2>>, streams |-> 2, emptied |-> {}, cohort |-> BOOLEAN,
   timingCases |-> <<Timing(4, 2), Timing(4, 1)>>, timingOffsets |-> <<1>>, sharpOffsets |-> <<0>>,
   oracleOffsets |-> <<1>>, coverageCases |-> <<Case(Plan1, 4), Case(Plan2, 3)>>, figureRho |-> 2,
   rhoCount |-> 3, gamma |-> <<1>>, q |-> <<1>>, checkpoints |-> <<2, 4>>,
   figureScenario |-> Plan1.text,
   scenarios |-> <<Scenario(Plan1, <<4, 1>>, <<>>), Scenario(Plan2, <<2>>, <<3>>)>>,
   coverage |-> [events |-> 4, every |-> 2], matured |-> 3, resolved |-> 1,
   axes |-> [unresolvedness |-> <<0, 1, 2>>, bands |-> <<1, 2, 4>>, compatible_bands |-> <<1, 2, 4>>,
             terminal_selection_asymmetry |-> <<<<1, 5>>, <<2, 4>>, <<5, 1>>>>],
   horizons |-> <<30, 15>>, devices |-> <<Name("cam_1", "cam-1"), Name("tv", "tv")>>]

AxesWith(bands) == [Base.axes EXCEPT !["bands"] = bands, !["compatible_bands"] = bands]

Edits ==
  {<<"devices", <<Name("cam_1", "cam-1"), Name("cam-1", "cam-1")>>>>,
   <<"devices", <<Name("tv", "tv"), Name("tv", "tv")>>>>,
   <<"coverageCases", <<Case(Plan1, 4), Case(Plan1Again, 4)>>>>,
   <<"coverageCases", <<Case(Plan1, 4), Case(Plan1, 2)>>>>,
   <<"scenarios", <<Scenario(Plan1, <<4>>, <<>>), Scenario(Plan1Again, <<4, 2>>, <<>>)>>>>,
   <<"scenarios", <<Scenario(Plan1, <<2, 1>>, <<>>), Scenario(Plan1Again, <<4>>, <<>>)>>>>,
   <<"scenarios", <<Scenario(Plan1, <<4>>, <<>>), Scenario(Plan1, <<2>>, <<>>)>>>>,
   <<"scenarios", <<Scenario(Plan1, <<4, 3>>, <<>>)>>>>,
   <<"scenarios", <<Scenario(Plan1, <<4>>, <<1, 2>>)>>>>,
   <<"figureScenario", Plan2.text>>, <<"figureScenario", "Plan three">>,
   <<"rho", <<0, 2, 9>>>>, <<"rho", <<0, 1>>>>, <<"rho", <<0, 1, 2>>>>, <<"rhoCount", 2>>,
   <<"figureRho", 1>>, <<"figureRho", 9>>, <<"figureRho", 0>>, <<"figureRho", 3>>,
   <<"sameEndpointRho", <<0, 1>>>>, <<"information", 9>>, <<"information", 3>>,
   <<"utilityLaws", <<"late", "late">>>>, <<"utilityLaws", <<"late", "no_path">>>>,
   <<"utilityLaws", <<>>>>, <<"safetyLaws", <<>>>>, <<"gamma", <<>>>>, <<"gamma", <<2, 1>>>>,
   <<"timingCases", <<Timing(4, 2), [Timing(4, 2) EXCEPT !.gain = "zero"]>>>>, <<"timingCases", <<Timing(3, 1)>>>>,
   <<"timingCases", <<Timing(4, 3)>>>>, <<"timingOffsets", <<>>>>,
   <<"partitions", <<4, 3, 1>>>>, <<"partitions", <<4, 1>>>>, <<"partitions", <<1>>>>, <<"finest", 1>>,
   <<"scaling", <<1, 2, 8>>>>, <<"scaling", <<1, 4>>>>, <<"scaling", <<1, 3, 4>>>>,
   <<"axes", AxesWith(<<1, 3, 4>>)>>, <<"axes", AxesWith(<<1, 4>>)>>, <<"axes", AxesWith(<<4, 2, 1>>)>>,
   <<"coverageCases", <<Case(Plan1, 4), Case(Nameless, 3)>>>>,
   <<"scenarios", <<Scenario(Plan1, <<4, 1>>, <<>>), Scenario(Nameless, <<2>>, <<3>>)>>>>,
   <<"scenarios", <<Scenario(Plan1, <<4, 1>>, <<>>), Scenario(Nameless, <<>>, <<3>>)>>>>,
   <<"rho", <<0, 2, 3>>>>, <<"oracleOffsets", <<0>>>>, <<"oracleOffsets", <<0, 1>>>>,
   <<"representative", <<>>>>, <<"representative", <<1, 1>>>>, <<"representative", <<3, 1>>>>,
   <<"emptied", {0}>>, <<"streams", 3>>, <<"decisionBudgets", <<>>>>, <<"decisionBudgets", <<2, 1>>>>,
   <<"cohort", {TRUE}>>,
   <<"horizons", <<30, 30>>>>, <<"coverage", [events |-> 2, every |-> 2]>>}

Edited(c, edit) == [c EXCEPT ![edit[1]] = edit[2]]
MCConfigs == {Base} \union {Edited(Edited(Base, e), f) : e, f \in Edits}
=============================================================================

---------------------------- MODULE MCPreparedFiles ----------------------------
(***************************************************************************)
(* The files of a workspace: the preprocess command, which writes several   *)
(* of them, and beside it the write of a single one by two processes.  They *)
(* share no state: each behaviour runs one of them and leaves the other at  *)
(* rest.                                                                    *)
(*                                                                         *)
(* There are two datasets with rows that fail none, one or several of the   *)
(* checks, two copies of one flow, and events before, at and after the      *)
(* horizons.                                                                *)
(***************************************************************************)
EXTENDS Preprocessing, AtomicReplace, TLC

Row(reviewed, truth, prediction, device, expertise, latency, flow) ==
  [reviewed |-> reviewed, truth |-> truth, prediction |-> prediction, device |-> device,
   expertise |-> expertise, latency |-> latency, flow |-> flow]

First ==
  <<Row(TRUE, "attack", "benign", "cam", "novice", 4, <<1, 1>>),
    Row(TRUE, "attack", "attack", "cam", "expert", 1, <<1, 2>>),
    Row(TRUE, Missing, Missing, "cam", "expert", 0, <<1, 3>>),
    Row(TRUE, "benign", "attack", Missing, "novice", 2, <<1, 3>>),
    Row(FALSE, "attack", "attack", "cam", "expert", 0, <<2, 1>>),
    Row(TRUE, "benign", "attack", "plug", "expert", 5, <<2, 2>>),
    Row(TRUE, "benign", "benign", "plug", "novice", 0, <<2, 3>>)>>

Second ==
  <<Row(TRUE, "benign", "attack", "plug", "novice", 2, <<1, 1>>),
    Row(TRUE, "attack", "attack", "plug", "expert", 3, <<1, 2>>),
    Row(TRUE, "attack", "attack", "cam", "expert", 3, <<1, 3>>),
    Row(TRUE, "attack", "attack", "cam", "expert", 3, <<1, 3>>)>>

MCDatasets == {First, Second}
\* The same dataset with another flow identity, another dataset, and one whose
\* columns are not the configured ones.
MCConfigs ==
  {[dataset |-> First, identity |-> {1, 2}, columns |-> TRUE],
   [dataset |-> First, identity |-> {2}, columns |-> TRUE],
   [dataset |-> Second, identity |-> {1, 2}, columns |-> TRUE],
   [dataset |-> Second, identity |-> {1, 2}, columns |-> FALSE]}
MCLaws == <<"law1", "law2">>

-----------------------------------------------------------------------------
VARIABLE writing   \* whether this behaviour is of the single file

PreprocessAtRest ==
  /\ config = [dataset |-> First, identity |-> {1, 2}, columns |-> TRUE]
  /\ dataset = First
  /\ disk = [real |-> [f \in RealFiles |-> NoFile],
             laws |-> [l \in LawSet |-> NoFile], lawInventory |-> NoFile]
  /\ job = Nothing /\ mishaps = 0

WriteAtRest == WriteInit /\ directory = "absent" /\ \A u, w \in Writer : payload[u] = payload[w]

\* The last replacement is made, and nobody is under way.
WritesOver ==
  /\ version >= MaxVersions /\ \A w \in Writer : pc[w] = "idle"
  /\ UNCHANGED writeVars

FilesInit == \/ writing = FALSE /\ Init /\ WriteAtRest
             \/ writing = TRUE /\ PreprocessAtRest /\ WriteInit

FilesNext == \/ ~writing /\ Next /\ UNCHANGED <<writing, writeVars>>
             \/ writing /\ (WriteNext \/ WritesOver) /\ UNCHANGED <<writing, vars>>

FilesSpec == FilesInit /\ [][FilesNext]_<<writing, vars, writeVars>>

MCSymmetry == Permutations(Writer) \union Permutations(Value)
================================================================================

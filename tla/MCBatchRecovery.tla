--------------------------- MODULE MCBatchRecovery ---------------------------
(***************************************************************************)
(* Five seeds in batches of two, and six in batches of three: the last      *)
(* batch is short in one configuration and the batches are fewer in the     *)
(* other.                                                                   *)
(***************************************************************************)
EXTENDS BatchRecovery, TLC

CONSTANTS small, large

MCConfigs == {small, large}
MCStreams == (small :> 5) @@ (large :> 6)
MCBatchSize == (small :> 2) @@ (large :> 3)
=============================================================================

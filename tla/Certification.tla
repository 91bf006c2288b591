---------------------------- MODULE Certification ----------------------------
(***************************************************************************)
(* classify_certification of inference/certification.py: the scientific    *)
(* state of a checkpoint, from the evidence there is and the three bounds  *)
(* of a projection.  A bound of the intrinsic risk may be missing.         *)
(***************************************************************************)
EXTENDS Integers

None == -1                 \* no incumbent, no budget, no bound

ScientificState == {"INSUFFICIENT_EVIDENCE", "MODEL_INCOMPATIBLE",
                    "INTRINSICALLY_UNCERTIFIABLE", "CERTIFIED", "UNCERTIFIED"}

\* bounds: [compatibility, upper, intrinsic]; the first reason that applies
Classify(bounds, rho, beta, guard, sufficient) ==
  IF ~sufficient THEN "INSUFFICIENT_EVIDENCE"
  ELSE IF bounds.compatibility > rho + guard THEN "MODEL_INCOMPATIBLE"
  ELSE IF bounds.intrinsic # None /\ bounds.intrinsic > beta + guard
       THEN "INTRINSICALLY_UNCERTIFIABLE"
  ELSE IF bounds.upper =< beta THEN "CERTIFIED" ELSE "UNCERTIFIED"
==============================================================================

----------------------------- MODULE MCReportTree -----------------------------
(***************************************************************************)
(* Two versions of the source data and two mishaps: one leaves a backup     *)
(* behind, the second meets it.                                             *)
(***************************************************************************)
EXTENDS ReportTree

ASSUME MaxVersions \in Nat /\ MaxMishaps \in Nat
=============================================================================

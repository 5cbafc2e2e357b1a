-------------------------- MODULE MCFundingOverlay --------------------------
(* Small instances of FundingOverlay.  Sessions and processes are only     *)
(* compared for equality, so they may be permuted where no liveness is     *)
(* checked.                                                                *)
EXTENDS FundingOverlay, TLC

Interchangeable == Permutations(Sessions) \cup Permutations(Procs)
=============================================================================

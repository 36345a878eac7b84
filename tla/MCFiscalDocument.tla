-------------------------- MODULE MCFiscalDocument --------------------------
(* Instances of FiscalDocument for TLC. *)
EXTENDS FiscalDocument, TLC

CONSTANTS d1, r1, r2, j1

Symmetry == Permutations({r1, r2})
=============================================================================

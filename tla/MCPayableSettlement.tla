------------------------- MODULE MCPayableSettlement -------------------------
(* Instances of PayableSettlement for TLC. *)
EXTENDS PayableSettlement, TLC

CONSTANTS t1, p1, p2, r1, r2, w1, w2

\* One title of two cents, which two payments may share.
TwoCents == t1 :> 2

\* Payment ids are minted in order, so only handlers are interchangeable.
Symmetry == Permutations({r1, r2}) \cup Permutations({w1, w2})
=============================================================================

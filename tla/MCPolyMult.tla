----------------------------- MODULE MCPolyMult -----------------------------
(***************************************************************************)
(* The product pipeline over the prime 17, degree 4, root 2 and R = 2^6    *)
(* (2Q < R < Q^2, as for the real q and R = 2^32), for one product (L = 1) *)
(* of every pair of operands with coefficients 0, 1, 8 and 16 (zero, one,  *)
(* the middle and -1): 65536 pairs, whose products wrap through X^4 = -1.  *)
(***************************************************************************)
EXTENDS PolyMult

MCInputs == [0..3 -> {0, 1, 8, 16}]

=============================================================================

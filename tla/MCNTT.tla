-------------------------------- MODULE MCNTT --------------------------------
(***************************************************************************)
(* scalar_ntt over the prime 17 with degree 4, root 2 (a primitive 8th     *)
(* root of unity mod 17) and R = 2^6.  As with the real q and R = 2^32,   *)
(* 2Q < R < Q^2, so a Montgomery reduction can end in [Q, 2Q) and needs    *)
(* its final reduce_once.  The inputs take every coefficient               *)
(* from 0, 1, 2, the middle 8 and the top values 15 and 16.               *)
(***************************************************************************)
EXTENDS NTT

MCInputs == [0..3 -> {0, 1, 2, 8, 15, 16}]

=============================================================================

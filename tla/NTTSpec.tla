------------------------------ MODULE NTTSpec ------------------------------
(***************************************************************************)
(* What scalar_ntt of crypto/mldsa/mldsa.cc promises (FIPS 204 Algorithm   *)
(* 41): one call replaces the polynomial s, in place, by its negacyclic    *)
(* number-theoretic transform, the evaluations of s at the odd powers      *)
(* Zeta^(2 brv(k) + 1) of a primitive 2N-th root of unity Zeta, in         *)
(* bit-reversed order.  The call is one step here; module NTT refines it   *)
(* with the butterfly loops of the code.                                   *)
(***************************************************************************)
EXTENDS NTTMath

CONSTANT Inputs

VARIABLES s, done

Init == s \in Inputs /\ done = FALSE

Transform ==
    /\ ~done
    /\ s' = Transformed(s)
    /\ done' = TRUE

\* A called transform returns.
Spec == Init /\ [][Transform]_<<s, done>> /\ WF_<<s, done>>(Transform)

=============================================================================

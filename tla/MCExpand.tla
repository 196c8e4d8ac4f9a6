------------------------------ MODULE MCExpand ------------------------------
(***************************************************************************)
(* One call of an expansion function of Expand, compared with FIPS 204.    *)
(* The seeds are model-value-like names; Kappas are the kappa values the   *)
(* signing loop passes to vector_expand_mask (multiples of L), chosen so   *)
(* that an index reaches 256 and the top of the 16-bit range.              *)
(***************************************************************************)
EXTENDS Expand

CONSTANTS Kappas

ASSUME \A kappa \in Kappas : kappa + L <= 2^16

VARIABLES call, result, pc

vars == <<call, result, pc>>

Calls ==
    {[fn |-> "matrix_expand", kappa |-> 0]}
    \cup {[fn |-> "vector_expand_short", kappa |-> 0]}
    \cup {[fn |-> "vector_expand_mask", kappa |-> kappa] : kappa \in Kappas}

Run(c) ==
    CASE c.fn = "matrix_expand"       -> matrix_expand("rho")
      [] c.fn = "vector_expand_short" -> vector_expand_short("sigma")
      [] c.fn = "vector_expand_mask"  -> vector_expand_mask("rho_prime", c.kappa)

Init ==
    /\ call = [fn |-> "none", kappa |-> 0]
    /\ result = <<>>
    /\ pc = "idle"

\* Key generation, signing or verification calls one expansion function.
Call ==
    /\ pc = "idle"
    /\ call' \in Calls
    /\ result' = Run(call')
    /\ pc' = "done"

Next == Call

Spec == Init /\ [][Next]_vars

-----------------------------------------------------------------------------
(***************************************************************************)
(* Every expansion hashes, for each entry, exactly the FIPS 204 seed: the  *)
(* column before the row for A (lines 1006-1007), one nonce counter from s1 *)
(* on into s2 (1025-1032), and the mask index kappa + i as two             *)
(* little-endian bytes (1046-1047), which differs from a one-byte counter  *)
(* only once kappa + i reaches 256, after about 51 rejected attempts.      *)
(***************************************************************************)
ExpandIsFIPS ==
    pc = "done" =>
        CASE call.fn = "matrix_expand"       -> result = FIPSExpandA("rho")
          [] call.fn = "vector_expand_short" -> result = FIPSExpandS("sigma")
          [] call.fn = "vector_expand_mask"  ->
                 result = FIPSExpandMask("rho_prime", call.kappa)

=============================================================================

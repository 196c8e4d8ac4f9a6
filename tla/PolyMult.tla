------------------------------ MODULE PolyMult ------------------------------
(***************************************************************************)
(* The NTT-domain product pipeline of crypto/mldsa/mldsa.cc as the signer  *)
(* and verifier use it, e.g. w = INTT(A_ntt . NTT(y)) (lines 1493-1498)    *)
(* and cs1 = INTT(s1_ntt o c_ntt) (1512-1516): vector_ntt of the operands, *)
(* one row of matrix_mult (scalar_mult products accumulated by scalar_add  *)
(* from zero) and scalar_inverse_ntt.                                      *)
(*                                                                         *)
(* The forward transform is NTTSpec's Transformed, which module NTT shows  *)
(* the loop of scalar_ntt implements.  The operands are given in standard  *)
(* form; A_ntt, which the code samples directly in the NTT domain, is the  *)
(* transform of some a because the transform is a bijection.              *)
(***************************************************************************)
EXTENDS NTTArith

CONSTANTS L, Inputs

VARIABLES
    a, b,        \* the operand vectors, standard form
    aNtt, bNtt,  \* their transforms
    w,           \* the row product
    pc           \* "start", "ntt", "mult" or "done"

vars == <<a, b, aNtt, bNtt, w, pc>>

Zero == [c \in 0..(N - 1) |-> 0]

\* One row of matrix_mult (383-393): out = 0; out += m[j] o v[j] for each j.
RECURSIVE MatrixRowFrom(_, _, _, _)
MatrixRowFrom(m, v, jj, acc) ==
    IF jj = L THEN acc
    ELSE MatrixRowFrom(m, v, jj + 1, scalar_add(acc, scalar_mult(m[jj], v[jj])))

\* The expected row product: the sum of the negacyclic products.
RECURSIVE RowProductFrom(_, _, _, _)
RowProductFrom(x, y, jj, acc) ==
    IF jj = L THEN acc
    ELSE RowProductFrom(x, y, jj + 1,
             [c \in 0..(N - 1) |-> (acc[c] + NegacyclicProduct(x[jj], y[jj])[c]) % Q])

Init ==
    /\ a \in [0..(L - 1) -> Inputs]
    /\ b \in [0..(L - 1) -> Inputs]
    /\ aNtt = a /\ bNtt = b
    /\ w = Zero
    /\ pc = "start"

\* vector_ntt (367-372) of both operands.
TransformOperands ==
    /\ pc = "start"
    /\ aNtt' = [jj \in 0..(L - 1) |-> Transformed(a[jj])]
    /\ bNtt' = [jj \in 0..(L - 1) |-> Transformed(b[jj])]
    /\ pc' = "ntt"
    /\ UNCHANGED <<a, b, w>>

\* matrix_mult (383-393) for one row.
MatrixMult ==
    /\ pc = "ntt"
    /\ w' = MatrixRowFrom(aNtt, bNtt, 0, Zero)
    /\ pc' = "mult"
    /\ UNCHANGED <<a, b, aNtt, bNtt>>

\* vector_inverse_ntt (374-379) of the row.
InverseTransform ==
    /\ pc = "mult"
    /\ w' = scalar_inverse_ntt(w)
    /\ pc' = "done"
    /\ UNCHANGED <<a, b, aNtt, bNtt>>

Next == TransformOperands \/ MatrixMult \/ InverseTransform

Spec == Init /\ [][Next]_vars

-----------------------------------------------------------------------------
TypeOK ==
    /\ w \in [0..(N - 1) -> 0..(Q - 1)]
    /\ pc \in {"start", "ntt", "mult", "done"}

(***************************************************************************)
(* The pipeline multiplies: INTT(sum_j NTT(a_j) o NTT(b_j)) is the sum of  *)
(* the products a_j b_j in Z_Q[X]/(X^N + 1).  The R^-1 of every            *)
(* reduce_montgomery in scalar_mult and in the inverse butterflies must be *)
(* cancelled exactly by the table's R and by kInverseDegreeMontgomery.     *)
(***************************************************************************)
ProductIsNegacyclic ==
    pc = "done" => w = RowProductFrom(a, b, 0, Zero)

(***************************************************************************)
(* The round trip the spec states (section 9: INTT(NTT(p)) = p, and the    *)
(* comment at line 45: the final factor is 256^-1 in Montgomery form):     *)
(* scalar_inverse_ntt undoes the forward transform of an operand.          *)
(***************************************************************************)
InverseUndoesTransform ==
    pc # "start" => \A jj \in 0..(L - 1) : scalar_inverse_ntt(aNtt[jj]) = a[jj]

=============================================================================

------------------------------ MODULE NTTArith ------------------------------
(***************************************************************************)
(* The Montgomery arithmetic and the polynomial operations of              *)
(* crypto/mldsa/mldsa.cc (lines 146-337) that act on whole scalars:        *)
(* reduce_montgomery, the root table, scalar_add, scalar_mult and the      *)
(* inverse transform scalar_inverse_ntt, whose three nested loops are      *)
(* written as three RECURSIVE operators.                                   *)
(*                                                                         *)
(* Scaled: the prime Q, the degree N (a power of two), the primitive 2N-th *)
(* root of unity Zeta and the Montgomery radix R = 2^RBits are constants   *)
(* (the code: 8380417, 256, 1753, 2^32); TLC integers are 32-bit, so the   *)
(* 64-bit products of the real prime cannot be evaluated.  The code's      *)
(* arguments carry over when 2Q < R: every stored coefficient is below Q,  *)
(* and a uint32_t product (uint32_t)x * kPrimeNegInverse wraps modulo R.   *)
(***************************************************************************)
EXTENDS NTTMath

CONSTANT RBits

ASSUME 2^RBits > 2 * Q

INSTANCE Field

R == 2^RBits

\* kPrimeNegInverse: -Q^-1 mod R (line 41).
kPrimeNegInverse == CHOOSE x \in 0..(R - 1) : (x * Q) % R = R - 1

\* Fault model: the final reduce_once left out.
reduce_montgomery_noreduce(x) ==
    LET a == ((x % R) * kPrimeNegInverse) % R
    IN  (x + a * Q) \div R

\* reduce_montgomery: a = (uint32_t)x * kPrimeNegInverse (mod R),
\* b = x + a Q, which R divides, and reduce_once(b / R).
reduce_montgomery(x) ==
    LET a == ((x % R) * kPrimeNegInverse) % R
    IN  reduce_once((x + a * Q) \div R)

\* kNTTRootsMontgomery[i] = montgomery_transform(Zeta^bitreverse(i)), which
\* is Zeta^bitreverse(i) * R mod Q (the generator in the comment, 146-177).
kNTTRootsMontgomery ==
    [x \in 0..(N - 1) |-> (PowMod(Zeta, BitRev(x)) * R) % Q]

\* Fault model: the constant as its comment describes it, 256^-1 in
\* Montgomery form (N^-1 R).
kInverseDegreeMontgomery_comment == (InvMod(N) * R) % Q

\* kInverseDegreeMontgomery = 41978 (line 46), which is 256^-1 R^2 mod q.
kInverseDegreeMontgomery == (InvMod(N) * R * R) % Q

\* scalar_add (247-251) and scalar_mult (268-273).
scalar_add(lhs, rhs) == [c \in 0..(N - 1) |-> reduce_once(lhs[c] + rhs[c])]

scalar_mult(lhs, rhs) == [c \in 0..(N - 1) |-> reduce_montgomery(lhs[c] * rhs[c])]

-----------------------------------------------------------------------------
(***************************************************************************)
(* scalar_inverse_ntt (303-337).                                           *)
(***************************************************************************)

\* The inverse butterfly at j (lines 319-330).
InverseButterfly(p, root, j, offset) ==
    LET even == p[j]
        odd  == p[j + offset]
    IN  [p EXCEPT ![j] = reduce_once(odd + even),
                  ![j + offset] = reduce_montgomery(root * (Q + even - odd))]

\* for (j = k; j < k + offset; j++)
RECURSIVE InverseInner(_, _, _, _, _)
InverseInner(p, root, k, j, offset) ==
    IF j < k + offset
    THEN InverseInner(InverseButterfly(p, root, j, offset), root, k, j + 1, offset)
    ELSE p

\* for (i = 0; i < step; i++), with step_root = Q - table[step + step-1-i].
RECURSIVE InverseBlocks(_, _, _, _, _)
InverseBlocks(p, step, offset, i, k) ==
    IF i < step
    THEN LET root == Q - kNTTRootsMontgomery[step + (step - 1 - i)]
         IN  InverseBlocks(InverseInner(p, root, k, k, offset),
                           step, offset, i + 1, k + 2 * offset)
    ELSE p

\* for (offset = 1; offset < N; offset <<= 1) { step >>= 1; ... }
RECURSIVE InverseLayers(_, _, _)
InverseLayers(p, step, offset) ==
    IF offset < N
    THEN InverseLayers(InverseBlocks(p, step \div 2, offset, 0, 0),
                       step \div 2, offset * 2)
    ELSE p

\* The final scaling loop (332-335).
scalar_inverse_ntt(p) ==
    LET q == InverseLayers(p, N, 1)
    IN  [c \in 0..(N - 1) |-> reduce_montgomery(q[c] * kInverseDegreeMontgomery)]

=============================================================================

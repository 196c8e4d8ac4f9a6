------------------------------- MODULE Field -------------------------------
(***************************************************************************)
(* Scalar arithmetic modulo the prime Q of crypto/mldsa/mldsa.cc (lines    *)
(* 211-245).  The code works on uint32_t; every value it passes to these   *)
(* functions is below 2Q < 2^24, so the unsigned reading of a value is the *)
(* integer itself.  The one exception is a low-bits coefficient, which the *)
(* code stores as an int32_t inside a uint32_t: such a value is held here  *)
(* as the int32_t it is, and abs_signed tests its sign bit.                *)
(*                                                                         *)
(* The constant_time_select_int / constant_time_lt_w pairs of the code are *)
(* branch-free selections; they are modelled by the value they select.    *)
(***************************************************************************)
EXTENDS Integers

CONSTANT Q

ASSUME Q \in Nat /\ Q > 2 /\ Q % 2 = 1

kHalfPrime == (Q - 1) \div 2

\* reduce_once: returns x < Q ? x : x - Q.  Precondition x < 2Q.
reduce_once(x) == IF x < Q THEN x ELSE x - Q

\* The precondition the code asserts with declassify_assert (line 213).
reduce_once_pre(x) == 0 <= x /\ x < 2 * Q

\* abs_signed: x < 0x80000000 ? x : 0u - x, i.e. |x| of the int32_t reading.
abs_signed(x) == IF x >= 0 THEN x ELSE -x

\* abs_mod_prime: x > kHalfPrime ? Q - x : x.  Precondition x < Q.
abs_mod_prime(x) == IF kHalfPrime < x THEN Q - x ELSE x

\* maximum: x < y ? y : x.
maximum(x, y) == IF x < y THEN y ELSE x

\* mod_sub: reduce_once(Q + a - b).  Preconditions a < Q and b < Q.
mod_sub(a, b) == reduce_once(Q + a - b)

\* The canonical representative in [0, Q) of an integer.  Not code: used to
\* build the inputs the code receives and in reference definitions.
ToField(x) == x % Q

\* The centred reading in (-Q/2, Q/2] of a field element.  Not code.
Centered(x) == IF x > kHalfPrime THEN x - Q ELSE x

=============================================================================

------------------------------ MODULE Rounding ------------------------------
(***************************************************************************)
(* The rounding and hint functions of crypto/mldsa/mldsa.cc (lines         *)
(* 395-494), with the real prime q = 8380417, next to the FIPS 204         *)
(* definitions they implement.  All of them act on one coefficient; the    *)
(* scalar_/vector_ wrappers (496-621) apply them coefficient-wise.         *)
(*                                                                         *)
(* Shifts and masks on non-negative values are written as their            *)
(* arithmetic meaning: x >> k is x \div 2^k and x & 15 is x % 16.  An      *)
(* int32_t right shift of a negative value is arithmetic, so               *)
(* (v >> 31) & q is q when v < 0 and 0 otherwise.                          *)
(***************************************************************************)
EXTENDS Integers

kPrime == 8380417

INSTANCE Field WITH Q <- kPrime

kDroppedBits == 13
kGamma2 == (kPrime - 1) \div 32

(***************************************************************************)
(* power2_round (FIPS 204 Algorithm 35): r1 = r >> 13, r0 = r - (r1<<13),  *)
(* and when r0 > 2^12 both are adjusted: r0 becomes mod_sub(r0, 2^13),     *)
(* which is the field element of r0 - 2^13, and r1 becomes r1 + 1.         *)
(***************************************************************************)
\* Fault model: the adjustment taken also when r0 = 2^12 (>= for >).
power2_round_ge(r) ==
    LET r1 == r \div 2^kDroppedBits
        r0 == r - r1 * 2^kDroppedBits
    IN  IF 2^(kDroppedBits - 1) <= r0
        THEN [r1 |-> r1 + 1, r0 |-> mod_sub(r0, 2^kDroppedBits)]
        ELSE [r1 |-> r1, r0 |-> r0]

power2_round(r) ==
    LET r1 == r \div 2^kDroppedBits
        r0 == r - r1 * 2^kDroppedBits
    IN  IF 2^(kDroppedBits - 1) < r0
        THEN [r1 |-> r1 + 1, r0 |-> mod_sub(r0, 2^kDroppedBits)]
        ELSE [r1 |-> r1, r0 |-> r0]

\* scale_power2_round: out = r1 << 13 (precondition r1 < 2^10).
scale_power2_round(r1) == r1 * 2^kDroppedBits

(***************************************************************************)
(* high_bits (FIPS 204 Algorithm 37) by the reference implementation's     *)
(* formula ((ceil(x / 2^7) * 1025 + 2^21) / 2^22) mod 16.                  *)
(***************************************************************************)
\* Fault model: the final & 15 left out.
high_bits_nomask(x) ==
    LET r1 == (x + 127) \div 2^7
    IN  (r1 * 1025 + 2^21) \div 2^22

high_bits(x) ==
    LET r1 == (x + 127) \div 2^7
    IN  ((r1 * 1025 + 2^21) \div 2^22) % 16

(***************************************************************************)
(* decompose (FIPS 204 Algorithm 36): r1 = high_bits(r);                   *)
(* r0 = r - r1 * 2 * gamma2, minus q when r0 > (q-1)/2 (the sign-mask      *)
(* line 454).  r0 is an int32_t.                                           *)
(***************************************************************************)
\* Fault model: the final fix-up of line 454 left out.
decompose_nowrap(r) ==
    LET r1 == high_bits(r)
    IN  [r1 |-> r1, r0 |-> r - r1 * 2 * kGamma2]

decompose(r) ==
    LET r1 == high_bits(r)
        r0 == r - r1 * 2 * kGamma2
    IN  [r1 |-> r1, r0 |-> IF kHalfPrime - r0 < 0 THEN r0 - kPrime ELSE r0]

\* low_bits (FIPS 204 Algorithm 38).
low_bits(x) == decompose(x).r0

(***************************************************************************)
(* make_hint (FIPS 204 Algorithm 39), called with the three vectors of     *)
(* the signer: r + z = w - cs2 and r = (r + z) + ct0.                      *)
(***************************************************************************)
\* Fault model: the hint computed against w instead of w - cs2.
make_hint_no_cs2(ct0, cs2, w) ==
    LET r == reduce_once(w + ct0)
    IN  IF high_bits(r) # high_bits(w) THEN 1 ELSE 0

make_hint(ct0, cs2, w) ==
    LET r_plus_z == mod_sub(w, cs2)
        r == reduce_once(r_plus_z + ct0)
    IN  IF high_bits(r) # high_bits(r_plus_z) THEN 1 ELSE 0

(***************************************************************************)
(* use_hint_vartime (FIPS 204 Algorithm 40).  (r1 - 1) & 15 on a uint32_t  *)
(* wraps 0 to 15, which is (r1 - 1) % 16.                                  *)
(***************************************************************************)
use_hint_vartime(h, r) ==
    LET d == decompose(r)
    IN  IF h # 0
        THEN IF d.r0 > 0 THEN (d.r1 + 1) % 16 ELSE (d.r1 - 1) % 16
        ELSE d.r1

-----------------------------------------------------------------------------
(***************************************************************************)
(* Reference definitions from FIPS 204 (not code).                         *)
(***************************************************************************)

\* x mod+- m: the representative of x modulo m in (-m/2, m/2].
ModPM(x, m) == LET r == x % m IN IF r > m \div 2 THEN r - m ELSE r

\* FIPS 204 Algorithm 36, Decompose.
FIPSDecompose(r) ==
    LET r0 == ModPM(r, 2 * kGamma2)
    IN  IF r - r0 = kPrime - 1
        THEN [r1 |-> 0, r0 |-> r0 - 1]
        ELSE [r1 |-> (r - r0) \div (2 * kGamma2), r0 |-> r0]

\* FIPS 204 Algorithm 35, Power2Round: r0 = r mod+- 2^d, r1 = (r - r0)/2^d.
FIPSPower2Round(r) ==
    LET r0 == ModPM(r, 2^kDroppedBits)
    IN  [r1 |-> (r - r0) \div 2^kDroppedBits, r0 |-> r0]

=============================================================================

----------------------------- MODULE MCRounding -----------------------------
(***************************************************************************)
(* Checks the rounding functions of crypto/mldsa/mldsa.cc against FIPS 204 *)
(* coefficient by coefficient.  The state is the coefficient r in [0, q)   *)
(* that power2_round (key generation, vector_power2_round at line 1378)   *)
(* and decompose (signing, vector_high_bits / vector_low_bits at lines     *)
(* 1500 and 1524) are applied to; each step moves to another coefficient.  *)
(* The inputs are every coefficient within Window of a point where one of  *)
(* the functions changes case: the 16 decision points (2m+1)*gamma2 of     *)
(* high_bits, the wrap region below q-1, 0, and the rounding points        *)
(* m*2^13 + 2^12 of power2_round for a spread of m up to the last one.     *)
(***************************************************************************)
EXTENDS Rounding

CONSTANT Window

VARIABLE r

Near(c) == {x \in c - Window .. c + Window : 0 <= x /\ x < kPrime}

Inputs ==
    UNION ({Near((2 * m + 1) * kGamma2) : m \in 0..15}
           \cup {Near(0), Near(kPrime - 1), Near(kPrime - 1 - kGamma2)}
           \cup {Near(m * 2^kDroppedBits + 2^(kDroppedBits - 1))
                   : m \in {0, 1, 511, 1021, 1022}})

Init == r \in Inputs

\* The next coefficient the vector wrappers apply the function to.  Every
\* input is already an initial state, so a step to the adjacent value covers
\* the same states as a step to any input without a quadratic successor set.
NextCoefficient == r + 1 \in Inputs /\ r' = r + 1

Next == NextCoefficient

Spec == Init /\ [][Next]_r

\* r is a field element and its high bits fit the 4-bit w1 encoding.
TypeOK == r \in 0..(kPrime - 1) /\ high_bits(r) \in 0..15

(***************************************************************************)
(* decompose (and so high_bits and low_bits) agrees with FIPS 204          *)
(* Decompose on every coefficient, including the top range where r1       *)
(* wraps from 16 to 0 and r0 must become negative through the sign-mask    *)
(* fix-up of line 454.                                                     *)
(***************************************************************************)
DecomposeIsFIPS == decompose(r) = FIPSDecompose(r)

(***************************************************************************)
(* power2_round splits r as FIPS 204 Power2Round does: r1 matches, r0 is   *)
(* the field element of the centred remainder in (-2^12, 2^12], and r1 is *)
(* small enough for scale_power2_round's assertions (r1 < 2^10, r1 << 13  *)
(* < q, lines 417 and 422) and for the 10-bit public-key packer.          *)
(***************************************************************************)
Power2RoundIsFIPS ==
    LET p == power2_round(r)
        f == FIPSPower2Round(r)
    IN  /\ p.r1 = f.r1
        /\ Centered(p.r0) = f.r0
        /\ p.r1 < 2^10
        /\ scale_power2_round(p.r1) < kPrime

=============================================================================

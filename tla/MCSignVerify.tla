---------------------------- MODULE MCSignVerify ----------------------------
(***************************************************************************)
(* Instantiates SignVerify with the boundary data of the rounding and      *)
(* bound checks.                                                           *)
(*  - Contexts: empty, 255 bytes (the longest accepted) and 256 bytes (the *)
(*    shortest refused, whose length byte would be 0).  Messages: empty,   *)
(*    1 and 256 bytes, so that ctx || msg of one call can equal that of      *)
(*    another with a different split.                                      *)
(*  - y: 0 and +-(gamma1 - 2 beta), so that y + cs1 reaches +-(gamma1 -    *)
(*    beta), the first z the signer must refuse.                           *)
(*  - w: the decision points (2m+1) gamma2 of HighBits for m = 0, 7, 15,   *)
(*    offset by -beta-1, -1, 0 and beta; the region below q-1 where r1     *)
(*    wraps to 0; and 0 and q-1.                                           *)
(*  - cs1, cs2: 0, +-1 and +-beta; ct0: 0, +-(gamma2 - 1) and gamma2.      *)
(*  - OtherOnes: 0, omega - 1 and omega, so that this coefficient's hint   *)
(*    bit can take the count to omega and past it.                        *)
(***************************************************************************)
EXTENDS SignVerify

Ones(n) == [i \in 1..n |-> 1]

MCContexts == {<<>>, Ones(255), Ones(256)}
MCMessages == {<<>>, Ones(1), Ones(256)}

MCYValues == {0, 2^19 - 2 * 196, -(2^19 - 2 * 196)}

MCWValues ==
    {ToField((2 * m + 1) * kGamma2 + d) : m \in {0, 7, 15},
                                          d \in {-197, -1, 0, 196}}
    \cup {kPrime - 1 - kGamma2 + d : d \in {-1, 0, 1}}
    \cup {0, kPrime - 1}

MCCSValues == {-196, -1, 0, 1, 196}
MCCT0Values == {0, kGamma2 - 1, -(kGamma2 - 1), kGamma2}
MCOtherOnes == {0, 54, 55}

=============================================================================

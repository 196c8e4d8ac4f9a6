---------------------------- MODULE SampleInBall ----------------------------
(***************************************************************************)
(* scalar_sample_in_ball_vartime of crypto/mldsa/mldsa.cc (lines 954-994), *)
(* FIPS 204 SampleInBall: a Fisher-Yates shuffle that places Tau entries   *)
(* of +-1 in a scalar of N coefficients, drawing positions from a SHAKE-256 *)
(* stream and signs from its first SignBytes bytes.                        *)
(*                                                                         *)
(* The stream is a nondeterministic choice of each squeezed block from     *)
(* Bytes.  Scaled: N coefficients (kDegree = 256), Tau (49 for ML-DSA-65), *)
(* BlockBytes (the SHAKE-256 rate, 136) and SignBytes (8).  Coefficients   *)
(* are field elements of the real q: mod_sub(1, 2b) is 1 or q - 1.         *)
(***************************************************************************)
EXTENDS Integers, Sequences, FiniteSets

CONSTANTS N, Tau, BlockBytes, SignBytes, Bytes

ASSUME /\ Tau \in 1..N
       /\ SignBytes < BlockBytes
       /\ 2^(8 * SignBytes) >= 2^Tau

kPrime == 8380417

INSTANCE Field WITH Q <- kPrime

VARIABLES c, block, offset, signs, i, pc

vars == <<c, block, offset, signs, i, pc>>

Blocks == [0..(BlockBytes - 1) -> Bytes]

\* CRYPTO_load_u64_le of the first SignBytes bytes of the block.
LoadSigns(b) == LET RECURSIVE LE(_) LE(k) == IF k < 0 THEN 0 ELSE LE(k - 1) + b[k] * 256^k
                IN  LE(SignBytes - 1)

\* Lines 954-956: the call begins; nothing is squeezed yet.
Init ==
    /\ block = [x \in 0..(BlockBytes - 1) |-> 0]
    /\ signs = 0
    /\ offset = 0
    /\ c = [x \in 0..(N - 1) |-> 0]
    /\ i = N - Tau
    /\ pc = "start"

\* Lines 957-974: squeeze the first block, take the signs, zero the scalar.
Start ==
    /\ pc = "start"
    /\ block' \in Blocks
    /\ signs' = LoadSigns(block')
    /\ offset' = SignBytes
    /\ c' = [x \in 0..(N - 1) |-> 0]
    /\ i' = N - Tau
    /\ pc' = "draw"

\* Lines 977-982: the block is used up; squeeze the next one.
Squeeze ==
    /\ pc = "draw"
    /\ offset = BlockBytes
    /\ block' \in Blocks
    /\ offset' = 0
    /\ UNCHANGED <<c, signs, i, pc>>

\* Fault model: the two stores of lines 990-991 in the opposite order.
Place_swapped(byte) ==
    LET c1 == [c EXCEPT ![byte] = mod_sub(1, 2 * (signs % 2))]
    IN  [c1 EXCEPT ![i] = c1[byte]]

\* Lines 990-991: c[i] = c[byte], then c[byte] = +-1 by the next sign bit.
Place(byte) ==
    LET c1 == [c EXCEPT ![i] = c[byte]]
    IN  [c1 EXCEPT ![byte] = mod_sub(1, 2 * (signs % 2))]

\* Lines 984-987: the next byte is above i and is rejected.
DrawReject ==
    /\ pc = "draw"
    /\ offset # BlockBytes
    /\ block[offset] > i
    /\ offset' = offset + 1
    /\ UNCHANGED <<c, block, signs, i, pc>>

(***************************************************************************)
(* Lines 984-992 and 974: the next byte is at most i; the coefficient is   *)
(* placed, the signs shift, and the outer loop moves to i + 1.             *)
(***************************************************************************)
DrawAccept ==
    /\ pc = "draw"
    /\ offset # BlockBytes
    /\ block[offset] <= i
    /\ offset' = offset + 1
    /\ c' = Place(block[offset])
    /\ signs' = signs \div 2
    /\ i' = i + 1
    /\ pc' = IF i + 1 = N THEN "done" ELSE "draw"
    /\ UNCHANGED block

Next == Start \/ Squeeze \/ DrawReject \/ DrawAccept

Spec == Init /\ [][Next]_vars

-----------------------------------------------------------------------------
\* The read offset stays inside the block (line 977 refills at exactly
\* BlockBytes), and the loop index stays in the loop's range.
TypeOK ==
    /\ offset \in 0..BlockBytes
    /\ i \in (N - Tau)..N
    /\ c \in [0..(N - 1) -> {0, 1, kPrime - 1}]

NonZero == {x \in 0..(N - 1) : c[x] # 0}

(***************************************************************************)
(* The shuffle keeps the scalar a ball: after placing the entries for      *)
(* N - Tau .. i - 1, exactly i - (N - Tau) coefficients are non-zero, all  *)
(* of them +-1, so the challenge c returned has exactly Tau entries of     *)
(* +-1 (the swap of lines 990-991 moves an earlier +-1 rather than         *)
(* overwriting it, including when byte = i).                               *)
(***************************************************************************)
BallShape ==
    /\ Cardinality(NonZero) = i - (N - Tau)
    /\ pc = "done" => Cardinality(NonZero) = Tau

=============================================================================

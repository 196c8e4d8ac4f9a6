--------------------------- MODULE ScalarFromKeccak ---------------------------
(***************************************************************************)
(* scalar_from_keccak_vartime of crypto/mldsa/mldsa.cc (lines 870-896),    *)
(* FIPS 204 RejNTTPoly: every three bytes of a SHAKE-128 stream give a     *)
(* 23-bit little-endian value (the top bit of the third byte masked off),  *)
(* accepted as a coefficient when it is below q.  The block size is a      *)
(* multiple of 3 (static_assert, line 881), so a triple never straddles    *)
(* two blocks.                                                             *)
(*                                                                         *)
(* Each squeezed block is a nondeterministic choice: byte 3j of a triple   *)
(* from Low, 3j+1 from Mid and 3j+2 from High, sets chosen so that values  *)
(* land on both sides of q with and without the top bit.  The ghost        *)
(* stream holds every byte the loop read.  Scaled: N coefficients          *)
(* (kDegree = 256) and BlockBytes (the SHAKE-128 rate, 168).  MaxBlocks    *)
(* bounds the number of squeezes, as a rejected stream loops forever.      *)
(***************************************************************************)
EXTENDS Integers, Sequences

CONSTANTS N, BlockBytes, Low, Mid, High, MaxBlocks

ASSUME BlockBytes % 3 = 0

kPrime == 8380417

Unset == -1

VARIABLES c, done, block, i, pc, stream

vars == <<c, done, block, i, pc, stream>>

Blocks ==
    {b \in [0..(BlockBytes - 1) -> Low \cup Mid \cup High] :
        \A j \in 0..(BlockBytes \div 3 - 1) :
            b[3 * j] \in Low /\ b[3 * j + 1] \in Mid /\ b[3 * j + 2] \in High}

\* Fault model: the 0x7f mask of the third byte left out.
CoeffFromThreeBytes_nomask(b0, b1, b2) == b0 + b1 * 2^8 + b2 * 2^16

\* Lines 889-890: block[i] | block[i+1] << 8 | (block[i+2] & 0x7f) << 16.
CoeffFromThreeBytes(b0, b1, b2) == b0 + b1 * 2^8 + (b2 % 128) * 2^16

\* Line 891: the value is a coefficient when it is below q.
Accept(value) == value < kPrime

Init ==
    /\ c = [x \in 0..(N - 1) |-> Unset]
    /\ done = 0
    /\ block = [x \in 0..(BlockBytes - 1) |-> 0]
    /\ i = 0
    /\ pc = "while"
    /\ stream = <<>>

\* Lines 884-886: while done < kDegree, squeeze a block and restart i.
Squeeze ==
    /\ pc = "while"
    /\ done < N
    /\ Len(stream) < MaxBlocks * BlockBytes
    /\ block' \in Blocks
    /\ i' = 0
    /\ pc' = "for"
    /\ UNCHANGED <<c, done, stream>>

\* Lines 887-893: one triple; out->c[done++] = value when it is accepted.
Step ==
    /\ pc = "for"
    /\ i < BlockBytes /\ done < N
    /\ LET value == CoeffFromThreeBytes(block[i], block[i + 1], block[i + 2])
       IN  \/ Accept(value) /\ c' = [c EXCEPT ![done] = value] /\ done' = done + 1
           \/ ~Accept(value) /\ UNCHANGED <<c, done>>
    /\ i' = i + 3
    /\ stream' = stream \o <<block[i], block[i + 1], block[i + 2]>>
    /\ UNCHANGED <<block, pc>>

\* Line 887: the triple loop ends at the block end or when done = kDegree.
EndFor ==
    /\ pc = "for"
    /\ ~(i < BlockBytes /\ done < N)
    /\ pc' = "while"
    /\ UNCHANGED <<c, done, block, i, stream>>

\* Line 884: the while test fails and the function returns.
Return ==
    /\ pc = "while"
    /\ done >= N
    /\ pc' = "done"
    /\ UNCHANGED <<c, done, block, i, stream>>

Next == Squeeze \/ Step \/ EndFor \/ Return

Spec == Init /\ [][Next]_vars

-----------------------------------------------------------------------------
(***************************************************************************)
(* FIPS 204 Algorithms 14 and 30 over the integers: each triple            *)
(* (b0, b1, b2) of the stream, with b2 reduced by 128 when it exceeds 127, *)
(* gives 2^16 b2 + 2^8 b1 + b0 when that is below q; the first N of them   *)
(* are the polynomial.                                                     *)
(***************************************************************************)
FIPSCoeff(b0, b1, b2) ==
    LET z == 2^16 * (IF b2 > 127 THEN b2 - 128 ELSE b2) + 2^8 * b1 + b0
    IN  IF z < kPrime THEN <<z>> ELSE <<>>

RECURSIVE FIPSCoefficients(_)
FIPSCoefficients(s) ==
    IF Len(s) < 3 THEN <<>>
    ELSE FIPSCoeff(s[1], s[2], s[3]) \o FIPSCoefficients(SubSeq(s, 4, Len(s)))

\* Every written coefficient is a field element and done stays in range.
TypeOK ==
    /\ done \in 0..N
    /\ i \in 0..BlockBytes
    /\ \A x \in 0..(N - 1) : c[x] = Unset \/ c[x] \in 0..(kPrime - 1)

(***************************************************************************)
(* After every triple the loop reads, the coefficients written so far are  *)
(* the first RejNTTPoly coefficients of the bytes read, in order, as many  *)
(* as FIPS takes; when the function returns the scalar is exactly the FIPS *)
(* polynomial of the matrix entry.  This is about the byte assembly and    *)
(* mask of lines 889-890 and the rejection test of line 891.               *)
(***************************************************************************)
FromKeccakIsFIPS ==
    LET a == FIPSCoefficients(stream)
        n == IF Len(a) < N THEN Len(a) ELSE N
    IN  /\ done = n
        /\ \A k \in 1..n : c[k - 1] = a[k]
        /\ pc = "done" => done = N

=============================================================================

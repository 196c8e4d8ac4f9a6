---------------------------- MODULE ScalarUniform ----------------------------
(***************************************************************************)
(* scalar_uniform<4> of crypto/mldsa/mldsa.cc (lines 910-941), FIPS 204    *)
(* RejBoundedPoly for eta = 4: each byte of a SHAKE-256 stream gives two   *)
(* nibbles, low first; a nibble below 9 becomes the coefficient 4 - nibble *)
(* mod q, and the loop stops as soon as N coefficients are written, even   *)
(* between the two nibbles of one byte.                                    *)
(*                                                                         *)
(* The stream is a nondeterministic choice of each squeezed block from     *)
(* Bytes; the ghost variable stream holds every byte the loop has read, so *)
(* the result can be compared with FIPS 204 on exactly that input.        *)
(* Scaled: N coefficients (kDegree = 256) and BlockBytes (the rate, 136).  *)
(* MaxBlocks bounds the number of squeezes: a stream of rejected bytes     *)
(* keeps the code looping, which has probability zero but no bound.        *)
(***************************************************************************)
EXTENDS Integers, Sequences

CONSTANTS N, BlockBytes, Bytes, MaxBlocks

kPrime == 8380417

INSTANCE Field WITH Q <- kPrime

\* Written by nothing yet: the caller's scalar is not initialised.
Unset == -1

VARIABLES c, done, block, i, pc, stream

vars == <<c, done, block, i, pc, stream>>

Blocks == [0..(BlockBytes - 1) -> Bytes]

\* Fault model: the nibble test of line 903 as nibble <= 9.
coefficient_from_nibble_le9(nibble) ==
    [ok |-> nibble <= 9, v |-> mod_sub(4, nibble)]

\* coefficient_from_nibble<4> (lines 901-908).
coefficient_from_nibble(nibble) ==
    [ok |-> nibble < 9, v |-> mod_sub(4, nibble)]

\* out->c[done++] = v when the nibble is accepted (lines 933-938).
Take(s, nibble) ==
    LET r == coefficient_from_nibble(nibble)
    IN  IF r.ok THEN [c |-> [s.c EXCEPT ![s.done] = r.v], done |-> s.done + 1]
                ELSE s

\* Lines 925-938: the low nibble, then the high one while done < kDegree.
ByteStep(s, byte) ==
    LET s0 == Take(s, byte % 16)
    IN  IF s0.done < N THEN Take(s0, byte \div 16) ELSE s0

Init ==
    /\ c = [x \in 0..(N - 1) |-> Unset]
    /\ done = 0
    /\ block = [x \in 0..(BlockBytes - 1) |-> 0]
    /\ i = 0
    /\ pc = "while"
    /\ stream = <<>>

\* Lines 921-923: while done < kDegree, squeeze a block and restart i.
Squeeze ==
    /\ pc = "while"
    /\ done < N
    /\ Len(stream) < MaxBlocks * BlockBytes
    /\ block' \in Blocks
    /\ i' = 0
    /\ pc' = "for"
    /\ UNCHANGED <<c, done, stream>>

\* Line 924: one iteration of the byte loop.
Step ==
    /\ pc = "for"
    /\ i < BlockBytes /\ done < N
    /\ LET s == ByteStep([c |-> c, done |-> done], block[i])
       IN  c' = s.c /\ done' = s.done
    /\ i' = i + 1
    /\ stream' = Append(stream, block[i])
    /\ UNCHANGED <<block, pc>>

\* Line 924: the byte loop ends at the block end or when done = kDegree.
EndFor ==
    /\ pc = "for"
    /\ ~(i < BlockBytes /\ done < N)
    /\ pc' = "while"
    /\ UNCHANGED <<c, done, block, i, stream>>

\* Line 921: the while test fails and the function returns.
Return ==
    /\ pc = "while"
    /\ done >= N
    /\ pc' = "done"
    /\ UNCHANGED <<c, done, block, i, stream>>

Next == Squeeze \/ Step \/ EndFor \/ Return

Spec == Init /\ [][Next]_vars

-----------------------------------------------------------------------------
(***************************************************************************)
(* FIPS 204 Algorithms 15 and 31 for eta = 4, over the integers: every     *)
(* half-byte b < 9 of the stream, low half first, gives 4 - b; the first N *)
(* of them are the polynomial.                                             *)
(***************************************************************************)
CoefFromHalfByte(b) == IF b < 9 THEN <<4 - b>> ELSE <<>>

RECURSIVE FIPSCoefficients(_)
FIPSCoefficients(s) ==
    IF s = <<>> THEN <<>>
    ELSE CoefFromHalfByte(Head(s) % 16) \o CoefFromHalfByte(Head(s) \div 16)
           \o FIPSCoefficients(Tail(s))

\* done counts written coefficients and never passes the scalar's end.
TypeOK ==
    /\ done \in 0..N
    /\ i \in 0..BlockBytes
    /\ DOMAIN c = 0..(N - 1)
    /\ \A x \in 0..(N - 1) : c[x] = Unset \/ c[x] \in 0..(kPrime - 1)

(***************************************************************************)
(* After every byte the loop reads, the coefficients written so far are    *)
(* the FIPS 204 RejBoundedPoly coefficients of the bytes read, reduced     *)
(* mod q, in order, and there are as many as FIPS takes (all of them, up   *)
(* to N); when the function returns the scalar is exactly the FIPS         *)
(* polynomial.  This is about the two-nibble body of lines 925-938 and its *)
(* stop between the halves of a byte.                                      *)
(***************************************************************************)
UniformIsFIPS ==
    LET a == FIPSCoefficients(stream)
        n == IF Len(a) < N THEN Len(a) ELSE N
    IN  /\ done = n
        /\ \A k \in 1..n : c[k - 1] = ToField(a[k])
        /\ pc = "done" => done = N

=============================================================================

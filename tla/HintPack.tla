------------------------------ MODULE HintPack ------------------------------
(***************************************************************************)
(* hint_bit_pack and hint_bit_unpack of crypto/mldsa/mldsa.cc (lines       *)
(* 1112-1158), FIPS 204 Algorithms 20 and 21, with the dimensions scaled:  *)
(* N is kDegree, K the number of polynomials and Omega the hint budget.    *)
(* The code relies on kDegree = 256, which makes every byte a valid        *)
(* coefficient index (the static_assert at line 1147); the scaled model    *)
(* keeps that by using bytes 0..N-1 with N > Omega + 1, so that a limit    *)
(* byte can still exceed Omega.                                            *)
(*                                                                         *)
(* A hint vector is a function from 0..K-1 to the set of positions of its *)
(* ones; an encoding is a function from 0..Omega+K-1 to bytes, indexed as  *)
(* the code indexes `in` and `out`.                                        *)
(***************************************************************************)
EXTENDS Integers, Sequences, SequencesExt

CONSTANTS N, K, Omega

ASSUME /\ K \in Nat \ {0} /\ Omega \in Nat \ {0}
       /\ N \in Nat /\ N > Omega + 1

Bytes == 0..(N - 1)
EncodingIndex == 0..(Omega + K - 1)

\* The hint vectors with at most Omega ones, the ones hint_bit_pack accepts.
Hints ==
    {h \in [0..(K - 1) -> SUBSET Bytes] :
        FoldFunction(LAMBDA S, acc : Cardinality(S) + acc, 0, h) <= Omega}

(***************************************************************************)
(* hint_bit_pack: out is zeroed; the positions of the ones are written in  *)
(* order, polynomial by polynomial, coefficient by coefficient, and        *)
(* out[Omega + i] is the running count after polynomial i.                 *)
(***************************************************************************)
OnesInOrder(h) == FlattenSeq([i \in 1..K |-> SetToSortSeq(h[i - 1], <)])

OnesUpTo(h, i) == FlattenSeq([p \in 1..(i + 1) |-> SetToSortSeq(h[p - 1], <)])

hint_bit_pack(h) ==
    LET ones == OnesInOrder(h)
    IN  [x \in EncodingIndex |->
            IF x < Omega
            THEN IF x < Len(ones) THEN ones[x + 1] ELSE 0
            ELSE Len(OnesUpTo(h, x - Omega))]

-----------------------------------------------------------------------------
(***************************************************************************)
(* hint_bit_unpack, loop by loop.  Each returns the index reached, the     *)
(* hint written so far (the code writes into *h before it may fail) and    *)
(* whether it succeeded.                                                   *)
(***************************************************************************)

\* Fault model: the limit compared with Omega by >= instead of >.
LimitInvalid_ge(limit, index) == limit < index \/ limit >= Omega

\* limit < index || limit > omega (line 1136).
LimitInvalid(limit, index) == limit < index \/ limit > Omega

\* Fault model: the ordering test left out.
OutOfOrder_none(last, byte) == FALSE

\* last >= 0 && byte <= last (line 1143).
OutOfOrder(last, byte) == last >= 0 /\ byte <= last

\* The inner while loop (lines 1141-1150) for polynomial i.
RECURSIVE ReadPositions(_, _, _, _, _, _)
ReadPositions(in, i, index, limit, last, h) ==
    IF index >= limit
    THEN [ok |-> TRUE, index |-> index, h |-> h]
    ELSE IF OutOfOrder(last, in[index])
         THEN [ok |-> FALSE, index |-> index + 1, h |-> h]
         ELSE ReadPositions(in, i, index + 1, limit, in[index],
                            [h EXCEPT ![i] = @ \cup {in[index]}])

\* The outer for loop (lines 1134-1151), from polynomial i on.
RECURSIVE ReadPolynomials(_, _, _, _)
ReadPolynomials(in, i, index, h) ==
    IF i = K
    THEN [ok |-> TRUE, index |-> index, h |-> h]
    ELSE LET limit == in[Omega + i]
         IN  IF LimitInvalid(limit, index)
             THEN [ok |-> FALSE, index |-> index, h |-> h]
             ELSE LET r == ReadPositions(in, i, index, limit, -1, h)
                  IN  IF r.ok THEN ReadPolynomials(in, i + 1, r.index, r.h)
                              ELSE r

\* The final loop (lines 1152-1156): the unused position bytes are zero.
UnusedBytesZero(in, index) == \A x \in index..(Omega - 1) : in[x] = 0

hint_bit_unpack(in) ==
    LET r == ReadPolynomials(in, 0, 0, [i \in 0..(K - 1) |-> {}])
    IN  [ok |-> r.ok /\ UnusedBytesZero(in, r.index), h |-> r.h]

=============================================================================

------------------------------ MODULE NTTMath ------------------------------
(***************************************************************************)
(* Reference definitions for the polynomial ring Z_Q[X]/(X^N + 1) of       *)
(* FIPS 204 (not code): bit reversal, powers, evaluation, the negacyclic   *)
(* NTT and the schoolbook negacyclic product.                              *)
(***************************************************************************)
EXTENDS Integers

LOCAL INSTANCE FiniteSetsExt

CONSTANTS Q, N, Zeta

\* log2 of a power of two.
RECURSIVE Log2(_)
Log2(n) == IF n <= 1 THEN 0 ELSE 1 + Log2(n \div 2)

\* The index i reversed in Log2(N) bits (the bitreverse of the comment at
\* mldsa.cc 153-160, for the scaled degree).
RECURSIVE BitRevBits(_, _)
BitRevBits(x, bits) ==
    IF bits = 0 THEN 0
    ELSE (x % 2) * 2^(bits - 1) + BitRevBits(x \div 2, bits - 1)

BitRev(x) == BitRevBits(x, Log2(N))

\* x^e mod Q.
RECURSIVE PowMod(_, _)
PowMod(x, e) == IF e = 0 THEN 1 % Q ELSE (x * PowMod(x, e - 1)) % Q

\* The inverse of x modulo Q.
InvMod(x) == CHOOSE y \in 1..(Q - 1) : (x * y) % Q = 1

\* p(x) mod Q by Horner's rule, from coefficient c on.
RECURSIVE EvalFrom(_, _, _)
EvalFrom(p, x, c) == IF c = N THEN 0 ELSE (p[c] + x * EvalFrom(p, x, c + 1)) % Q

\* The negacyclic NTT: coefficient m is p evaluated at Zeta^(2 brv(m) + 1).
Transformed(p) ==
    [m \in 0..(N - 1) |-> EvalFrom(p, PowMod(Zeta, 2 * BitRev(m) + 1), 0)]

\* The product of a and b in Z_Q[X]/(X^N + 1): X^N wraps to -1.
NegacyclicProduct(a, b) ==
    [m \in 0..(N - 1) |->
        LET Term(xy) == LET x == xy[1]  y == xy[2]
                        IN  IF x + y = m THEN a[x] * b[y]
                            ELSE IF x + y = m + N THEN -(a[x] * b[y]) ELSE 0
        IN  MapThenSumSet(Term, (0..(N - 1)) \X (0..(N - 1))) % Q]

=============================================================================

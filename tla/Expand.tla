------------------------------- MODULE Expand -------------------------------
(***************************************************************************)
(* The expansion functions of crypto/mldsa/mldsa.cc (lines 996-1050):      *)
(* matrix_expand (FIPS 204 ExpandA), vector_expand_short (ExpandS) and     *)
(* vector_expand_mask (ExpandMask).  Each copies a seed into derived_seed, *)
(* writes two bytes after it in a loop and calls a sampler per entry.      *)
(*                                                                         *)
(* The samplers themselves are ScalarFromKeccak, ScalarUniform and         *)
(* BitPack's subject; here a call is a record of the sampler, the entry it *)
(* writes and the bytes it hashes: the copied seed (a model value) and the *)
(* two bytes the loop put after it.                                        *)
(***************************************************************************)
EXTENDS Integers, Sequences

CONSTANTS K, L

\* A uint8_t store: the value modulo 2^8.
Byte(x) == x % 256

\* One sampler call on derived_seed = seed || b0 || b1.
SamplerCall(sampler, entry, seed, b0, b1) ==
    [sampler |-> sampler, entry |-> entry, seed |-> seed, suffix |-> <<b0, b1>>]

\* matrix_expand (998-1011): for each row i and column j, derived_seed gets
\* j then i and scalar_from_keccak_vartime writes A[i][j].
matrix_expand(rho) ==
    [n \in 1..(K * L) |->
        LET i == (n - 1) \div L
            j == (n - 1) % L
        IN  SamplerCall("from_keccak", <<"A", i, j>>, rho, Byte(j), Byte(i))]

\* vector_expand_short (1015-1033): derived_seed ends 0, 0; after each call
\* of scalar_uniform the first byte is incremented as a uint8_t, through the
\* L entries of s1 and on through the K of s2.  The second byte stays 0.
RECURSIVE ExpandShortFrom(_, _, _)
ExpandShortFrom(sigma, n, b) ==
    IF n = L + K THEN <<>>
    ELSE LET entry == IF n < L THEN <<"s1", n>> ELSE <<"s2", n - L>>
         IN  <<SamplerCall("uniform", entry, sigma, b, 0)>>
                 \o ExpandShortFrom(sigma, n + 1, Byte(b + 1))

vector_expand_short(sigma) == ExpandShortFrom(sigma, 0, 0)

\* Fault model: only the low byte of the index written, as in
\* vector_expand_short, leaving the second byte 0.
MaskIndexBytes_low(index) == <<index % 256, 0>>

\* Lines 1046-1047: index & 0xFF, then (index >> 8) & 0xFF.
MaskIndexBytes(index) == <<index % 256, (index \div 256) % 256>>

\* vector_expand_mask (1037-1050) after its assert (kappa + L <= 0x10000,
\* which its caller's kappa satisfies): entry i hashes the index kappa + i
\* in scalar_sample_mask (944-951).
vector_expand_mask(seed, kappa) ==
    [n \in 1..L |->
        LET b == MaskIndexBytes(kappa + n - 1)
        IN  SamplerCall("sample_mask", <<"y", n - 1>>, seed, b[1], b[2])]

-----------------------------------------------------------------------------
(***************************************************************************)
(* FIPS 204 Algorithms 32-34: the seed of each entry is the input seed     *)
(* followed by IntegerToBytes (Algorithm 11, little-endian) of its index:  *)
(* s then r for A[r][s], r (then r + L for s2) on two bytes for ExpandS,   *)
(* mu + r on two bytes for ExpandMask.                                     *)
(***************************************************************************)
RECURSIVE IntegerToBytes(_, _)
IntegerToBytes(x, n) ==
    IF n = 0 THEN <<>> ELSE <<x % 256>> \o IntegerToBytes(x \div 256, n - 1)

FIPSCall(sampler, entry, seed, suffix) ==
    [sampler |-> sampler, entry |-> entry, seed |-> seed, suffix |-> suffix]

FIPSExpandA(rho) ==
    [n \in 1..(K * L) |->
        LET r == (n - 1) \div L
            s == (n - 1) % L
        IN  FIPSCall("from_keccak", <<"A", r, s>>, rho,
                     IntegerToBytes(s, 1) \o IntegerToBytes(r, 1))]

FIPSExpandS(rho) ==
    [n \in 1..(L + K) |->
        IF n <= L
        THEN FIPSCall("uniform", <<"s1", n - 1>>, rho, IntegerToBytes(n - 1, 2))
        ELSE FIPSCall("uniform", <<"s2", n - 1 - L>>, rho, IntegerToBytes(n - 1, 2))]

FIPSExpandMask(rho, mu) ==
    [n \in 1..L |->
        FIPSCall("sample_mask", <<"y", n - 1>>, rho, IntegerToBytes(mu + n - 1, 2))]

=============================================================================

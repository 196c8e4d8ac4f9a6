------------------------------ MODULE Dataflow ------------------------------
(***************************************************************************)
(* The data flow of key generation, public_from_private, signing and       *)
(* verification in crypto/mldsa/mldsa.cc through their heap temporaries   *)
(* (struct values_st) and the vector functions of lines 339-621.           *)
(*                                                                         *)
(* A buffer (a vector, a scalar, a byte array or a uint32_t) is a slot of  *)
(* mem, and its content is the term that computed it: the function and   *)
(* the terms of its arguments.  The arithmetic of every function is the   *)
(* subject of the Rounding, NTT, PolyMult, BitPack and sampler modules;   *)
(* here only which buffer each call reads and writes matters.  The code  *)
(* reuses buffers (y_ntt is cs1; r0 and ct0 are w1; the verifier's w1 is  *)
(* az_ntt), so a term read after its buffer was reused differs from the   *)
(* FIPS 204 one.  malloc'd buffers start as Uninitialized.                 *)
(***************************************************************************)
EXTENDS Integers, Sequences

Term(op, args, n) == [op |-> op, args |-> args, n |-> n]
Leaf(name) == Term(name, <<>>, 0)
Un(op, x) == Term(op, <<x>>, 0)
Bin(op, x, y) == Term(op, <<x, y>>, 0)
Uninitialized == Leaf("uninitialized")

\* out = f(ins...): every coefficient of out is computed from the same
\* coefficient of the inputs before it is stored, so out may be an input.
Call(mem, out, f, ins) ==
    [mem EXCEPT ![out] = Term(f, [i \in DOMAIN ins |-> mem[ins[i]]], 0)]

\* OPENSSL_memcpy of a whole buffer.
Copy(mem, dst, src) == [mem EXCEPT ![dst] = mem[src]]

vector_add(mem, out, lhs, rhs) == Call(mem, out, "add", <<lhs, rhs>>)
vector_sub(mem, out, lhs, rhs) == Call(mem, out, "sub", <<lhs, rhs>>)
vector_mult_scalar(mem, out, lhs, rhs) == Call(mem, out, "mult", <<lhs, rhs>>)
vector_ntt(mem, a) == Call(mem, a, "ntt", <<a>>)
vector_inverse_ntt(mem, a) == Call(mem, a, "intt", <<a>>)
scalar_ntt(mem, a) == Call(mem, a, "ntt", <<a>>)

\* vector_zero(out), then out[i] += m[i][j] * a[j]; out (a vector<K>) and
\* a (a vector<L>) are different types for ML-DSA-65, so never one buffer.
matrix_mult(mem, out, m, a) == Call(mem, out, "matrix_mult", <<m, a>>)

\* One loop, both outputs from the same input coefficient.
vector_power2_round(mem, t1, t0, t) ==
    [mem EXCEPT ![t1] = Un("power2_round_1", mem[t]), ![t0] = Un("power2_round_0", mem[t])]

vector_scale_power2_round(mem, out, in) == Call(mem, out, "scale_power2_round", <<in>>)
vector_high_bits(mem, out, in) == Call(mem, out, "high_bits", <<in>>)
vector_low_bits(mem, out, in) == Call(mem, out, "low_bits", <<in>>)
vector_make_hint(mem, out, ct0, cs2, w) == Call(mem, out, "make_hint", <<ct0, cs2, w>>)
vector_use_hint_vartime(mem, out, h, r) == Call(mem, out, "use_hint", <<h, r>>)

\* The reductions return a uint32_t / size_t, kept in the slot out.
vector_max(mem, out, a) == Call(mem, out, "max", <<a>>)
vector_max_signed(mem, out, a) == Call(mem, out, "max_signed", <<a>>)
vector_count_ones(mem, out, a) == Call(mem, out, "count_ones", <<a>>)

\* Expansion, sampling, encoding and hashing (Expand, samplers, BitPack, Keccak).
matrix_expand(mem, out, rho) == Call(mem, out, "expand_A", <<rho>>)
vector_expand_short(mem, s1, s2, sigma) ==
    [mem EXCEPT ![s1] = Un("expand_s1", mem[sigma]), ![s2] = Un("expand_s2", mem[sigma])]
vector_expand_mask(mem, out, seed, kappa) ==
    [mem EXCEPT ![out] = Term("expand_mask", <<mem[seed]>>, kappa)]
scalar_sample_in_ball_vartime(mem, out, c_tilde) == Call(mem, out, "sample_in_ball", <<c_tilde>>)
w1_encode(mem, out, w1) == Call(mem, out, "w1_encode", <<w1>>)
Hash(mem, out, ins) == Call(mem, out, "H", ins)

-----------------------------------------------------------------------------
\* Fault model: power2_round applied before s2 is added.
KeyGenT_noadd(mem) == mem

\* 1376: t += s2, in place (coefficient-wise, so safe).
KeyGenT(mem) == vector_add(mem, "t", "t", "priv.s2")

\* mldsa_generate_key_external_entropy (1351-1393) after its malloc: the
\* expanded seed, A, s1 and s2, t = NTT^-1(A * NTT(s1)) + s2, power2_round
\* into the public t1 and the private t0, the public key marshalled into the
\* caller's array and hashed into public_key_hash.
mldsa_generate_key_external_entropy(mem) ==
    LET m1  == Hash(mem, "expanded_seed", <<"entropy">>)
        m2  == Call(m1, "rho", "rho_of", <<"expanded_seed">>)
        m3  == Call(m2, "sigma", "sigma_of", <<"expanded_seed">>)
        m4  == Call(m3, "k", "k_of", <<"expanded_seed">>)
        m5  == Copy(Copy(Copy(m4, "pub.rho", "rho"), "priv.rho", "rho"), "priv.k", "k")
        m6  == matrix_expand(m5, "a_ntt", "rho")
        m7  == vector_expand_short(m6, "priv.s1", "priv.s2", "sigma")
        m8  == vector_ntt(Copy(m7, "s1_ntt", "priv.s1"), "s1_ntt")
        m9  == vector_inverse_ntt(matrix_mult(m8, "t", "a_ntt", "s1_ntt"), "t")
        m10 == vector_power2_round(KeyGenT(m9), "pub.t1", "priv.t0", "t")
        m11 == Call(m10, "out_public_key", "pk_encode", <<"pub.rho", "pub.t1">>)
    IN  Hash(m11, "priv.public_key_hash", <<"out_public_key">>)

\* mldsa_public_from_private (1410-1427) after its malloc.
mldsa_public_from_private(mem) ==
    LET m1 == Copy(Copy(mem, "pub.rho", "priv.rho"),
                   "pub.public_key_hash", "priv.public_key_hash")
        m2 == matrix_expand(m1, "a_ntt", "priv.rho")
        m3 == vector_ntt(Copy(m2, "s1_ntt", "priv.s1"), "s1_ntt")
        m4 == vector_inverse_ntt(matrix_mult(m3, "t", "a_ntt", "s1_ntt"), "t")
        m5 == vector_add(m4, "t", "t", "priv.s2")
    IN  vector_power2_round(m5, "pub.t1", "t0", "t")

\* mu and rho' (1440-1456), computed before the malloc.
SignHashes(mem) ==
    Hash(Hash(mem, "mu", <<"priv.public_key_hash", "context", "msg">>),
         "rho_prime", <<"priv.k", "randomizer", "mu">>)

\* 1476-1486: the NTTs of s1, s2, t0 and A, once per call.
SignSetup(mem) ==
    LET m1 == vector_ntt(Copy(mem, "s1_ntt", "priv.s1"), "s1_ntt")
        m2 == vector_ntt(Copy(m1, "s2_ntt", "priv.s2"), "s2_ntt")
        m3 == vector_ntt(Copy(m2, "t0_ntt", "priv.t0"), "t0_ntt")
    IN  matrix_expand(m3, "a_ntt", "priv.rho")

\* Fault model: the NTT of y taken in place in y itself.
y_ntt_y == "y"

\* The buffers the loop reuses: vector<L> *y_ntt = &values->cs1 (1493),
\* vector<K> *r0 = &values->w1 (1522), vector<K> *ct0 = &values->w1 (1543).
y_ntt == "cs1"
r0 == "w1"
ct0 == "w1"

\* One attempt up to the first rejection test (1491-1536).
SignFirst(mem, kappa) ==
    LET m1  == vector_expand_mask(mem, "y", "rho_prime", kappa)
        m2  == vector_ntt(Copy(m1, y_ntt, "y"), y_ntt)
        m3  == vector_inverse_ntt(matrix_mult(m2, "w", "a_ntt", y_ntt), "w")
        m4  == w1_encode(vector_high_bits(m3, "w1", "w"), "w1_encoded", "w1")
        m5  == Hash(m4, "sign.c_tilde", <<"mu", "w1_encoded">>)
        m6  == scalar_ntt(scalar_sample_in_ball_vartime(m5, "c_ntt", "sign.c_tilde"), "c_ntt")
        m7  == vector_inverse_ntt(vector_mult_scalar(m6, "cs1", "s1_ntt", "c_ntt"), "cs1")
        m8  == vector_inverse_ntt(vector_mult_scalar(m7, "cs2", "s2_ntt", "c_ntt"), "cs2")
        m9  == vector_add(m8, "sign.z", "y", "cs1")
        m10 == vector_low_bits(vector_sub(m9, r0, "w", "cs2"), r0, r0)
    IN  vector_max_signed(vector_max(m10, "z_max", "sign.z"), "r0_max", r0)

\* The rest of an attempt that passed the first test (1543-1550).
SignSecond(mem) ==
    LET m1 == vector_inverse_ntt(vector_mult_scalar(mem, ct0, "t0_ntt", "c_ntt"), ct0)
        m2 == vector_make_hint(m1, "sign.h", ct0, "cs2", "w")
    IN  vector_count_ones(vector_max(m2, "ct0_max", ct0), "h_ones", "sign.h")

\* 1561-1566: mldsa_marshal_signature into the caller's array.
MarshalSignature(mem) ==
    Call(mem, "out_signature", "sig_encode", <<"sign.c_tilde", "sign.z", "sign.h">>)

\* mldsa_parse_signature (1594-1598) of the caller's bytes.
ParseSignature(mem) ==
    LET m1 == Call(mem, "sign.c_tilde", "c_tilde_of", <<"encoded_signature">>)
        m2 == Call(m1, "sign.z", "z_of", <<"encoded_signature">>)
    IN  Call(m2, "sign.h", "h_of", <<"encoded_signature">>)

\* Fault model: the norm taken of the NTT-domain copy of z.
verify_z_norm_ntt == "z_ntt"

\* 1641: vector_max(&values->sign.z).
verify_z_norm == "sign.z"

\* 1627: vector<K> *const w1 = &values->az_ntt.
verify_w1 == "az_ntt"

\* mldsa_verify_internal (1601-1641) after the parse: the final test
\* compares the slots c_tilde and z_max.
mldsa_verify_internal(mem) ==
    LET m1 == matrix_expand(mem, "a_ntt", "pub.rho")
        m2 == Hash(m1, "mu", <<"pub.public_key_hash", "context", "msg">>)
        m3 == scalar_ntt(scalar_sample_in_ball_vartime(m2, "c_ntt", "sign.c_tilde"), "c_ntt")
        m4 == vector_ntt(Copy(m3, "z_ntt", "sign.z"), "z_ntt")
        m5 == matrix_mult(m4, "az_ntt", "a_ntt", "z_ntt")
        m6 == vector_ntt(vector_scale_power2_round(m5, "ct1_ntt", "pub.t1"), "ct1_ntt")
        m7 == vector_mult_scalar(m6, "ct1_ntt", "ct1_ntt", "c_ntt")
        m8 == vector_inverse_ntt(vector_sub(m7, verify_w1, "az_ntt", "ct1_ntt"), verify_w1)
        m9 == w1_encode(vector_use_hint_vartime(m8, verify_w1, "sign.h", verify_w1),
                        "w1_encoded", verify_w1)
    IN  vector_max(Hash(m9, "c_tilde", <<"mu", "w1_encoded">>), "z_max", verify_z_norm)

-----------------------------------------------------------------------------
(***************************************************************************)
(* FIPS 204 Algorithms 6-8 as terms over the same functions, written from  *)
(* the standard with no buffers: In(x) is the caller's input x.  Two forms *)
(* follow the code's interface, not the standard's wording: MakeHint is    *)
(* make_hint(ct0, cs2, w) (Rounding shows it equals MakeHint(-ct0,         *)
(* w - cs2 + ct0)), and "context" stands for the prefix and the context.  *)
(***************************************************************************)
In(x) == Leaf(x)

\* ||x||_inf: low_bits leaves int32_t values, read with abs_signed
\* (vector_max_signed); every other vector holds values mod q, read with
\* abs_mod_prime (vector_max).
Norm(x) == Un(IF x.op = "low_bits" THEN "max_signed" ELSE "max", x)

\* t1 of Algorithm 6 from rho, s1 and s2.
FIPST(rho, s1, s2) ==
    Bin("add", Un("intt", Bin("matrix_mult", Un("expand_A", rho), Un("ntt", s1))), s2)

FIPSKeyGen ==
    LET seed  == Un("H", In("entropy"))
        rho   == Un("rho_of", seed)
        sigma == Un("sigma_of", seed)
        s1    == Un("expand_s1", sigma)
        s2    == Un("expand_s2", sigma)
        t     == FIPST(rho, s1, s2)
        pk    == Bin("pk_encode", rho, Un("power2_round_1", t))
    IN  [rho |-> rho, k |-> Un("k_of", seed), s1 |-> s1, s2 |-> s2,
         t0 |-> Un("power2_round_0", t), pk |-> pk, tr |-> Un("H", pk)]

\* Algorithm 7 at the attempt with mask index kappa.
FIPSSign(kappa) ==
    LET mu   == Term("H", <<In("priv.public_key_hash"), In("context"), In("msg")>>, 0)
        rhop == Term("H", <<In("priv.k"), In("randomizer"), mu>>, 0)
        A    == Un("expand_A", In("priv.rho"))
        y    == Term("expand_mask", <<rhop>>, kappa)
        w    == Un("intt", Bin("matrix_mult", A, Un("ntt", y)))
        ct   == Bin("H", mu, Un("w1_encode", Un("high_bits", w)))
        c    == Un("ntt", Un("sample_in_ball", ct))
        cs1  == Un("intt", Bin("mult", Un("ntt", In("priv.s1")), c))
        cs2  == Un("intt", Bin("mult", Un("ntt", In("priv.s2")), c))
        ctz  == Un("intt", Bin("mult", Un("ntt", In("priv.t0")), c))
        z    == Bin("add", y, cs1)
        h    == Term("make_hint", <<ctz, cs2, w>>, 0)
    IN  [c_tilde |-> ct, z |-> z, h |-> h,
         z_norm |-> Norm(z), r0_norm |-> Norm(Un("low_bits", Bin("sub", w, cs2))),
         ct0_norm |-> Norm(ctz), ones |-> Un("count_ones", h)]

\* Algorithm 8 on the caller's encoded signature.
FIPSVerify ==
    LET enc == In("encoded_signature")
        mu  == Term("H", <<In("pub.public_key_hash"), In("context"), In("msg")>>, 0)
        ct  == Un("c_tilde_of", enc)
        z   == Un("z_of", enc)
        c   == Un("ntt", Un("sample_in_ball", ct))
        ct1 == Bin("mult", Un("ntt", Un("scale_power2_round", In("pub.t1"))), c)
        wa  == Un("intt", Bin("sub", Bin("matrix_mult", Un("expand_A", In("pub.rho")),
                                               Un("ntt", z)), ct1))
        w1  == Bin("use_hint", Un("h_of", enc), wa)
    IN  [c_tilde |-> ct, c_tilde2 |-> Bin("H", mu, Un("w1_encode", w1)), z_norm |-> Norm(z)]

=============================================================================

----------------------------- MODULE SignVerify -----------------------------
(***************************************************************************)
(* One signing call of crypto/mldsa/mldsa.cc (MLDSA65_sign, lines          *)
(* 1742-1757, and the rejection loop of mldsa_sign_internal, 1431-1570)    *)
(* followed by any number of verifications of its signature                *)
(* (MLDSA65_verify 1759-1772 and mldsa_verify_internal 1572-1645).         *)
(*                                                                         *)
(* Abstraction.                                                            *)
(*  - Vectors are abstracted to one representative coefficient: every      *)
(*    bound check of the code is a maximum over all coefficients, so it    *)
(*    passes iff it passes at each one, and the verifier's reconstruction *)
(*    of w1 is coefficient-wise.  The one check that is not per            *)
(*    coefficient, the count of hint ones (line 1550), adds the hint bit   *)
(*    of this coefficient to OtherOnes, the ones of all others.            *)
(*  - The coefficient values one attempt produces (y from ExpandMask,      *)
(*    w = A y, cs1 = c s1, cs2 = c s2, ct0 = c t0) are chosen from the     *)
(*    data sets.  |cs1|, |cs2| <= beta = tau * eta because c has tau       *)
(*    entries +-1 and s1, s2 have entries in [-eta, eta].                  *)
(*  - SHAKE-256 is modelled as injective: a hash is the sequence it        *)
(*    absorbs.  mu absorbs tr || {0, len} || ctx || msg (tr is the same    *)
(*    for signer and verifier and is left out) and c~ absorbs mu and the   *)
(*    4-bit encoding of w1, written as the pair <<mu, w1>>.                *)
(*  - The verifier computes A z - c t1 2^13 in the NTT domain.  Because    *)
(*    z = y + c s1 and t1 2^13 = A s1 + s2 - t0, that coefficient is       *)
(*    w - cs2 + ct0 mod q; the signer records it in the signature as the   *)
(*    ghost field azMinusCt1.                                              *)
(*  - The hint vector travels through hint_bit_pack / hint_bit_unpack,     *)
(*    whose round trip module HintPack checks; z travels through the       *)
(*    20-bit signed packer, modelled per coefficient.                      *)
(***************************************************************************)
EXTENDS Integers, Sequences, FiniteSets, Rounding

CONSTANTS
    Contexts,      \* contexts the caller may pass (byte sequences)
    Messages,      \* messages the caller may pass (byte sequences)
    YValues,       \* centred values of a coefficient of y
    WValues,       \* values in [0, q) of a coefficient of w = A y
    CSValues,      \* centred values of a coefficient of c s1 and c s2
    CT0Values,     \* centred values of a coefficient of c t0
    OtherOnes,     \* numbers of hint ones in the other coefficients
    MaxKappa,      \* model bound: no attempt starts with kappa >= MaxKappa
    NDEBUG         \* TRUE for a build in which assert() is compiled out

ASSUME /\ YValues \subseteq (-(2^19) + 1)..(2^19)
       /\ WValues \subseteq 0..(kPrime - 1)
       /\ CSValues \subseteq -196..196
       /\ CT0Values \subseteq (-kHalfPrime)..kHalfPrime
       /\ OtherOnes \subseteq Nat
       /\ MaxKappa \in Nat /\ NDEBUG \in BOOLEAN

\* ML-DSA-65 parameters (lines 72-126).
kL == 5
kGamma1 == 2^19
kBeta == 196
kOmega == 55
\* The mask nonce is two bytes (lines 1046-1047).
kNonceSpace == 2^16

VARIABLES
    phase,       \* "idle", "looping", "signed", "failed" or "aborted"
    call,        \* the (ctx, msg) of the signing call
    mu,          \* the message representative of the signing call
    kappa,       \* the loop counter of mldsa_sign_internal
    usedNonces,  \* the ExpandMask nonces the call has derived so far
    sig,         \* the emitted signature, or NoSig
    verdict      \* the last verification and its result, or NoVerdict

vars == <<phase, call, mu, kappa, usedNonces, sig, verdict>>

NoSig == [none |-> TRUE]
NoVerdict == [none |-> TRUE]

-----------------------------------------------------------------------------
(***************************************************************************)
(* Encodings.                                                              *)
(***************************************************************************)

\* Fault model: the prefix without the context-length byte.
ContextPrefix_nolen(ctx) == <<0>>

\* The context prefix {0, static_cast<uint8_t>(context_len)} (1753, 1768).
ContextPrefix(ctx) == <<0, Len(ctx) % 256>>

\* mu = SHAKE-256(tr || prefix || ctx || msg) (1440-1448, 1602-1610).
Mu(ctx, msg) == ContextPrefix(ctx) \o ctx \o msg

\* The nonce of ExpandMask for index kappa + i: its low and high bytes
\* (1045-1047).
MaskNonce(index) == (index % 256) + 256 * ((index \div 256) % 256)

AttemptNonces(k) == {MaskNonce(k + i) : i \in 0..(kL - 1)}

\* A coefficient of z through scalar_encode_signed_20_19 and
\* scalar_decode_signed_20_19: mod_sub(2^19, v), read back as 20 bits.
\* Fault model: the subtraction without its reduction.
EncodeZ_nored(z) == kPrime + 2^19 - z

EncodeZ(z) == mod_sub(2^19, z)
DecodeZ(a) == mod_sub(2^19, a % 2^20)

-----------------------------------------------------------------------------
(***************************************************************************)
(* One attempt of the signing loop at the representative coefficient      *)
(* (lines 1491-1546): z = y + cs1, w1 = HighBits(w), r0 = LowBits(w-cs2),  *)
(* h = MakeHint(ct0, cs2, w).                                              *)
(***************************************************************************)
Attempt(y, w, cs1, cs2, ct0, others) ==
    LET cs2m == ToField(cs2)
        ct0m == ToField(ct0)
        h    == make_hint(ct0m, cs2m, w)
    IN  [z          |-> reduce_once(ToField(y) + ToField(cs1)),
         w1         |-> high_bits(w),
         r0         |-> low_bits(mod_sub(w, cs2m)),
         ct0        |-> ct0m,
         h          |-> h,
         ones       |-> others + h,
         azMinusCt1 |-> reduce_once(mod_sub(w, cs2m) + ct0m)]

\* Fault model: the z bound tested with > instead of >=.
FirstCheckRejects_gt(a) ==
    abs_mod_prime(a.z) > kGamma1 - kBeta \/ abs_signed(a.r0) >= kGamma2 - kBeta

\* The first rejection test (1535-1541): ||z|| >= gamma1 - beta or
\* ||r0|| >= gamma2 - beta (vector_max and vector_max_signed).
FirstCheckRejects(a) ==
    abs_mod_prime(a.z) >= kGamma1 - kBeta \/ abs_signed(a.r0) >= kGamma2 - kBeta

\* The second rejection test (1549-1554): ||ct0|| >= gamma2 or more than
\* omega hint ones.
SecondCheckRejects(a) ==
    abs_mod_prime(a.ct0) >= kGamma2 \/ kOmega < a.ones

\* hint_bit_pack's BSSL_CHECK(index < omega) fails on the (omega+1)-th one
\* (line 1121) and aborts the process.
PackAborts(a) == a.ones > kOmega

\* vector_expand_mask's assert(kappa + L <= 0x10000) (line 1040), present
\* only in builds without NDEBUG.
MaskAssertFails(k) == ~NDEBUG /\ k + kL > kNonceSpace

\* MLDSA65_sign: context_len > 255 fails (line 1746).
ContextTooLong(ctx) == Len(ctx) > 255

-----------------------------------------------------------------------------
Init ==
    /\ phase = "idle"
    /\ call = [ctx |-> <<>>, msg |-> <<>>]
    /\ mu = <<>>
    /\ kappa = 0
    /\ usedNonces = {}
    /\ sig = NoSig
    /\ verdict = NoVerdict

(***************************************************************************)
(* MLDSA65_sign and the part of mldsa_sign_internal before the loop: the   *)
(* context check, mu and rho' (1440-1456), the heap block (1472-1476),     *)
(* whose allocation may fail, and the precomputations (1477-1486).         *)
(***************************************************************************)
SignCall(ctx, msg) ==
    /\ phase = "idle"
    /\ call' = [ctx |-> ctx, msg |-> msg]
    /\ \/ /\ ContextTooLong(ctx)
          /\ phase' = "failed"
          /\ UNCHANGED mu
       \/ /\ ~ContextTooLong(ctx)
          /\ mu' = Mu(ctx, msg)
          /\ phase' \in {"looping", "failed"}   \* OPENSSL_malloc may fail
    /\ UNCHANGED <<kappa, usedNonces, sig, verdict>>

(***************************************************************************)
(* A rejected attempt: one of the two tests fires and the loop continues   *)
(* with kappa + L (the `continue`s at 1540 and 1553).                      *)
(***************************************************************************)
SignReject ==
    /\ phase = "looping"
    /\ kappa < MaxKappa
    /\ \E y \in YValues, w \in WValues, cs1, cs2 \in CSValues,
          ct0 \in CT0Values, others \in OtherOnes :
          LET a == Attempt(y, w, cs1, cs2, ct0, others)
          IN  FirstCheckRejects(a) \/ SecondCheckRejects(a)
    /\ IF MaskAssertFails(kappa)
       THEN /\ phase' = "aborted"
            /\ UNCHANGED <<kappa, usedNonces>>
       ELSE /\ usedNonces' = usedNonces \cup AttemptNonces(kappa)
            /\ kappa' = kappa + kL
            /\ UNCHANGED phase
    /\ UNCHANGED <<call, mu, sig, verdict>>

(***************************************************************************)
(* An accepted attempt: both tests pass, c~, z and h are declassified and  *)
(* marshalled (1556-1568); hint_bit_pack aborts on too many ones.          *)
(***************************************************************************)
SignAccept ==
    /\ phase = "looping"
    /\ kappa < MaxKappa
    /\ \E y \in YValues, w \in WValues, cs1, cs2 \in CSValues,
          ct0 \in CT0Values, others \in OtherOnes :
          LET a == Attempt(y, w, cs1, cs2, ct0, others)
          IN  /\ ~FirstCheckRejects(a)
              /\ ~SecondCheckRejects(a)
              /\ IF MaskAssertFails(kappa)
                 THEN /\ phase' = "aborted"
                      /\ UNCHANGED <<usedNonces, sig>>
                 ELSE /\ usedNonces' = usedNonces \cup AttemptNonces(kappa)
                      /\ phase' = IF PackAborts(a) THEN "aborted" ELSE "signed"
                      /\ sig' = [cTilde     |-> <<mu, a.w1>>,
                                 z          |-> EncodeZ(a.z),
                                 h          |-> a.h,
                                 ones       |-> a.ones,
                                 azMinusCt1 |-> a.azMinusCt1]
    /\ UNCHANGED <<call, mu, kappa, verdict>>

(***************************************************************************)
(* MLDSA65_verify and mldsa_verify_internal on the emitted signature:      *)
(* context check (1764), heap block (1588-1592), signature parse (z by the *)
(* 20-bit decoder; hint_bit_unpack rejects more than omega ones), mu',     *)
(* w1' = UseHint(h, A z - c t1 2^13), c~' and the final test (1641-1644).  *)
(***************************************************************************)
VerifyResult(s, ctx, msg) ==
    LET z   == DecodeZ(s.z)
        w1  == use_hint_vartime(s.h, s.azMinusCt1)
    IN  /\ s.ones <= kOmega
        /\ abs_mod_prime(z) < kGamma1 - kBeta
        /\ <<Mu(ctx, msg), w1>> = s.cTilde

Verify(ctx, msg) ==
    /\ phase = "signed"
    /\ \/ /\ Len(ctx) > 255
          /\ verdict' = [ctx |-> ctx, msg |-> msg, alloc |-> TRUE, ok |-> FALSE]
       \/ /\ Len(ctx) <= 255
          /\ \E alloc \in BOOLEAN :           \* OPENSSL_malloc may fail
                verdict' = [ctx |-> ctx, msg |-> msg, alloc |-> alloc,
                            ok |-> alloc /\ VerifyResult(sig, ctx, msg)]
    /\ UNCHANGED <<phase, call, mu, kappa, usedNonces, sig>>

Next ==
    \/ \E ctx \in Contexts, msg \in Messages : SignCall(ctx, msg)
    \/ SignReject
    \/ SignAccept
    \/ \E ctx \in Contexts, msg \in Messages : Verify(ctx, msg)

Spec == Init /\ [][Next]_vars

-----------------------------------------------------------------------------
TypeOK ==
    /\ phase \in {"idle", "looping", "signed", "failed", "aborted"}
    /\ call \in [ctx : Contexts \cup {<<>>}, msg : Messages \cup {<<>>}]
    /\ kappa \in 0..MaxKappa
    /\ usedNonces \subseteq 0..(kNonceSpace - 1)
    /\ sig = NoSig \/ (phase \in {"signed", "aborted"} /\ sig.z \in 0..(2^20 - 1))
    /\ verdict = NoVerdict \/ verdict.ok \in BOOLEAN

(***************************************************************************)
(* Correctness: a signature the loop emits verifies for the context and   *)
(* message it was made for (unless the verifier's allocation fails).  It   *)
(* fails if the signer's bound checks (1535-1554) let through a z the      *)
(* verifier's bound (1642) refuses, or if make_hint and use_hint_vartime   *)
(* disagree on a coefficient near a HighBits boundary.                     *)
(***************************************************************************)
SignedVerifies ==
    (/\ verdict # NoVerdict
     /\ verdict.alloc
     /\ verdict.ctx = call.ctx
     /\ verdict.msg = call.msg) => verdict.ok

(***************************************************************************)
(* Domain separation: the signature verifies for no (context, message)     *)
(* other than the one signed.  The length byte of the context prefix       *)
(* (1753) is what keeps ctx || msg unambiguous; it is a uint8_t cast, so   *)
(* it relies on the 255-byte check of MLDSA65_sign and MLDSA65_verify.     *)
(***************************************************************************)
VerifiesOnlyWhatWasSigned ==
    (verdict # NoVerdict /\ verdict.ok) =>
        /\ verdict.ctx = call.ctx
        /\ verdict.msg = call.msg

(***************************************************************************)
(* Every attempt of one signing call derives ExpandMask nonces that no     *)
(* earlier attempt derived: a repeated nonce repeats y, and two            *)
(* signatures z = y + c s1, z' = y + c' s1 with the same y reveal s1.      *)
(***************************************************************************)
AttemptNoncesFresh ==
    [][usedNonces' # usedNonces =>
         usedNonces \cap AttemptNonces(kappa) = {}]_vars

=============================================================================

----------------------------- MODULE MCDataflow -----------------------------
(***************************************************************************)
(* One call of key generation, public_from_private, signing or            *)
(* verification on the buffers of Dataflow, compared with FIPS 204.  The   *)
(* caller's inputs hold their own names; the heap temporaries start        *)
(* Uninitialized.  The rejection tests and the final comparison of verify  *)
(* depend on values the terms do not carry, so their outcome is chosen;    *)
(* MaxKappa bounds the signing loop, which has no bound in the code.       *)
(***************************************************************************)
EXTENDS Dataflow

CONSTANTS L, MaxKappa

VARIABLES mem, fn, pc, kappa, tried, lk

vars == <<mem, fn, pc, kappa, tried, lk>>

Inputs == {"entropy", "priv.rho", "priv.k", "priv.s1", "priv.s2", "priv.t0",
           "priv.public_key_hash", "pub.rho", "pub.t1", "pub.public_key_hash",
           "context", "msg", "randomizer", "encoded_signature"}

Temporaries == {"expanded_seed", "rho", "sigma", "k", "a_ntt", "s1_ntt", "s2_ntt",
                "t0_ntt", "t", "t0", "out_public_key", "mu", "rho_prime", "y", "w",
                "w1", "w1_encoded", "cs1", "cs2", "c_ntt", "sign.c_tilde", "sign.z",
                "sign.h", "z_max", "r0_max", "ct0_max", "h_ones", "out_signature",
                "z_ntt", "az_ntt", "ct1_ntt", "c_tilde"}

Init ==
    /\ mem = [x \in Inputs \cup Temporaries |->
                 IF x \in Inputs THEN Leaf(x) ELSE Uninitialized]
    /\ fn = "none"
    /\ pc = "idle"
    /\ kappa = 0
    /\ tried = "none"
    /\ lk = 0

\* MLDSA65_generate_key_external_entropy: the malloc fails, or the body runs.
GenerateKey ==
    /\ pc = "idle"
    /\ fn' = "keygen"
    /\ \/ pc' = "failed" /\ mem' = mem
       \/ pc' = "done" /\ mem' = mldsa_generate_key_external_entropy(mem)
    /\ UNCHANGED <<kappa, tried, lk>>

\* MLDSA65_public_from_private.
PublicFromPrivate ==
    /\ pc = "idle"
    /\ fn' = "public_from_private"
    /\ \/ pc' = "failed" /\ mem' = mem
       \/ pc' = "done" /\ mem' = mldsa_public_from_private(mem)
    /\ UNCHANGED <<kappa, tried, lk>>

\* mldsa_verify_internal: the malloc or the parse fails, or the body runs.
Verify ==
    /\ pc = "idle"
    /\ fn' = "verify"
    /\ \/ pc' = "failed" /\ mem' = mem
       \/ pc' = "done" /\ mem' = mldsa_verify_internal(ParseSignature(mem))
    /\ UNCHANGED <<kappa, tried, lk>>

\* mldsa_sign_internal up to the loop: mu and rho', the malloc, the NTTs.
SignStart ==
    /\ pc = "idle"
    /\ fn' = "sign"
    /\ \/ pc' = "failed" /\ mem' = SignHashes(mem)
       \/ pc' = "loop" /\ mem' = SignSetup(SignHashes(mem))
    /\ UNCHANGED <<kappa, tried, lk>>

\* An attempt refused by the z or r0 test: continue with kappa + L.
SignRejectFirst ==
    /\ pc = "loop" /\ kappa <= MaxKappa
    /\ mem' = SignFirst(mem, kappa)
    /\ kappa' = kappa + L /\ lk' = kappa /\ tried' = "first"
    /\ UNCHANGED <<fn, pc>>

\* An attempt refused by the ct0 or hint-count test.
SignRejectSecond ==
    /\ pc = "loop" /\ kappa <= MaxKappa
    /\ mem' = SignSecond(SignFirst(mem, kappa))
    /\ kappa' = kappa + L /\ lk' = kappa /\ tried' = "second"
    /\ UNCHANGED <<fn, pc>>

\* An accepted attempt: the signature is marshalled and the call returns 1.
SignAccept ==
    /\ pc = "loop" /\ kappa <= MaxKappa
    /\ mem' = MarshalSignature(SignSecond(SignFirst(mem, kappa)))
    /\ lk' = kappa /\ tried' = "second" /\ pc' = "done"
    /\ UNCHANGED <<fn, kappa>>

Next ==
    \/ GenerateKey \/ PublicFromPrivate \/ Verify
    \/ SignStart \/ SignRejectFirst \/ SignRejectSecond \/ SignAccept

Spec == Init /\ [][Next]_vars

-----------------------------------------------------------------------------
(***************************************************************************)
(* Key generation leaves in the caller's private key and public key array *)
(* exactly the FIPS 204 KeyGen values, t being A*s1 + s2 before           *)
(* power2_round (1373-1378), and public_from_private re-derives the t1 of *)
(* the private key's rho, s1 and s2 through its own temporaries.           *)
(***************************************************************************)
KeysAreFIPS ==
    pc = "done" =>
      CASE fn = "keygen" ->
             LET f == FIPSKeyGen
             IN  /\ mem["priv.rho"] = f.rho /\ mem["priv.k"] = f.k
                 /\ mem["priv.s1"] = f.s1 /\ mem["priv.s2"] = f.s2
                 /\ mem["priv.t0"] = f.t0 /\ mem["out_public_key"] = f.pk
                 /\ mem["priv.public_key_hash"] = f.tr
        [] fn = "public_from_private" ->
             /\ mem["pub.rho"] = In("priv.rho")
             /\ mem["pub.t1"] =
                  Un("power2_round_1", FIPST(In("priv.rho"), In("priv.s1"), In("priv.s2")))
        [] OTHER -> TRUE

(***************************************************************************)
(* After every attempt of the signing loop, the values the rejection tests *)
(* read (||z||, ||r0|| and, past the first test, ||ct0|| and the hint      *)
(* count) and the signature fields are those of FIPS 204 Sign at that      *)
(* attempt's kappa, and an emitted signature encodes them: no test reads a *)
(* buffer the loop has reused (y_ntt in cs1, r0 and ct0 in w1) or a value  *)
(* left by an earlier attempt, and each norm matches its representation.   *)
(***************************************************************************)
SignIsFIPS ==
    fn = "sign" /\ tried # "none" =>
      LET f == FIPSSign(lk)
      IN  /\ mem["sign.c_tilde"] = f.c_tilde /\ mem["sign.z"] = f.z
          /\ mem["z_max"] = f.z_norm /\ mem["r0_max"] = f.r0_norm
          /\ tried = "second" =>
                /\ mem["sign.h"] = f.h /\ mem["ct0_max"] = f.ct0_norm
                /\ mem["h_ones"] = f.ones
          /\ pc = "done" =>
                mem["out_signature"] = Term("sig_encode", <<f.c_tilde, f.z, f.h>>, 0)

(***************************************************************************)
(* The verifier's final test (1642) compares the FIPS 204 c~' of the       *)
(* reconstructed w1 (computed in place in az_ntt) with the parsed c~, and  *)
(* bounds the norm of the parsed z itself.                                 *)
(***************************************************************************)
VerifyIsFIPS ==
    pc = "done" /\ fn = "verify" =>
      LET f == FIPSVerify
      IN  /\ mem["c_tilde"] = f.c_tilde2
          /\ mem["sign.c_tilde"] = f.c_tilde
          /\ mem["z_max"] = f.z_norm

=============================================================================

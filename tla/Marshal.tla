------------------------------- MODULE Marshal -------------------------------
(***************************************************************************)
(* The parse and marshal functions of crypto/mldsa/mldsa.cc (lines         *)
(* 1160-1324 and their MLDSA65_ wrappers 1673-1689, 1784-1787) acting on   *)
(* the caller's public_key, private_key and signature structs.             *)
(*                                                                         *)
(* Data abstraction: an encoded byte string is a sequence of units, one    *)
(* per fixed-size field or per polynomial of a vector field (rho, k, tr    *)
(* and c~ are one unit each; s1, s2, t0, t1, z have one unit per           *)
(* polynomial; the hint section is one unit).  A unit in Payloads is the   *)
(* encoding of the polynomial or field value of the same name; the bit     *)
(* packing itself is the subject of the BitPack and HintPack modules.      *)
(* Units that make a decoder fail are distinct tokens: BadFirst and        *)
(* BadLater are eta-encoded polynomials with a nibble >= 9 in the first    *)
(* 8-coefficient block (scalar_decode_signed_4_4 returns before writing)   *)
(* or in a later one (it has written earlier blocks); BadHint is a hint    *)
(* section hint_bit_unpack refuses after vector_zero.  A polynomial or     *)
(* hint a failing decoder has partly written is the value Torn.  A byte    *)
(* string shorter than a field is a sequence that ends before it.          *)
(*                                                                         *)
(* SHAKE-256 of the public key encoding is an injective record H(bytes).   *)
(***************************************************************************)
EXTENDS Integers, Sequences

CONSTANTS
    K, L,                  \* ML-DSA-65: K = 6, L = 5 (scaled)
    Payloads,              \* unit values a valid encoding is made of
    BadFirst, BadLater,    \* eta polynomials with an out-of-range nibble
    BadHint,               \* a hint section hint_bit_unpack refuses
    Torn,                  \* a polynomial or hint partly written on failure
    PubInputs, PrivInputs, SigInputs,  \* byte strings handed to the parsers
    PubStructs, PrivStructs, SigStructs, \* possible initial struct contents
    PubBuffers,            \* possible initial out_encoded_public_key arrays
    Seeds,                 \* key generation entropy (MLDSA_SEED_BYTES)
    SeedLens               \* seed_len values passed to private_key_from_seed

ASSUME {BadFirst, BadLater, BadHint, Torn} \cap Payloads = {}

\* The fixed sizes, in units: public_key_bytes, private_key_bytes and
\* signature_bytes.
kPublicKeyUnits  == 1 + K
kPrivateKeyUnits == 3 + L + 2 * K
kSignatureUnits  == 2 + L

H(bytes) == [shake256 |-> bytes]

\* MLDSA_SEED_BYTES.
kSeedBytes == 32

(***************************************************************************)
(* pkbuf is the caller's out_encoded_public_key array of key generation.   *)
(* genpk is a ghost: the public key encoding written by the key generation *)
(* that produced the current priv (into pkbuf, or into the local array of *)
(* MLDSA65_private_key_from_seed), <<>> once priv holds anything else.     *)
(***************************************************************************)
VARIABLES pub, priv, sig, last, pkbuf, genpk

vars == <<pub, priv, sig, last, pkbuf, genpk>>

\* The result of a call: the input it parsed or the bytes it wrote.
Call(op, ok, in, out) == [op |-> op, ok |-> ok, in |-> in, out |-> out]

\* CBS_get_bytes / CBS_copy_bytes of n units at cursor pos: they succeed
\* only when n units remain, and consume nothing otherwise.
Fits(in, pos, n) == pos + n <= Len(in)

Slice(in, pos, n) == [i \in 1..n |-> in[pos + i]]

-----------------------------------------------------------------------------
(***************************************************************************)
(* The decoders a parse applies to a field.                                *)
(***************************************************************************)
\* scalar_decode_signed_4_4 (lines 769-795) on one polynomial.
scalar_decode_signed_4_4(old, u) ==
    CASE u = BadFirst -> [poly |-> old, ok |-> FALSE]
      [] u = BadLater -> [poly |-> Torn, ok |-> FALSE]
      [] OTHER        -> [poly |-> u, ok |-> TRUE]

\* vector_decode_signed (lines 1095-1104): stops at the first failure,
\* leaving the polynomials before it decoded and those after it untouched.
RECURSIVE DecodeSignedFrom(_, _, _)
DecodeSignedFrom(v, units, i) ==
    IF i > Len(units) THEN [val |-> v, ok |-> TRUE]
    ELSE LET r  == scalar_decode_signed_4_4(v[i], units[i])
             v2 == [v EXCEPT ![i] = r.poly]
         IN  IF r.ok THEN DecodeSignedFrom(v2, units, i + 1)
             ELSE [val |-> v2, ok |-> FALSE]

vector_decode_signed(old, units) == DecodeSignedFrom(old, units, 1)

\* hint_bit_unpack (lines 1131-1158): vector_zero, then the checks.
hint_bit_unpack(u) ==
    IF u = BadHint THEN [val |-> Torn, ok |-> FALSE] ELSE [val |-> u, ok |-> TRUE]

(***************************************************************************)
(* A field of an encoding: its struct member, its size in units, and its   *)
(* decoder: "copy" (CBS_copy_bytes), "plain" (a decoder that cannot fail:  *)
(* vector_decode_10, the 13- and 20-bit vector_decode_signed), "eta"       *)
(* (vector_decode_signed with bits 4) or "hint" (hint_bit_unpack).         *)
(***************************************************************************)
Field(name, n, dec) == [name |-> name, n |-> n, dec |-> dec]

Decode(f, old, units) ==
    CASE f.dec = "copy" -> [val |-> units[1], ok |-> TRUE]
      [] f.dec = "plain" -> [val |-> units, ok |-> TRUE]
      [] f.dec = "eta"  -> vector_decode_signed(old, units)
      [] f.dec = "hint" -> hint_bit_unpack(units[1])

(***************************************************************************)
(* A chain of CBS_get_bytes / CBS_copy_bytes and decoders joined by ||:    *)
(* each field is taken from the cursor and decoded into the struct, and    *)
(* the chain stops at the first step that fails, keeping every write made *)
(* before it.                                                              *)
(***************************************************************************)
RECURSIVE ReadFields(_, _, _, _)
ReadFields(s, in, pos, fields) ==
    IF fields = <<>> THEN [s |-> s, pos |-> pos, ok |-> TRUE]
    ELSE LET f  == Head(fields)
             d  == Decode(f, s[f.name], Slice(in, pos, f.n))
             s2 == [s EXCEPT ![f.name] = d.val]
         IN  CASE ~Fits(in, pos, f.n) -> [s |-> s, pos |-> pos, ok |-> FALSE]
               [] ~d.ok              -> [s |-> s2, pos |-> pos + f.n, ok |-> FALSE]
               [] OTHER              -> ReadFields(s2, in, pos + f.n, Tail(fields))

\* The layouts of FIPS 204 Algorithms 23, 25 and 27 as the code reads them.
PrivateKeyFields ==
    <<Field("rho", 1, "copy"), Field("k", 1, "copy"), Field("tr", 1, "copy"),
      Field("s1", L, "eta"), Field("s2", K, "eta"), Field("t0", K, "plain")>>

SignatureFields ==
    <<Field("c_tilde", 1, "copy"), Field("z", L, "plain"), Field("h", 1, "hint")>>

PublicKeyEncodeFields ==
    <<Field("rho", 1, "copy"), Field("t1", K, "plain")>>

\* Fault model: s2 written before s1.
PrivateKeyEncodeFields_swapped ==
    <<Field("rho", 1, "copy"), Field("k", 1, "copy"), Field("tr", 1, "copy"),
      Field("s2", K, "eta"), Field("s1", L, "eta"), Field("t0", K, "plain")>>

PrivateKeyEncodeFields ==
    <<Field("rho", 1, "copy"), Field("k", 1, "copy"), Field("tr", 1, "copy"),
      Field("s1", L, "eta"), Field("s2", K, "eta"), Field("t0", K, "plain")>>

SignatureEncodeFields == SignatureFields

-----------------------------------------------------------------------------
(***************************************************************************)
(* The parse functions.                                                    *)
(***************************************************************************)
\* Fault model: the hash taken of what is left in the CBS, not of orig_in.
mldsa_parse_public_key_rest(p, in) ==
    LET p1 == [p EXCEPT !.rho = in[1]]
    IN  CASE ~Fits(in, 0, 1) -> [s |-> p, ok |-> FALSE]
          [] ~Fits(in, 1, K) \/ Len(in) # 1 + K -> [s |-> p1, ok |-> FALSE]
          [] OTHER -> [s |-> [p1 EXCEPT !.t1 = Slice(in, 1, K),
                                        !.tr = H(SubSeq(in, 2 + K, Len(in)))],
                       ok |-> TRUE]

\* mldsa_parse_public_key (lines 1203-1221): rho is copied before the length
\* of t1 and of the rest is checked; tr is SHAKE-256 of the whole input.
mldsa_parse_public_key(p, in) ==
    LET p1 == [p EXCEPT !.rho = in[1]]
    IN  CASE ~Fits(in, 0, 1) -> [s |-> p, ok |-> FALSE]
          [] ~Fits(in, 1, K) \/ Len(in) # 1 + K -> [s |-> p1, ok |-> FALSE]
          [] OTHER -> [s |-> [p1 EXCEPT !.t1 = Slice(in, 1, K), !.tr = H(in)],
                       ok |-> TRUE]

\* mldsa_parse_private_key (lines 1261-1284).
mldsa_parse_private_key(p, in) == ReadFields(p, in, 0, PrivateKeyFields)

\* Fault model: the CBS_len(in) == 0 test of the wrapper left out.
MLDSA65_parse_private_key_notrail(p, in) ==
    LET r == mldsa_parse_private_key(p, in) IN [s |-> r.s, ok |-> r.ok]

\* MLDSA65_parse_private_key (lines 1684-1689): the parse, then no bytes left.
MLDSA65_parse_private_key(p, in) ==
    LET r == mldsa_parse_private_key(p, in)
    IN  [s |-> r.s, ok |-> r.ok /\ r.pos = Len(in)]

\* mldsa_parse_signature (lines 1311-1324); its caller passes exactly
\* signature_bytes, so it does not test for bytes left over.
mldsa_parse_signature(sg, in) == ReadFields(sg, in, 0, SignatureFields)

(***************************************************************************)
(* The marshal functions: each field is a CBB_add_bytes or CBB_add_space   *)
(* (which may fail: the CBB cannot grow) followed by the encoder.  A call  *)
(* that fails at a field returns 0 with the fields before it written.      *)
(***************************************************************************)
EncodeField(f, s) == IF f.dec \in {"copy", "hint"} THEN <<s[f.name]>> ELSE s[f.name]

RECURSIVE EncodeFields(_, _)
EncodeFields(s, fields) ==
    IF fields = <<>> THEN <<>>
    ELSE EncodeField(Head(fields), s) \o EncodeFields(s, Tail(fields))

MarshalOutcomes(s, fields) ==
    {[out |-> EncodeFields(s, SubSeq(fields, 1, i)), ok |-> i = Len(fields)]
        : i \in 0..Len(fields)}

-----------------------------------------------------------------------------
(***************************************************************************)
(* Key generation (lines 1331-1429).  The seed expansion, matrix_expand,   *)
(* vector_expand_short, t = InvNTT(A_hat * NTT(s1)) + s2 and power2_round  *)
(* are the subject of the sampler, NTT, PolyMult and Rounding modules;     *)
(* here each is an injective record of exactly the inputs the code passes. *)
(***************************************************************************)
\* SHAKE-256 of entropy || K || L cut into rho, sigma and k (1351-1366).
ExpandSeed(e) == [rho |-> [rho |-> e], sigma |-> [sigma |-> e], k |-> [k |-> e]]

\* scalar_uniform<eta> of sigma || nonce || 0.
UniformOf(sigma, nonce) == [sigma |-> sigma, nonce |-> nonce]

\* vector_expand_short (1015-1033): one nonce counter runs through the L
\* polynomials of s1 and then the K of s2.
ExpandS1(sigma) == [i \in 1..L |-> UniformOf(sigma, i - 1)]
ExpandS2(sigma) == [j \in 1..K |-> UniformOf(sigma, L + j - 1)]

\* Row j of t (matrix_expand of rho, matrix_mult by NTT(s1), vector_add of
\* s2) and its vector_power2_round halves t1 and t0.
TRow(rho, s1, s2, j) == [rho |-> rho, s1 |-> s1, s2 |-> s2[j]]
Power2RoundT1(rho, s1, s2) == [j \in 1..K |-> [t1 |-> TRow(rho, s1, s2, j)]]
Power2RoundT0(rho, s1, s2) == [j \in 1..K |-> [t0 |-> TRow(rho, s1, s2, j)]]

\* CBB_init_fixed over cap units: each field is written while it fits and
\* the chain stops at the first CBB_add_* that does not.
FixedMarshal(s, fields, cap) ==
    LET n == CHOOSE i \in 0..Len(fields) :
                 /\ Len(EncodeFields(s, SubSeq(fields, 1, i))) <= cap
                 /\ i < Len(fields) => Len(EncodeFields(s, SubSeq(fields, 1, i + 1))) > cap
    IN  [out |-> EncodeFields(s, SubSeq(fields, 1, n)), ok |-> n = Len(fields)]

\* Fault model: the fixed CBB one unit short of public_key_bytes.
KeyGenCapacity_short == kPublicKeyUnits - 1

\* Line 1383: CBB_init_fixed(&cbb, out_encoded_public_key, public_key_bytes).
KeyGenCapacity == kPublicKeyUnits

\* Fault model: the hash over one unit less than the encoded key.
PublicKeyHash_short(out) == H(SubSeq(out, 1, Len(out) - 1))

\* Lines 1389-1391: SHAKE-256 of out_encoded_public_key, public_key_bytes.
PublicKeyHash(out) == H(out)

\* mldsa_generate_key_external_entropy after its allocation (1350-1393):
\* rho, k, s1, s2 and t0 go into priv before the public key is marshalled
\* and hashed; s is priv afterwards, out what the CBB wrote.
mldsa_generate_key_external_entropy(p, e) ==
    LET x  == ExpandSeed(e)
        s1 == ExpandS1(x.sigma)
        s2 == ExpandS2(x.sigma)
        pk == [rho |-> x.rho, t1 |-> Power2RoundT1(x.rho, s1, s2)]
        p1 == [p EXCEPT !.rho = x.rho, !.k = x.k, !.s1 = s1, !.s2 = s2,
                        !.t0 = Power2RoundT0(x.rho, s1, s2)]
        o  == FixedMarshal(pk, PublicKeyEncodeFields, KeyGenCapacity)
    IN  [s |-> IF o.ok THEN [p1 EXCEPT !.tr = PublicKeyHash(o.out)] ELSE p1,
         out |-> o.out, ok |-> o.ok]

\* mldsa_public_from_private after its allocation (1413-1428): rho and the
\* cached hash copied from priv, t1 recomputed from rho, s1 and s2.
mldsa_public_from_private(pb, p) ==
    [pb EXCEPT !.rho = p.rho, !.tr = p.tr, !.t1 = Power2RoundT1(p.rho, p.s1, p.s2)]

\* What a CBB over a fixed array leaves there: the written prefix, then the
\* array's earlier contents.
Overwrite(buf, out) == [i \in DOMAIN buf |-> IF i <= Len(out) THEN out[i] ELSE buf[i]]

-----------------------------------------------------------------------------
\* The caller's structs hold whatever they held before.
Init ==
    /\ pub \in PubStructs
    /\ priv \in PrivStructs
    /\ sig \in SigStructs
    /\ last = Call("none", TRUE, <<>>, <<>>)
    /\ pkbuf \in PubBuffers
    /\ genpk = <<>>

\* MLDSA65_parse_public_key (lines 1673-1676) into the caller's struct.
ParsePublicKey(in) ==
    LET r == mldsa_parse_public_key(pub, in)
    IN  /\ pub' = r.s
        /\ last' = Call("parse_pub", r.ok, in, <<>>)
        /\ UNCHANGED <<priv, sig, pkbuf, genpk>>

\* MLDSA65_parse_private_key (lines 1684-1689) into the caller's struct.
ParsePrivateKey(in) ==
    LET r == MLDSA65_parse_private_key(priv, in)
    IN  /\ priv' = r.s
        /\ last' = Call("parse_priv", r.ok, in, <<>>)
        /\ genpk' = IF r.s = priv THEN genpk ELSE <<>>
        /\ UNCHANGED <<pub, sig, pkbuf>>

\* mldsa_parse_signature as mldsa_verify_internal calls it (line 1596).
ParseSignature(in) ==
    LET r == mldsa_parse_signature(sig, in)
    IN  /\ sig' = r.s
        /\ last' = Call("parse_sig", r.ok, in, <<>>)
        /\ UNCHANGED <<pub, priv, pkbuf, genpk>>

\* MLDSA65_marshal_public_key / mldsa_marshal_public_key (1187-1199) into
\* a fresh CBB; last.out is what the CBB holds afterwards.
MarshalPublicKey ==
    \E o \in MarshalOutcomes(pub, PublicKeyEncodeFields) :
        /\ last' = Call("marshal_pub", o.ok, <<>>, o.out)
        /\ UNCHANGED <<pub, priv, sig, pkbuf, genpk>>

\* MLDSA65_marshal_private_key / mldsa_marshal_private_key (1225-1257).
MarshalPrivateKey ==
    \E o \in MarshalOutcomes(priv, PrivateKeyEncodeFields) :
        /\ last' = Call("marshal_priv", o.ok, <<>>, o.out)
        /\ UNCHANGED <<pub, priv, sig, pkbuf, genpk>>

\* mldsa_marshal_signature (1288-1307) as the signer calls it (1561-1567):
\* into a fixed CBB of exactly signature_bytes, where no step can fail.
MarshalSignature ==
    /\ last' = Call("marshal_sig", TRUE, <<>>, EncodeFields(sig, SignatureEncodeFields))
    /\ UNCHANGED <<pub, priv, sig, pkbuf, genpk>>

\* A call that returns 0 before writing anything: OPENSSL_malloc of
\* values_st fails (1345-1349, 1407-1411) or the seed length is wrong.
ReturnsZero(op, in) ==
    /\ last' = Call(op, FALSE, in, <<>>)
    /\ UNCHANGED <<pub, priv, sig, pkbuf, genpk>>

\* MLDSA65_generate_key (RAND_bytes into out_seed) and
\* MLDSA65_generate_key_external_entropy (1693-1719) with entropy e; out_encoded_public_key is pkbuf.
GenerateKey(e) ==
    \/ ReturnsZero("keygen", <<e>>)
    \/ LET r == mldsa_generate_key_external_entropy(priv, e)
       IN  /\ priv' = r.s
           /\ pkbuf' = Overwrite(pkbuf, r.out)
           /\ genpk' = IF r.ok THEN pkbuf' ELSE <<>>
           /\ last' = Call("keygen", r.ok, <<e>>, r.out)
           /\ UNCHANGED <<pub, sig>>

\* MLDSA65_private_key_from_seed (1702-1710): a seed of the wrong length is
\* refused; otherwise key generation into a local public key array.
PrivateKeyFromSeed(e, n) ==
    \/ n # kSeedBytes /\ ReturnsZero("from_seed", <<e>>)
    \/ n = kSeedBytes /\ ReturnsZero("from_seed", <<e>>)
    \/ /\ n = kSeedBytes
       /\ LET r == mldsa_generate_key_external_entropy(priv, e)
          IN  /\ priv' = r.s
              /\ genpk' = IF r.ok THEN r.out ELSE <<>>
              /\ last' = Call("from_seed", r.ok, <<e>>, r.out)
              /\ UNCHANGED <<pub, sig, pkbuf>>

\* MLDSA65_public_from_private (1721-1726) into the caller's struct.
PublicFromPrivate ==
    \/ ReturnsZero("pub_from_priv", <<>>)
    \/ /\ pub' = mldsa_public_from_private(pub, priv)
       /\ last' = Call("pub_from_priv", TRUE, <<>>, <<>>)
       /\ UNCHANGED <<priv, sig, pkbuf, genpk>>

Next ==
    \/ \E in \in PubInputs : ParsePublicKey(in)
    \/ \E in \in PrivInputs : ParsePrivateKey(in)
    \/ \E in \in SigInputs : ParseSignature(in)
    \/ MarshalPublicKey
    \/ MarshalPrivateKey
    \/ MarshalSignature
    \/ \E e \in Seeds : GenerateKey(e)
    \/ \E e \in Seeds, n \in SeedLens : PrivateKeyFromSeed(e, n)
    \/ PublicFromPrivate

Spec == Init /\ [][Next]_vars

-----------------------------------------------------------------------------
(***************************************************************************)
(* Reference definitions (not code): the layouts of FIPS 204 Algorithms    *)
(* 22-27 by offset, and which inputs are encodings.                        *)
(***************************************************************************)
RefPublicKey(in) == [rho |-> in[1], t1 |-> Slice(in, 1, K)]

RefPrivateKey(in) ==
    [rho |-> in[1], k |-> in[2], tr |-> in[3], s1 |-> Slice(in, 3, L),
     s2 |-> Slice(in, 3 + L, K), t0 |-> Slice(in, 3 + L + K, K)]

RefSignature(in) == [c_tilde |-> in[1], z |-> Slice(in, 1, L), h |-> in[2 + L]]

IsPublicKey(in) == Len(in) = kPublicKeyUnits

IsPrivateKey(in) ==
    Len(in) = kPrivateKeyUnits /\ \A i \in 4..(3 + L + K) : in[i] \notin {BadFirst, BadLater}

IsSignature(in) == Len(in) = kSignatureUnits /\ in[kSignatureUnits] # BadHint

RefEncodePublicKey(p) == <<p.rho>> \o p.t1

(***************************************************************************)
(* Each parser accepts exactly the encodings of FIPS 204 (right length,    *)
(* every eta nibble at most 8, a well-formed hint section, no bytes left   *)
(* over) and, when it accepts, the struct holds the fields those           *)
(* encodings carry at their FIPS offsets (the public key's tr is checked   *)
(* by PublicKeyHashMatchesEncoding): the ||-chains of 1267-1279 and       *)
(* 1314-1319 and the wrapper's CBS_len test of 1688.                       *)
(***************************************************************************)
ParseAcceptsExactlyEncodings ==
    /\ last.op = "parse_pub" =>
           /\ last.ok <=> IsPublicKey(last.in)
           /\ last.ok => [rho |-> pub.rho, t1 |-> pub.t1] = RefPublicKey(last.in)
    /\ last.op = "parse_priv" =>
           /\ last.ok <=> IsPrivateKey(last.in)
           /\ last.ok => priv = RefPrivateKey(last.in)
    /\ last.op = "parse_sig" =>
           /\ last.ok <=> IsSignature(last.in)
           /\ last.ok => sig = RefSignature(last.in)

(***************************************************************************)
(* What a marshal function writes parses back, through the code's own      *)
(* parser, to the struct it came from: the write order of 1227-1254 and   *)
(* 1290-1304 matches the read order of 1267-1279 and 1314-1319.  The       *)
(* public key's tr is not encoded and is compared separately below.        *)
(***************************************************************************)
MarshalParseRoundTrip ==
    /\ last.op = "marshal_pub" /\ last.ok =>
           LET r == mldsa_parse_public_key(pub, last.out)
           IN  r.ok /\ r.s.rho = pub.rho /\ r.s.t1 = pub.t1
    /\ last.op = "marshal_priv" /\ last.ok =>
           LET r == MLDSA65_parse_private_key(priv, last.out)
           IN  r.ok /\ r.s = priv
    /\ last.op = "marshal_sig" /\ last.ok =>
           LET r == mldsa_parse_signature(sig, last.out)
           IN  r.ok /\ r.s = sig

(***************************************************************************)
(* After a successful public key parse, the cached public_key_hash is      *)
(* SHAKE-256 of the encoding of the struct's own rho and t1, the tr that   *)
(* signing with the matching private key absorbs (lines 1216-1218 hash    *)
(* orig_in, the input before the CBS was advanced).                        *)
(***************************************************************************)
PublicKeyHashMatchesEncoding ==
    last.op = "parse_pub" /\ last.ok => pub.tr = H(RefEncodePublicKey(pub))

(***************************************************************************)
(* The spec's public key carries "tr = SHAKE-256(encoded_public_key)": a   *)
(* public key made by public_from_private also caches the hash of its own  *)
(* encoding.  The code copies priv->public_key_hash (1415-1416), which a   *)
(* parsed private key took from its input bytes unchecked (1269).          *)
(***************************************************************************)
PublicKeyCachesItsHash ==
    last.op \in {"parse_pub", "pub_from_priv"} /\ last.ok =>
        pub.tr = H(RefEncodePublicKey(pub))

(***************************************************************************)
(* A parse that fails leaves the caller's struct as it was: spec section 7 *)
(* says every failure is returned "without partial output".                *)
(***************************************************************************)
FailedParseLeavesStruct ==
    [][/\ last'.op = "parse_pub" /\ ~last'.ok => pub' = pub
       /\ last'.op = "parse_priv" /\ ~last'.ok => priv' = priv]_vars

(***************************************************************************)
(* A generated private key and the public key generated with it agree:     *)
(* parsing the public key bytes key generation wrote gives the same struct *)
(* as mldsa_public_from_private of the private key, so the tr the signer   *)
(* absorbs (priv->public_key_hash, hashed from out_encoded_public_key at  *)
(* 1389-1391) is the one a verifier computes (1216-1218), and the t1       *)
(* recomputed from the stored rho, s1, s2 is the one published.            *)
(***************************************************************************)
GeneratedKeyPairMatches ==
    genpk # <<>> =>
        LET r == mldsa_parse_public_key(pub, genpk)
        IN  r.ok /\ r.s = mldsa_public_from_private(pub, priv)

(***************************************************************************)
(* Key generation and public_from_private that return 0 leave the caller's *)
(* structs as they were, although key generation writes rho, k, s1, s2 and *)
(* t0 into priv before the marshal of 1384 that may fail: the fixed CBB    *)
(* is exactly public_key_bytes long, so that marshal cannot fail.          *)
(***************************************************************************)
FailedKeyGenLeavesKeys ==
    [][last'.op \in {"keygen", "from_seed", "pub_from_priv"} /\ ~last'.ok =>
           priv' = priv /\ pub' = pub]_vars

=============================================================================

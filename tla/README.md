# TLA+ models of the ML-DSA-65 engine (`src/src/crypto/mldsa/mldsa.cc`) and the ASN.1 integer codec (`src/src/crypto/asn1/a_int.c`)

This directory holds TLA+ models of this repository's two source files, the
TLC configurations that check them, and `PROJECT.json`, which maps every
definition to the source lines it models and lists the runs, the mutants and
the hazards.

## 1. Inventory

### The system

`mldsa.cc` is one C++ file, layered leaves first. Every entry point is a
synchronous, CPU-bound call on its own inputs and its own heap block
(`values_st`). No state is shared between calls, and keys are never mutated
after construction. So there are **no threads, callbacks or messages to
interleave**. What makes the code hard is different:

* modular arithmetic with hand-derived bounds (`reduce_once` needs `x < 2q`,
  `reduce_montgomery` needs `x <= q*2^32`);
* bit tricks that stand in for the FIPS 204 definitions (`high_bits`, the
  sign-mask fix-up in `decompose`, the nibble range check in
  `scalar_decode_signed_4_4`);
* loops that consume a Keccak stream and reject input (the samplers, the
  hint parser);
* the signing loop. Its rejection checks must agree, at the boundaries, with
  what the verifier accepts. Its nonce counter `kappa` is unbounded.
* encodings: the context-length prefix byte, the hint encoding, and the 4/10/13/20-bit packers.

| Component | Source | State it keeps | Operations |
|---|---|---|---|
| Field arithmetic | mldsa.cc 211-273 | none (pure) | `reduce_once`, `abs_signed`, `abs_mod_prime`, `maximum`, `mod_sub`, `scalar_add/sub`, `reduce_montgomery`, `scalar_mult` |
| NTT | mldsa.cc 174-337 | one in-place `scalar` (256 coefficients) plus the loop counters `step`, `i`, `j` | `scalar_ntt`, `scalar_inverse_ntt` |
| Vector/matrix glue | mldsa.cc 339-393 | none | `vector_*`, `matrix_mult` |
| Rounding and hints | mldsa.cc 395-621 | none (pure, per coefficient) | `power2_round`, `scale_power2_round`, `high_bits`, `decompose`, `low_bits`, `make_hint`, `use_hint_vartime`, the max/count reductions |
| Bit packing | mldsa.cc 623-866, 1052-1110 | output byte buffer | `scalar_encode_*`, `scalar_decode_*` (only `decode_signed_4_4` can fail), `vector_encode/decode*`, `w1_encode` |
| Hint packing | mldsa.cc 1112-1158 | output bytes / parsed hint vector, `index`, `last` | `hint_bit_pack` (aborts via `BSSL_CHECK` past omega), `hint_bit_unpack` (the parser) |
| Expansion / samplers | mldsa.cc 868-1050 | Keccak stream position, `done`, `offset`, `signs` | `scalar_from_keccak_vartime`, `scalar_uniform`, `scalar_sample_mask`, `scalar_sample_in_ball_vartime`, `matrix_expand`, `vector_expand_short`, `vector_expand_mask` |
| Key generation | mldsa.cc 1331-1429, 1691-1726 | the caller's `private_key`, the public key bytes | `mldsa_generate_key_external_entropy`, `mldsa_public_from_private` and their wrappers |
| Signing | mldsa.cc 1431-1570, 1728-1757 | `values_st` buffers (aliased: `y_ntt`=`cs1`, `r0`=`ct0`=`w1`), `kappa` | `mldsa_sign_internal` and the `MLDSA65_sign` wrapper (context check, prefix) |
| Verification | mldsa.cc 1572-1645, 1759-1782 | `values_st` buffers | `mldsa_verify_internal`, `MLDSA65_verify` (context and length checks) |
| Marshalling | mldsa.cc 1160-1324, 1673-1689, 1784-1787 | `CBB`/`CBS` cursors, the caller's key structs | `mldsa_marshal/parse_public_key`, `..._private_key`, `..._signature` |
| ASN.1 INTEGER codec | a_int.c | an `ASN1_INTEGER` (sign in `type`, big-endian magnitude) | `ASN1_INTEGER_cmp`, `i2c_ASN1_INTEGER`, `c2i_ASN1_INTEGER`, `negate_twos_complement`, `ASN1_INTEGER_set(_uint64)`, `asn1_string_get_long`, BIGNUM conversions |
| External collaborators | not in src/ | Keccak sponge, `RAND_bytes`, `CBB`/`CBS`, `OPENSSL_malloc` | abstracted: a hash is the injective byte string it absorbs, random bytes and malloc results are nondeterministic choices |

How the components interact: keygen calls the expansion functions, the NTT,
`matrix_mult` and `power2_round`, then marshals the public key and hashes it into `tr`.
Sign re-expands A and runs a rejection loop. Each attempt derives the mask `y` from
`(rho', kappa)`, computes `w = A y` and `w1 = HighBits(w)`, the challenge
`c~ = H(mu || w1)` and `c = SampleInBall(c~)`. Then `z = y + c s1`, the bound checks,
`h = MakeHint(-c t0, w - c s2 + c t0)`, a second check, and packing. Verify parses
the signature (including `hint_bit_unpack`) and recomputes `w1' = UseHint(h, A z - c t1 2^d)`.
It accepts iff `c~ = H(mu || w1')` and `||z|| < gamma1 - beta`. So sign
and verify meet only through the signature bytes and the two hashes. Signing
is correct only if the signer's rejection checks and the verifier's
reconstruction agree at every coefficient. Only a model over the boundary values
reaches the coefficients where they could disagree.

### What makes each component correct (the properties the models check)

* Rounding: `high_bits`/`decompose` equal the FIPS 204 definitions
  (including the `q-1` wrap). `power2_round` recomposes `r` with `r0` in
  `(-2^12, 2^12]` and `r1 < 2^10`, which `scale_power2_round` and the 10-bit packer need.
* Sign/verify at one coefficient: every signature the loop emits verifies for the
  same context and message. It verifies for no other (context, message): the
  length-prefix domain separation.
  Distinct attempts never reuse a mask nonce.
* Hint packing: `hint_bit_unpack` accepts exactly the encodings
  `hint_bit_pack` produces, and returns the hint they encode. A malformed
  encoding is rejected, and so is a second encoding of the same hint.
* NTT: every intermediate value meets the preconditions of `reduce_once` and
  `reduce_montgomery`. The in-place butterfly loop computes the negacyclic NTT.
  `INTT(NTT(p)) = p*R`, the Montgomery contract.
* Samplers: `SampleInBall` yields exactly `tau` coefficients in `{1, q-1}`. The
  rejection samplers emit the accepted stream values in order, all in range.
* Bit packing: every packer writes the FIPS 204 SimpleBitPack/BitPack bytes, and
  every unpacker returns the FIPS coefficients. The 4-bit signed decoder rejects
  exactly the inputs with a nibble >= 9, having written the blocks before the bad
  one. The vector wrappers place entry i at `i * bits * kDegree / 8`, and
  `vector_decode_signed` stops at the first bad entry.
* Expansion: `matrix_expand`, `vector_expand_short` and `vector_expand_mask` hash,
  for each entry, exactly the FIPS 204 ExpandA/ExpandS/ExpandMask seed.
* Data flow: key generation, `public_from_private`, every attempt of the signing
  loop and verification compute, through the buffers the code reuses (`y_ntt` in
  `cs1`, `r0` and `ct0` in `w1`, `w1` in `az_ntt`), exactly the values of FIPS 204
  KeyGen, Sign and Verify; each rejection test reads the norm of the right value
  in its representation (`vector_max_signed` for the signed low bits).
* Marshalling: a failed parse leaves no partial output (spec section 7). The code
  violates this, see Findings.
* Key generation: the private key and the public key generated with it agree
  (`public_from_private` of the one is the parse of the other, hash included),
  and a key generation that returns 0 leaves the caller's keys alone. A public key
  caches the hash of its own encoding, as the spec's public key does; the
  code violates this for keys derived from some parsed private keys, see Findings.
* ASN.1: `c2i` accepts exactly minimal DER and stores the integer it encodes in
  minimal sign-and-magnitude form; `i2c` writes minimal DER of the object's
  integer, even for non-minimal objects a caller built; `ASN1_INTEGER_cmp` orders
  like the integers; `ASN1_INTEGER_get` returns every integer a `long` holds; a
  call that fails leaves the caller's object alone.

## 2. Plan

Modules, in the order they are built (most important behaviour first):

1. `Field` (constant `Q`): the scalar operations at lines 211-245. Pure operators,
   instantiated with the real prime by `Rounding` and with a small prime by `NTT`.
2. `Rounding`: lines 397-494 with the real `q = 8380417`, plus the FIPS 204
   reference definitions. `MCRounding` checks them over every coefficient within
   a window of each decomposition boundary.
3. `SignVerify`: one signing call (`MLDSA65_sign` and the `mldsa_sign_internal`
   loop, one action per attempt) and any number of verifications
   (`MLDSA65_verify` and `mldsa_verify_internal`). Vectors are abstracted to one
   representative coefficient plus the hint ones of all other coefficients.
   It composes `Rounding`. `MCSignVerify` gives the data sets. `MCSignNonce` is the
   kappa-overflow run.
4. `HintPack`: `hint_bit_pack` as an operator, `hint_bit_unpack` as a
   step-per-byte state machine. Scaled: degree, K and omega are constants.
5. `NTT`: the in-place `scalar_ntt` and `scalar_inverse_ntt` loops as state
   machines over a small NTT-friendly prime. `NTTSpec` is the one-step transform, and
   `NTT` refines it (INSTANCE ... WITH refinement mapping). The multiplication
   pipeline INTT(NTT(a) o NTT(b)) is checked against schoolbook negacyclic multiplication.
6. Samplers (done): `SampleInBall`, `ScalarUniform` and `ScalarFromKeccak` model
   `scalar_sample_in_ball_vartime`, `scalar_uniform<4>` and
   `scalar_from_keccak_vartime` as loops over a nondeterministic byte stream with
   scaled block sizes. A ghost variable `stream` records the bytes read, so each
   rejection sampler is compared with FIPS 204 on exactly its input.
7. `BitPack` (done): the specialised encoders and decoders, over 32-bit words
   held as bit vectors (TLC integers are 32-bit signed, so a `uint32` is kept as
   bits). `MCBitPack` makes one call per behaviour and checks it against FIPS 204.
8. `Marshal` (done): parse/marshal of the three encodings with their `CBS`
   failure points and what each leaves in the caller's struct; key generation
   and `public_from_private` on the same structs.
9. `Asn1Integer` (done): every entry point of a_int.c as an action on one
   caller-owned `ASN1_INTEGER`, over short byte strings and 2-byte words.
10. `Expand` (done): the three expansion functions as the sequence of sampler
    calls they make, with the seed bytes each call hashes; `MCExpand` compares
    them with FIPS 204. The vector wrappers of the packers are in `BitPack`.
11. `Dataflow` (done): the vector glue of key generation, `public_from_private`,
    the signing loop and verification as calls on named buffers, each buffer
    holding the term that computed it; `MCDataflow` runs one call and compares the
    buffers with FIPS 204's data flow.

The plan's remaining items (still to be modelled) are listed in Section 7.

## 3. Modules and their correspondence to the code

Every definition that models code is listed with its source lines in `PROJECT.json` ("map").
Definitions whose names end in `_xxx` (`decompose_nowrap`, `FirstCheckRejects_gt`, ...)
are fault models. Each is a plausible bug in the definition it precedes, and the
mutant runs substitute it to show that a property catches that bug.

| Module | Models | State / operators |
|---|---|---|
| `Field` | mldsa.cc 211-245 | Operators over a constant prime `Q`: `reduce_once`, `abs_signed`, `abs_mod_prime`, `maximum`, `mod_sub`. The constant-time selects are modelled by the value they select. |
| `Rounding` | mldsa.cc 395-494 | `Field` with the real q. `power2_round`, `scale_power2_round`, `high_bits` (the reference formula with shifts as divisions), `decompose` (the sign-mask fix-up as the case it selects), `low_bits`, `make_hint`, `use_hint_vartime`. Also the FIPS 204 definitions `FIPSDecompose` and `FIPSPower2Round`. |
| `MCRounding` | the per-coefficient wrappers 496-575 | Variable `r`, the coefficient a wrapper is applied to. It ranges over every value within `Window` of a point where a function changes case. |
| `BitPack` | mldsa.cc 623-866, 1060-1104 | One operator per packer and unpacker, built block by block from its loop body. A `uint32_t` is a function from `0..31` to bits. `Shl`/`Shr` truncate, `Load` and `Bytes` are the little-endian `memcpy`, and `NibbleMask` is the branch-free range test of 776-778. `scalar_decode_signed_4_4` takes the caller's old scalar, because it returns 0 with the blocks before the bad one written. `scalar_encode_signed`/`scalar_decode_signed` dispatch on `bits`. The vector wrappers `vector_encode`, `vector_encode_signed`, `vector_decode_10` and `vector_decode_signed` write or read entry i at `VectorOffset(i, bits)` of one buffer; `vector_decode_signed` returns at the first failing entry. `FIPSSimpleBitPack`, `FIPSBitPack` and their inverses are FIPS 204 Algorithms 16-19 over bit strings. |
| `MCBitPack` | callers 1107-1110, 1196 | Variables `call` (function and argument), `result` and `pc`. `Call` applies one function to an argument from `Calls` (scalars) or `VectorCalls` (two-entry vectors, on a caller's buffer or vector filled with stale values). |
| `Expand` | mldsa.cc 996-1050 | `matrix_expand`, `vector_expand_short` (`ExpandShortFrom`, one uint8 counter through s1 and s2) and `vector_expand_mask` (`MaskIndexBytes`, the two index bytes) as sequences of sampler-call records `[sampler, entry, seed, suffix]`, the suffix being the two bytes written after the seed. `FIPSExpandA`, `FIPSExpandS`, `FIPSExpandMask` build the same records from FIPS 204 `IntegerToBytes`. |
| `MCExpand` | callers 1368-1369, 1486-1491 | Variables `call`, `result`, `pc`. `Call` runs one expansion, the mask with a kappa from `Kappas`. |
| `MCConformance` | (composition) | Instantiates `MCRounding`, `SampleInBall`, `ScalarUniform`, `ScalarFromKeccak`, `MCBitPack`, `MCExpand`, `MCDataflow` and `MCHintPack` with their own variables. A variable `which` chosen in `Init` selects the one a behaviour runs; the others stay in their initial state. The functions share no state in the code, so nothing is lost by not interleaving them. |
| `SignVerify` | `MLDSA65_sign` 1742-1757, `mldsa_sign_internal` 1434-1570, `MLDSA65_verify` 1759-1772, `mldsa_verify_internal` 1574-1645, `vector_expand_mask` 1036-1050, the 20-bit z codec 712-847 | Variables `phase`, `call`, `mu`, `kappa`, `usedNonces`, `sig`, `verdict`. Actions `SignCall` (the context check, mu, and the allocation, which may fail), `SignReject` (an attempt refused by either test: `kappa += L`), `SignAccept` (both tests pass; the signature is built; `hint_bit_pack` aborts past omega ones) and `Verify` (the context check, allocation, the hint parser's count limit, the z bound, and the c~ comparison). |
| `HintPack` | mldsa.cc 1112-1158 | `hint_bit_pack` as an operator. `hint_bit_unpack` as three RECURSIVE operators, one per loop, which also return the partly written hint. Scaled: degree `N`, `K` polynomials, budget `Omega`. |
| `MCHintPack` | `mldsa_parse_signature` 1311-1324 | Variables `in` (every byte string of the scaled size) and `result`. `Parse` calls the unpacker. Checked inside `MCConformance`, which names `PackImages` at its top level so that TLC computes the set once. |
| `Dataflow` | mldsa.cc 278-301, 344-393, 548-621, 954-1050, 1108-1110, key generation 1351-1393, `mldsa_public_from_private` 1414-1428, `mldsa_sign_internal` 1440-1566, `mldsa_verify_internal` 1594-1644 | A memory `mem` maps each buffer name (`priv.s1`, `cs1`, `w1`, `sign.z`, ...) to a term `[op, args, n]` naming the function that last wrote it and the terms it read. `Call` is one vector, matrix or hash call: it reads every input before writing the output, as the coefficient-wise loops do, so in-place calls (`vector_inverse_ntt(&t)`, `vector_low_bits(r0, r0)`) are exact. `y_ntt`, `r0`, `ct0` and `verify_w1` are the aliases of 1493, 1522, 1543 and 1627. `mldsa_generate_key_external_entropy`, `mldsa_public_from_private`, `SignHashes`, `SignSetup`, `SignFirst` (one attempt up to the first test), `SignSecond` (to the second test), `MarshalSignature`, `ParseSignature` and `mldsa_verify_internal` are the call sequences of the code. `FIPSKeyGen`, `FIPSSign(kappa)` and `FIPSVerify` build the same terms from FIPS 204 Algorithms 6-8. |
| `MCDataflow` | the allocation and loop control of 1345-1349, 1406-1411, 1472-1475, 1490, 1535-1568, 1588-1598 | Variables `mem`, `fn`, `pc`, `kappa`, `tried` (how far the last attempt went), `lk` (its kappa). Inputs hold their own names and heap temporaries start `Uninitialized`. `GenerateKey`, `PublicFromPrivate` and `Verify` each fail on allocation or run the body; `SignStart` runs the hashes and setup; `SignRejectFirst`, `SignRejectSecond` and `SignAccept` are one attempt refused by the first test, by the second, or accepted and marshalled. Which test refuses depends on norms the terms do not carry, so it is chosen. |
| `NTTMath` | (reference, FIPS 204) | Bit reversal, modular powers, Horner evaluation, the negacyclic NTT `Transformed`, and `NegacyclicProduct`. |
| `NTTSpec` | the promise of `scalar_ntt` | Variables `s` and `done`. The transform is one step `Transform`, with weak fairness: a call returns. |
| `NTTArith` | mldsa.cc 40-46, 146-209, 247-273, 303-337 | `reduce_montgomery` (the uint32 product wraps modulo R), the root table from its generator comment, `kInverseDegreeMontgomery` (= N^-1 R^2, the value of the constant), `scalar_add`, `scalar_mult`, and `scalar_inverse_ntt` as three RECURSIVE loops plus the scaling loop. |
| `NTT` | `scalar_ntt` 275-301 | The loop variables `step`, `offset`, `i`, `k`, `j`, `pc`, plus the in-place `s` and the history variable `input`. One action per loop test (`NTTLayer`, `NTTFinish`, `NTTBlock`, `NTTLayerEnd`, `NTTBlockEnd`) and per butterfly (`NTTButterfly`). `Abstract` instantiates `NTTSpec` with the refinement mapping: `s` is the input until `pc = "done"` and the transformed scalar afterwards. |
| `Marshal` | mldsa.cc 1160-1324, 1673-1689, 1784-1787, the decoders 769-795, 850-866, 1095-1104, 1131-1158 | Variables `pub`, `priv`, `sig` (the caller's structs) and `last` (the last call's result, including the bytes a marshal wrote). Actions `ParsePublicKey`, `ParsePrivateKey` (with the wrapper's trailing-bytes test), `ParseSignature` (as the verifier calls it, on exactly `signature_bytes`), `MarshalPublicKey`, `MarshalPrivateKey` (into a caller's CBB, which may fail at any field) and `MarshalSignature` (into the signer's fixed CBB, which cannot fail). `ReadFields` is the `||`-chain of `CBS_get_bytes`/`CBS_copy_bytes` and decoders: it stops at the first failure and keeps every write before it. Key generation (1331-1429, 1693-1726): variable `pkbuf` is the caller's public key array and the ghost `genpk` the encoding generated with the current `priv`; actions `GenerateKey`, `PrivateKeyFromSeed` (with the seed length test) and `PublicFromPrivate`, each with its allocation failure. `mldsa_generate_key_external_entropy` writes rho, k, s1, s2, t0 into `priv`, marshals the public key into a fixed CBB (`FixedMarshal`) and only then stores the hash; the seed expansion, `vector_expand_short` (one nonce counter through s1 and s2), A*s1 + s2 and `power2_round` are injective records of their inputs. |
| `MCMarshal` | (data) | K = 2, L = 1; the inputs are a key's encoding, every truncation, a trailing unit, and a bad nibble in each eta polynomial; payload units are model values; one key generation seed and seed lengths 31 and 32. |
| `Asn1Integer` | a_int.c 69-437 | Variables `obj` (the caller's object: `type` as a base type and the `V_ASN1_NEG` bit, `data` the magnitude bytes) and `last` (what the last call returned). One action per entry point: `C2i`, `I2c_call`, `Set` (INTEGER/ENUMERATED), `SetUint64`, `Get`, `Cmp`, `FromBn`, `ToBn`, each with the allocation failure it can meet, plus `CallerSetsString` (a caller's `ASN1_STRING_set`, which can make non-minimal objects). The byte-level operators `negate_twos_complement`, `i2c_ASN1_INTEGER`, `c2i_ASN1_INTEGER`, `asn1_string_set_uint64`, `asn1_string_get_long`, `ASN1_INTEGER_cmp` translate the code; `CBS_is_valid_asn1_integer`, `ASN1_STRING_cmp` and `BN_bn2bin_padded` (outside the repository) are modelled by their contracts. |
| `MCAsn1Integer` | (data) | The input sets: byte strings over `0x00, 0x7f, 0x80, 0xff` and long/uint64/BIGNUM values at the byte and word boundaries. |
| `SampleInBall` | `scalar_sample_in_ball_vartime` 954-994 | Variables `c` (the output scalar), `block`, `offset`, `signs`, `i`, `pc`. `Start` squeezes the first block, loads the sign word and zeroes the scalar. `Squeeze` refills at `offset = BlockBytes`. `DrawReject` skips a byte above `i`. `DrawAccept` does the swap of 990-991 (`Place`) and shifts `signs`. |
| `ScalarUniform` | `scalar_uniform<4>` 910-941, `coefficient_from_nibble<4>` 901-908 | Variables `c`, `done`, `block`, `i`, `pc`, ghost `stream`. `Squeeze`, `Step` (one byte: both nibbles, the second only while `done < N`), `EndFor`, `Return`. `FIPSCoefficients` is RejBoundedPoly as a RECURSIVE operator. |
| `ScalarFromKeccak` | `scalar_from_keccak_vartime` 870-896 | The same loop shape over triples. `CoeffFromThreeBytes` is the masked little-endian assembly, and `Accept` is the `< q` test. `FIPSCoefficients` is RejNTTPoly over the integers, with the top bit removed by subtraction. |
| `PolyMult` | `vector_ntt` 368-373, `matrix_mult` 382-393, `vector_inverse_ntt` 375-380 | The product pipeline of the signer and verifier: `TransformOperands`, `MatrixMult` (from zero, accumulate `scalar_mult` products with `scalar_add`) and `InverseTransform`. |

### Abstractions, and why they are sound for the properties

* **One representative coefficient (SignVerify).** Every rejection test of the loop is
  a maximum over all coefficients: `vector_max`, `vector_max_signed`. A test passes
  iff it passes at every coefficient. The verifier's reconstruction of `w1` is also
  coefficient-wise. So correctness at every coefficient is correctness of the
  vector. The one global quantity, the hint count, is this coefficient's hint bit
  plus `OtherOnes`, the ones elsewhere.
* **Lattice algebra as data.** The value of `A z - c t1 2^13` at a coefficient is
  `w - cs2 + ct0 (mod q)`, because `z = y + c s1` and `t1 2^13 = A s1 + s2 - t0`.
  The signer stores it in the signature as the ghost field `azMinusCt1`.
  `|cs1|, |cs2| <= beta` because `c` has tau entries +-1 and `s1`, `s2` lie in `[-eta, eta]`.
  The values `y`, `w`, `cs`, `ct0` are chosen from sets of boundary values.
* **Hashes** are injective: `mu` is the byte sequence SHAKE-256 absorbs, and `c~` is
  the pair `<<mu, w1>>`. `tr` is common to signer and verifier and is left out.
* **Scaled NTT.** TLC integers are 32-bit, so the code's 64-bit Montgomery products
  with q = 8380417 cannot be evaluated. The NTT modules use Q = 17, N = 4, a
  primitive 8th root 2, and R = 2^6. The code's invariants carry over because the
  ratios are kept: `2Q < R`, so `b / R < 2Q` and one `reduce_once` suffices; and
  `R < Q^2`, so the reduction can end in `[Q, 2Q)` and needs that `reduce_once`, as with the real q and R = 2^32.
* **Encodings as units (Marshal).** A byte string is a sequence of units, one per
  fixed-size field and one per polynomial, with distinct tokens for a polynomial
  whose eta nibble is out of range in its first 8-coefficient block (the decoder
  returns before writing) or a later one (it has written earlier blocks), and for
  a refused hint section. A byte string that ends inside a field fails that
  `CBS_get_bytes` exactly as one that ends before it. The parse and marshal control
  (which step can fail, what has been written by then) is kept in full; the bit
  packing is left to `HintPack` and `BitPack`.
* **Scaled words (Asn1Integer).** `uint64_t` and `long` become 2-byte words
  (`WordBytes = 2`). Every decision of the code depends on the width only through
  `sizeof(uint64_t)` and `LONG_MAX`, which scale with it; three-byte DER inputs
  exceed the word, as nine-byte ones do at full size.
* **Scaled hint packing.** Degree 6, K = 2, omega = 4. The code's "every byte is a
  valid index" (kDegree = 256) becomes bytes `0..N-1` with `N > Omega + 1`, so a
  count byte can still exceed omega.

## 4. Runs

| Run | Cfg | Expect | Checks | Shows |
|---|---|---|---|---|
| `fips_conformance` | `MCConformance.cfg` | pass | `TypeOK`, `DecomposeIsFIPS`, `Power2RoundIsFIPS`, `BallShape`, `UniformIsFIPS`, `FromKeccakIsFIPS`, `EncodeIsFIPS`, `DecodeIsFIPS`, `VectorCodecIsFIPS`, `ExpandIsFIPS`, `KeysAreFIPS`, `SignIsFIPS`, `VerifyIsFIPS`, `UnpackAcceptsOnlyPackImages`, `UnpackAcceptsPackImages` | About 213k states in under a minute. Rounding: The bit-trick implementations equal FIPS 204 on every coefficient within 64 of each of the 16 HighBits decision points (2m+1)gamma2, of 0, q-1 and q-1-gamma2, and of five Power2Round rounding points. That covers the q-1 wrap, where r1 must become 0. 2839 states. SampleInBall: over every stream from a byte set with rejected bytes, refills and draws equal to `i`, the shuffle ends with exactly `tau` entries of +-1 and writes no other value. `scalar_uniform<4>`: after every byte read, the coefficients written are the RejBoundedPoly coefficients of the bytes read, including a stop between the two nibbles of a byte. `scalar_from_keccak_vartime`: the coefficients written are the RejNTTPoly coefficients of the triples read, at `q - 1`, `q`, above `q`, and with the top bit set. Bit packing: every packer and unpacker equals FIPS 204 on every single-bit input, and the eta = 4 unpacker fails exactly on a nibble >= 9 with the earlier blocks written. Vector wrappers: entries are laid out back to back at `i * bits * kDegree / 8` and `vector_decode_signed` leaves the entries before a bad one decoded, that one partly written and the rest untouched. Expansion: every sampler call hashes the FIPS 204 seed, including mask indices 256 and above. Data flow: key generation, `public_from_private`, up to three signing attempts (each refused at either test or accepted) and verification leave in every buffer a test or the caller reads the FIPS 204 value, so no aliased or stale buffer is read. Hint packing: over all 46656 hint sections of the scaled size, the parser accepts exactly the packer's images and returns their hint. |
| `sign_verify` | `MCSignVerify.cfg` | pass | `TypeOK`, `SignedVerifies`, `VerifiesOnlyWhatWasSigned` | Every signature the loop emits verifies for its own (context, message) and for no other. About 417k states in 2 minutes. |
| `sign_nonce_wrap` | `MCSignNonce.cfg` | violation | `AttemptNoncesFresh` | In an NDEBUG build, the 13108th attempt (kappa = 65535) re-derives nonce 0. See Findings. |
| `ntt` | `MCNTT.cfg` | pass | `TypeOK`, `ImplementsNTTSpec` | The butterfly loop keeps coefficients below Q, terminates, and implements the one-step NTT (refinement, PROPERTY). |
| `poly_mult` | `MCPolyMult.cfg` | pass | `TypeOK`, `ProductIsNegacyclic` | `INTT(NTT(a) o NTT(b))` is the negacyclic product for all 65536 operand pairs. |
| `marshal` | `MCMarshal.cfg` | pass | `ParseAcceptsExactlyEncodings`, `MarshalParseRoundTrip`, `PublicKeyHashMatchesEncoding`, `GeneratedKeyPairMatches`, `FailedKeyGenLeavesKeys` | Over every sequence of parse, marshal, key generation and `public_from_private` calls on reused structs (132,583 states, about 2 minutes), each parser accepts exactly the FIPS 204 encodings and stores their fields at the FIPS offsets. What a marshal function writes parses back to the struct. A parsed public key caches the hash of its own encoding. The public key bytes generated with a private key parse to exactly what `public_from_private` derives from it (same rho, t1 and tr), and a key generation or `public_from_private` that returns 0 changes no key. |
| `marshal_pub_hash` | `MCMarshalPubHash.cfg` | violation | `PublicKeyCachesItsHash` | A public key derived by `public_from_private` from a private key whose stored tr is not the hash of its public key caches that tr. See Findings. |
| `marshal_partial_output` | `MCMarshalPartial.cfg` | violation | `FailedParseLeavesStruct` | A truncated public key leaves its `rho` in the caller's struct beside the old `t1` and hash. See Findings. |
| `asn1_integer` | `MCAsn1Integer.cfg` | pass | `StoredObjectIsMinimal`, `StoreDenotesInput`, `EncodingIsMinimalDER`, `CmpOrdersValues` | Over every sequence of calls on one object (depth 5, about 26k states), c2i accepts exactly minimal DER and stores its two's complement value minimally, the setters and `BN_to_ASN1_INTEGER` store their value minimally, `i2c` writes minimal DER of the object's value for every object (including caller-built non-minimal ones), and `cmp` orders as the integers. |
| `asn1_get_long_min` | `MCAsn1Get.cfg` | violation | `GetReturnsValue` | `ASN1_INTEGER_get` returns -1 for an object holding `LONG_MIN`. See Findings. |
| `asn1_failed_from_bn` | `MCAsn1Failure.cfg` | violation | `FailedCallLeavesObject` | A failed `BN_to_ASN1_INTEGER` leaves the caller's object with the new sign and the old data. See Findings. |
| `poly_mult_roundtrip` | `MCPolyMultRoundTrip.cfg` | violation | `InverseUndoesTransform` | `INTT(NTT(p)) = p R`, not `p`. See Findings. |

### Bounds and why they are enough

* **`MCSignVerify`** data sets. Each sits on both sides of every test:
  * `y` reaches `z = +-(gamma1 - beta)`, the first z refused;
  * `w` takes the HighBits decision points for m = 0, 7 and 15, each offset by
    `-beta-1, -1, 0, beta`, plus the wrap region and `0`, `q-1`;
  * `cs` takes `0, +-1, +-beta`;
  * `ct0` takes `0, +-(gamma2-1), gamma2`;
  * `OtherOnes` takes `0, omega-1, omega`.
  
  With these sets, 81 combinations are accepted, and 22 of them have a hint bit. Each
  property has a fault of the code it catches (the mutants).
  `MaxKappa = 10` allows two rejections before the call stops. More attempts add no new
  behaviour, because attempts are independent except through kappa.
  Contexts of 0, 255 and 256 bytes and messages of 0, 1 and 256 bytes let a
  (context, message) pair of one call equal another's concatenation.
* **`MCSignNonce`** runs the loop with data every attempt rejects, up to
  `MaxKappa = 65540`. The nonce space is the real 2^16. It is not scaled.
* **`MCMarshal`** uses K = 2 and L = 1, so s1 and s2 differ in size and a swap of
  them changes the layout. Every prefix of a private key encoding makes each of
  the nine `CBS` steps fail in turn. The bad nibble is placed in each of the three
  eta polynomials, in both blocks. Key generation needs one seed: a second only
  renames every derived value, and the relations checked are between the values
  of one generation and whatever the structs held before (a parsed, torn or
  earlier generated key). The caller's public key array starts holding a stale key.
* **`MCDataflow`** uses L = 5 and `MaxKappa = 10`: three signing attempts, so an
  attempt runs after one refused at each test and reads buffers every earlier
  attempt wrote. The buffer contents are symbolic, so no value is scaled; the
  norms are chosen, which covers both outcomes of each test.
* **`MCAsn1Integer`** takes every DER string of up to 3 bytes over
  `{0x00, 0x7f, 0x80, 0xff}`: the bytes just below, at and above the sign bit and
  the two padding bytes, so every branch of the 0x00/0xff stripping and of the pad
  rule (including `0x80 00` and `0xff 00`) is reached. Long inputs include
  `LONG_MIN`, `LONG_MIN + 1`, +-128, +-129 and `LONG_MAX`; BIGNUM inputs include
  values one past the long range; `uint64_t` inputs reach the top of the word.
* **`MCNTT`** takes inputs with coefficients in `{0, 1, 2, 8, 15, 16}`: 1296 scalars.
  Every input runs the complete loop of 2 layers x 2 blocks. The 83521-scalar full input set
  makes the liveness check too slow.

* **Bit packing** uses 16 coefficients. The 13-bit codec then runs two loop
  iterations, and the others run two to eight.
  * Each input differs from an all-zero or all-ones background in one bit of one
    coefficient or byte. Every output bit of these functions is one input bit
    moved, with no carries, so each misplaced shift, offset or mask changes the
    output on some such input.
  * The eta = 4 coders take every value (0-8 to encode, 0-15 to decode) at every
    position, on backgrounds 0 and 8.
* **Vector wrappers** use two-entry vectors: the second entry is the first whose
  offset is not 0, so a wrong offset shows. Encoders get ramps (increasing and
  decreasing) in both orders; decoders get two byte patterns; the 4-bit signed
  decoder gets every pair of a good entry, one bad in its first block and one bad
  in a later block. Buffers and vectors start with stale values, so an
  unwritten byte or entry shows.
* **Expansion** uses the real K = 6, L = 5 of ML-DSA-65 and kappa in
  `{0, 250, 255, 65530}`: the index stays below 256, crosses 256 inside one call,
  starts at it, and reaches the top of the 16-bit range (`kappa + L <= 2^16`, the
  assert at 1040). Seeds are names: the code copies them unchanged.
* **Samplers.** Each sampler is scaled to a few coefficients and a few bytes per block.
  * `SampleInBall` uses N = 5, tau = 3 and 3-byte blocks with 1 sign byte.
    Its bytes `{0, 1, 2, 4, 5, 255}` include draws equal to `i` (the self-swap),
    draws below `N - tau`, and rejections. `offset` reaches the block end in the
    middle of the shuffle.
  * `ScalarUniform` uses N = 3, 2-byte blocks and up to 3 squeezes. Its bytes
    0x00, 0x09, 0x84, 0x98 and 0xff accept or reject each nibble, with 8 and 9 in
    both halves. So the third coefficient can come from a low nibble with an
    acceptable high nibble left over.
  * `ScalarFromKeccak` uses N = 2, blocks of two triples and up to 2 squeezes. Its
    triples hit `q - 1`, `q`, values above `q`, and the same with the top bit set.
  * The samplers loop without a bound on streams that keep rejecting, so
    `MaxBlocks` is a named bound on squeezes; the code's termination is
    probabilistic.

### Fairness

Only `NTT` and `NTTSpec` state liveness. `scalar_ntt` is straight-line
sequential code, so a started call keeps taking steps. That is weak fairness
on the loop's next-state relation, and termination follows from the loop
bounds. The signing loop is *not* given fairness. Its termination is
probabilistic (each attempt is accepted with probability about 1/5), so no fairness
of the code guarantees it. `SignVerify` states only safety.

### Deadlock

Every cfg says `CHECK_DEADLOCK FALSE`, because each model is one call that returns:
* a signing call ends (signed, failed, aborted, or at the model bound `MaxKappa`);
* `hint_bit_unpack` returns;
* the NTT loop reaches `done`;
* a sampler returns, or it has used up the `MaxBlocks` squeezes of the bounded stream;
* a bit packer, vector wrapper or expansion call returns;
* a `Dataflow` call returns, fails, or the signing loop reaches `MaxKappa`;
* the product pipeline finishes;
* the ASN.1 and Marshal models have no end state of their own; every call is always enabled.

## 5. Findings

1. **Mask nonces wrap (spec_code_divergence, mldsa.cc:1490).** The comment at
   1488 says kappa must not exceed 2^16/L. FIPS 204 aborts there. The loop has no
   bound, and the only check is the `assert` at 1040. In an NDEBUG build, the two
   nonce bytes (1046-1047) wrap, and the attempt at kappa = 65535 derives the
   mask of nonce 0 again. Two signatures' worth of `z = y + c s1` with the same
   `y` would reveal `s1`. Reaching it takes 13107 consecutive rejections, which has
   negligible probability (about 0.8^13107) for honest keys. So this is a robustness gap, not a practical attack.
2. **`kInverseDegreeMontgomery` is not "256^-1 in Montgomery form"
   (spec_code_divergence, mldsa.cc:46).** The constant is 256^-1 R^2 mod q, so
   `scalar_inverse_ntt(scalar_ntt(p)) = p R`. The code is right where it is used:
   every inverse NTT follows a `scalar_mult`, whose Montgomery reduction contributes
   `R^-1`, and `poly_mult` shows the pipeline exact. The comment (line 45) and the
   spec (sections 2 and 9) describe the contract wrongly.

3. **`ASN1_INTEGER_get` reads `LONG_MIN` as -1 (code_bug, a_int.c:348).**
   `ASN1_INTEGER_set(a, LONG_MIN)` stores the magnitude 2^63 with the NEG type.
   `asn1_string_get_long` compares the magnitude with `LONG_MAX` before negating,
   so it returns -1, the value it reserves for integers that do not fit a `long`.
4. **A failed `BN_to_ASN1_INTEGER` changes the caller's object (code_bug,
   a_int.c:385).** `bn_to_asn1_string` writes the new type (384-388) before
   `ASN1_STRING_set` (391) can fail, and does not restore it. The object keeps its
   old magnitude under the new sign: 5 becomes -5, and 0 becomes a negative zero.
   `c2i_ASN1_INTEGER` and `ASN1_INTEGER_set` change nothing before their allocation.

5. **A failed key parse leaves partial output (spec_code_divergence,
   mldsa.cc:1206, 1267).** Spec section 7 says every failure is returned "without
   partial output". `mldsa_parse_public_key` copies `rho` into the caller's struct
   before it checks the rest of the length. `mldsa_parse_private_key` copies `rho`,
   `k` and `tr` and decodes `s1` and `s2` polynomial by polynomial before a later
   step can fail. `MLDSA65_parse_private_key` tests for trailing bytes only after
   every field is written. A struct reused after a failed parse holds a mixture of
   two keys, e.g. a new `rho` with the old `t1` and `public_key_hash`.

6. **A public key derived from a private key caches a tr it did not compute
   (spec_code_divergence, mldsa.cc:1415).** The spec's public key carries
   `tr = SHAKE-256(encoded_public_key)`. `mldsa_public_from_private` copies
   `priv->public_key_hash` instead of hashing the rho and t1 it derives, and
   `mldsa_parse_private_key` stores the tr of its input unchecked (1269). For a
   private key whose tr is not the hash of its own public key (a corrupted or
   crafted key file), the derived public key holds a foreign tr: it differs from
   the same key marshalled and parsed again, and it rejects what the private key
   signs against the real public key. FIPS 204's skDecode does not check tr
   either, so the divergence is from the spec's statement, not from FIPS 204.

## 6. Hazards

No property restates the hint-count test of 1552 against `hint_bit_pack`'s
`BSSL_CHECK` (1121): both read `vector_count_ones` of the same `sign.h`, so the
abort is unreachable by construction once the count is of the right buffer, and
that is what `SignIsFIPS` checks (`h_ones` is the count of the hint that is
marshalled, at every attempt). `Asn1Integer` has no type invariant: its bytes are
`uint8_t` values whatever the code does, so the statement would hold vacuously.

`PROJECT.json` ("hazards") lists each hard-to-test behaviour at the line
where it bites, with the properties that cover it. This code is sequential, so
there are no interleaving hazards. The hazards are numeric edges, orderings inside
loops, resource limits (the hint budget, the 16-bit nonce), the partial
output of parsers and of key generation, the cached public key hash (trusted by `public_from_private`), the buffers the
signing loop and verification reuse, the seed bytes of the expansions (the mask index past
255, the row/column order of A, the one nonce counter of s1 and s2), the vector
offsets and the half-written vector of a failed decode, and in a_int.c the byte boundaries of the DER rules, the
`LONG_MIN` edge and a partial failure of `bn_to_asn1_string`.

## 7. Not modelled (yet), and why

* **Key generation arithmetic**: `Marshal` models key generation's control and
  data flow, but A*s1 + s2 and `power2_round` there are opaque records. Their
  per-coefficient steps are checked in `fips_conformance`, and the multiplications in `poly_mult`.
* **Vector arithmetic loops** (`vector_add`, `vector_sub`, `vector_max`,
  `vector_count_ones`, 343-366 and 576-606): which buffers they read and write is
  `Dataflow`'s; the per-coefficient values are `SignVerify`'s representative
  coefficient and `MCRounding`'s, not a loop over 256 coefficients.
* **Keccak inside the expansions**: `scalar_sample_mask` hashes its seed and calls
  the 20-bit decoder; the hash is the injective record of the seed and the
  decoder is `BitPack`'s.
* **ASN.1**: `ASN1_INTEGER_dup` is `ASN1_STRING_dup`, outside the repository. The
  `INT_MAX` length checks of `i2c` and `c2i` (153, 185) cannot fire at the model's
  lengths.
* **Keccak, RAND_bytes, CBB/CBS, OPENSSL_malloc**: not in `src/`. They are abstracted as
  described above. Constant-time behaviour (no secret-dependent branches) is a property of
  executions TLC does not observe, and it is not modelled.

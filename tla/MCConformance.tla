--------------------------- MODULE MCConformance ---------------------------
(***************************************************************************)
(* The algorithms of crypto/mldsa/mldsa.cc that have a FIPS 204 definition *)
(* to be compared with, checked in one model: the rounding functions       *)
(* applied coefficient by coefficient (MCRounding), SampleInBall, the     *)
(* rejection samplers RejBoundedPoly and RejNTTPoly, and the bit packers  *)
(* (MCBitPack), and the seed expansions ExpandA, ExpandS and ExpandMask  *)
(* (MCExpand), and the data flow of key generation, signing and          *)
(* verification through their buffers (MCDataflow), and hint_bit_unpack  *)
(* against hint_bit_pack (MCHintPack).  which selects the algorithm a behaviour runs; the        *)
(* components not selected stay in their initial state, so the state      *)
(* space is the sum of the eight, not their product.  The components      *)
(* share no state in the code either: each is a separate function over   *)
(* its own arguments.                                                      *)
(***************************************************************************)
EXTENDS Integers, Sequences

CONSTANTS Window,
          BallN, Tau, BallBlockBytes, SignBytes, BallBytes,
          UniformN, UniformBlockBytes, UniformBytes, UniformMaxBlocks,
          KeccakN, KeccakBlockBytes, Low, Mid, High, KeccakMaxBlocks,
          BitDegree,
          ExpandK, ExpandL, Kappas,
          DataflowL, DataflowMaxKappa,
          HintN, HintK, HintOmega

VARIABLES which, r,
          bc, bblock, boffset, bsigns, bi, bpc,
          uc, udone, ublock, ui, upc, ustream,
          kc, kdone, kblock, ki, kpc, kstream,
          pkcall, pkresult, pkpc,
          xcall, xresult, xpc,
          dmem, dfn, dpc, dkappa, dtried, dlk,
          hin, hresult

bvars == <<bc, bblock, boffset, bsigns, bi, bpc>>
uvars == <<uc, udone, ublock, ui, upc, ustream>>
kvars == <<kc, kdone, kblock, ki, kpc, kstream>>
pkvars == <<pkcall, pkresult, pkpc>>
xvars == <<xcall, xresult, xpc>>
dvars == <<dmem, dfn, dpc, dkappa, dtried, dlk>>
hvars == <<hin, hresult>>
vars == <<which, r, bvars, uvars, kvars, pkvars, xvars, dvars, hvars>>

Rnd == INSTANCE MCRounding

Ball == INSTANCE SampleInBall
          WITH N <- BallN, BlockBytes <- BallBlockBytes, Bytes <- BallBytes,
               c <- bc, block <- bblock, offset <- boffset, signs <- bsigns,
               i <- bi, pc <- bpc

Uni == INSTANCE ScalarUniform
          WITH N <- UniformN, BlockBytes <- UniformBlockBytes,
               Bytes <- UniformBytes, MaxBlocks <- UniformMaxBlocks,
               c <- uc, done <- udone, block <- ublock, i <- ui, pc <- upc,
               stream <- ustream

Kec == INSTANCE ScalarFromKeccak
          WITH N <- KeccakN, BlockBytes <- KeccakBlockBytes,
               MaxBlocks <- KeccakMaxBlocks,
               c <- kc, done <- kdone, block <- kblock, i <- ki, pc <- kpc,
               stream <- kstream

Bit == INSTANCE MCBitPack
          WITH Degree <- BitDegree, call <- pkcall, result <- pkresult, pc <- pkpc

Exp == INSTANCE MCExpand
          WITH K <- ExpandK, L <- ExpandL, call <- xcall, result <- xresult, pc <- xpc

Flow == INSTANCE MCDataflow
          WITH L <- DataflowL, MaxKappa <- DataflowMaxKappa, mem <- dmem, fn <- dfn,
               pc <- dpc, kappa <- dkappa, tried <- dtried, lk <- dlk

Hint == INSTANCE MCHintPack
          WITH N <- HintN, K <- HintK, Omega <- HintOmega, in <- hin, result <- hresult

Modes == {"rounding", "ball", "uniform", "keccak", "bitpack", "expand", "dataflow", "hintpack"}

Init ==
    /\ which \in Modes
    /\ \/ which = "rounding" /\ Rnd!Init
       \/ which # "rounding" /\ r = 0
    /\ Ball!Init /\ Uni!Init /\ Kec!Init /\ Bit!Init /\ Exp!Init /\ Flow!Init
    /\ \/ which = "hintpack" /\ Hint!Init
       \/ which # "hintpack" /\ hin = [i \in Hint!EncodingIndex |-> 0] /\ hresult = Hint!NotParsed

Next ==
    \/ which = "rounding" /\ Rnd!Next /\ UNCHANGED <<which, bvars, uvars, kvars, pkvars, xvars, dvars, hvars>>
    \/ which = "ball" /\ Ball!Next /\ UNCHANGED <<which, r, uvars, kvars, pkvars, xvars, dvars, hvars>>
    \/ which = "uniform" /\ Uni!Next /\ UNCHANGED <<which, r, bvars, kvars, pkvars, xvars, dvars, hvars>>
    \/ which = "keccak" /\ Kec!Next /\ UNCHANGED <<which, r, bvars, uvars, pkvars, xvars, dvars, hvars>>
    \/ which = "bitpack" /\ Bit!Next /\ UNCHANGED <<which, r, bvars, uvars, kvars, xvars, dvars, hvars>>
    \/ which = "expand" /\ Exp!Next /\ UNCHANGED <<which, r, bvars, uvars, kvars, pkvars, dvars, hvars>>
    \/ which = "dataflow" /\ Flow!Next /\ UNCHANGED <<which, r, bvars, uvars, kvars, pkvars, xvars, hvars>>
    \/ which = "hintpack" /\ Hint!Next /\ UNCHANGED <<which, r, bvars, uvars, kvars, pkvars, xvars, dvars>>

Spec == Init /\ [][Next]_vars

-----------------------------------------------------------------------------
(***************************************************************************)
(* The type invariants of the four components: high_bits fits the 4-bit w1 *)
(* encoding, SampleInBall writes only 0 and +-1 and keeps its offset in    *)
(* the block, and the rejection samplers never write past the scalar or a  *)
(* value outside the field.                                                *)
(***************************************************************************)
TypeOK == Rnd!TypeOK /\ Ball!TypeOK /\ Uni!TypeOK /\ Kec!TypeOK

\* decompose equals FIPS 204 Decompose, including the r1 = 16 wrap (MCRounding).
DecomposeIsFIPS == Rnd!DecomposeIsFIPS

\* power2_round equals FIPS 204 Power2Round and fits the 10-bit packer (MCRounding).
Power2RoundIsFIPS == Rnd!Power2RoundIsFIPS

\* The Fisher-Yates swap of SampleInBall leaves exactly tau entries of +-1.
BallShape == Ball!BallShape

\* scalar_uniform<4> writes the RejBoundedPoly coefficients of the bytes it read.
UniformIsFIPS == Uni!UniformIsFIPS

\* scalar_from_keccak_vartime writes the RejNTTPoly coefficients of its triples.
FromKeccakIsFIPS == Kec!FromKeccakIsFIPS

\* Every packer writes the FIPS 204 SimpleBitPack / BitPack bytes (MCBitPack).
EncodeIsFIPS == Bit!EncodeIsFIPS

\* Every unpacker returns the FIPS 204 coefficients and the eta = 4 one fails
\* exactly on a nibble >= 9 (MCBitPack).
DecodeIsFIPS == Bit!DecodeIsFIPS

\* The vector wrappers place entry i at i * bits * kDegree / 8, and
\* vector_decode_signed stops at the first bad entry (MCBitPack).
VectorCodecIsFIPS == Bit!VectorCodecIsFIPS

\* matrix_expand, vector_expand_short and vector_expand_mask hash each entry's
\* FIPS 204 seed, the mask index on two bytes past 255 (MCExpand).
ExpandIsFIPS == Exp!ExpandIsFIPS

\* Key generation and public_from_private compute the FIPS 204 keys through
\* their temporaries (MCDataflow).
KeysAreFIPS == Flow!KeysAreFIPS

\* Every rejection test and the emitted signature read the FIPS 204 values of
\* the attempt, despite the reuse of cs1 and w1 across the loop (MCDataflow).
SignIsFIPS == Flow!SignIsFIPS

\* The verifier's final test compares the FIPS 204 c~' and bounds z itself.
VerifyIsFIPS == Flow!VerifyIsFIPS

\* hint_bit_unpack accepts an encoding only if hint_bit_pack makes it from
\* the hint returned: no second encoding of a hint (MCHintPack).
UnpackAcceptsOnlyPackImages == Hint!UnpackAcceptsOnlyPackImages

\* The encodings hint_bit_pack makes, named here so that TLC evaluates the
\* set once rather than in every state, as it does for MCHintPack itself.
HintPackImages == Hint!PackImages

\* Every encoding hint_bit_pack makes, up to Omega ones, parses back and
\* gives the hint it encodes (MCHintPack's UnpackAcceptsPackImages).
UnpackAcceptsPackImages ==
    (hresult # Hint!NotParsed /\ hin \in HintPackImages) =>
        hresult.ok /\ Hint!hint_bit_pack(hresult.h) = hin

=============================================================================

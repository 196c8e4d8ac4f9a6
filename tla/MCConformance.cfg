\* Rounding: every coefficient within Window of a case boundary of decompose
\* or power2_round.
\* SampleInBall: N = 5, tau = 3, 3-byte blocks with one sign byte.  The bytes
\* include draws equal to i (the self-swap), draws below N - tau, and
\* rejections, and the block runs out mid-shuffle.
\* scalar_uniform: 3 coefficients, 2-byte blocks, up to 3 squeezes.  The bytes
\* 0x00, 0x09, 0x84, 0x98 and 0xff accept or reject each nibble, with 8 and
\* 9 in both halves.
\* scalar_from_keccak_vartime: 2 coefficients, blocks of two triples, up to 2
\* squeezes.  q = 0x7fe001, and the triples give q - 1 (00 e0 7f), q
\* (01 e0 7f), values above q (ff in the middle), the same with the top bit
\* of the third byte set, and small values (third byte 00).
\* Bit packing: 16 coefficients, so the 13-bit codec runs two blocks and the
\* others two or more; every single-bit input of every codec.
\* Expansion: the ML-DSA-65 sizes K = 6, L = 5.  The mask kappas are
\* multiples of L: 0, 250 (indices up to 254), 255 (indices 255 to 259,
\* crossing 256) and 65530 (the last attempt the assert allows).
\* Hint packing: degree 6, two polynomials, a budget of 4 ones, so every one
\* of the 6^6 = 46656 encodings is parsed.
\* Data flow: L = 5 and three signing attempts (kappa 0, 5, 10), so an
\* attempt runs after a first-test and after a second-test rejection.
CONSTANTS
    Window = 64
    BallN = 5
    Tau = 3
    BallBlockBytes = 3
    SignBytes = 1
    BallBytes = {0, 1, 2, 4, 5, 255}
    UniformN = 3
    UniformBlockBytes = 2
    UniformBytes = {0, 9, 132, 152, 255}
    UniformMaxBlocks = 3
    KeccakN = 2
    KeccakBlockBytes = 6
    Low = {0, 1}
    Mid = {224, 255}
    High = {0, 127, 255}
    KeccakMaxBlocks = 2
    BitDegree = 16
    ExpandK = 6
    ExpandL = 5
    Kappas = {0, 250, 255, 65530}
    DataflowL = 5
    DataflowMaxKappa = 10
    HintN = 6
    HintK = 2
    HintOmega = 4

SPECIFICATION Spec

INVARIANTS
    TypeOK
    DecomposeIsFIPS
    Power2RoundIsFIPS
    BallShape
    UniformIsFIPS
    FromKeccakIsFIPS
    EncodeIsFIPS
    DecodeIsFIPS
    VectorCodecIsFIPS
    ExpandIsFIPS
    KeysAreFIPS
    SignIsFIPS
    VerifyIsFIPS
    UnpackAcceptsOnlyPackImages
    UnpackAcceptsPackImages

\* A sampler returns (or uses up its bounded stream); the rounding sweep
\* moves between coefficients for ever.
CHECK_DEADLOCK FALSE

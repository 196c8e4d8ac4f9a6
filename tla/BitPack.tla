------------------------------- MODULE BitPack -------------------------------
(***************************************************************************)
(* The specialised bit packers of crypto/mldsa/mldsa.cc (lines 623-866):   *)
(* scalar_encode_4/_10, scalar_encode_signed_4_4/_13_12/_20_19 and the     *)
(* matching decoders, one operator per function; each builds its output    *)
(* from the body of its loop, one block of coefficients at a time.         *)
(*                                                                         *)
(* TLC integers are 32-bit signed, and the code shifts uint32_t words past *)
(* 2^31 (c << 26, h << 27, d << 28) and lets bits fall off the top.  A     *)
(* uint32_t is therefore held as its 32 bits, bit 0 least significant, so  *)
(* << and >> truncate exactly as in C, and memcpy between words and bytes  *)
(* is the little-endian layout of the build's targets.  Degree scales      *)
(* kDegree = 256 (the loops step by blocks of 2, 4 or 8 coefficients).     *)
(***************************************************************************)
EXTENDS Integers, Sequences

CONSTANT Degree

ASSUME Degree % 8 = 0

kPrime == 8380417

INSTANCE Field WITH Q <- kPrime

Bits32 == 0..31

\* A uint32_t of value n < 2^31.
U32(n) == [k \in Bits32 |-> IF k = 31 THEN 0 ELSE (n \div 2^k) % 2]

\* 0x88888888: the top bit of every nibble.
kNibbleMsbs == [k \in Bits32 |-> IF k % 4 = 3 THEN 1 ELSE 0]

Shl(w, n) == [k \in Bits32 |-> IF k >= n THEN w[k - n] ELSE 0]
Shr(w, n) == [k \in Bits32 |-> IF k + n <= 31 THEN w[k + n] ELSE 0]
BitOr(a, b) == [k \in Bits32 |-> IF a[k] + b[k] > 0 THEN 1 ELSE 0]
BitAnd(a, b) == [k \in Bits32 |-> a[k] * b[k]]

RECURSIVE BitSum(_, _, _)
BitSum(w, lo, n) == IF n = 0 THEN 0 ELSE w[lo] + 2 * BitSum(w, lo + 1, n - 1)

\* The value of a word whose bit 31 is clear (every masked field below is).
Val(w) == BitSum(w, 0, 31)

\* Byte j of a word stored by memcpy, and (uint8_t)w, which is byte 0.
Byte(w, j) == BitSum(w, 8 * j, 8)

\* memcpy of n bytes of in at off into a zeroed uint32_t / uint16_t.
Load(in, off, n) ==
    [k \in Bits32 |-> IF k < 8 * n THEN (in[off + k \div 8] \div 2^(k % 8)) % 2
                                  ELSE 0]

\* An output array assembled from the blocks the loop writes: block i holds
\* bytes (or coefficients) size * i .. size * i + size - 1.
Blocks(n, size, block(_)) == [k \in 0..(n * size - 1) |-> block(k \div size)[(k % size) + 1]]

-----------------------------------------------------------------------------
\* Lines 626-636: out[i] = a | (b << 4).
scalar_encode_4(s) ==
    LET blk(i) == <<Byte(BitOr(U32(s[2 * i]), Shl(U32(s[2 * i + 1]), 4)), 0)>>
    IN  Blocks(Degree \div 2, 1, blk)

\* Lines 639-657.
scalar_encode_10(s) ==
    LET blk(i) ==
          LET a == U32(s[4 * i])     b == U32(s[4 * i + 1])
              c == U32(s[4 * i + 2]) d == U32(s[4 * i + 3])
          IN  <<Byte(a, 0), Byte(BitOr(Shr(a, 8), Shl(b, 2)), 0),
                Byte(BitOr(Shr(b, 6), Shl(c, 4)), 0),
                Byte(BitOr(Shr(c, 4), Shl(d, 6)), 0), Byte(Shr(d, 2), 0)>>
    IN  Blocks(Degree \div 4, 5, blk)

\* Lines 660-670: a = mod_sub(4, c), out[i] = a | (b << 4).
scalar_encode_signed_4_4(s) ==
    LET blk(i) == <<Byte(BitOr(U32(mod_sub(4, s[2 * i])),
                               Shl(U32(mod_sub(4, s[2 * i + 1])), 4)), 0)>>
    IN  Blocks(Degree \div 2, 1, blk)

\* The first n bytes of a word copied out by memcpy.
Bytes(w, n) == [j \in 1..n |-> Byte(w, j - 1)]

\* Fault model: c >>= 7 in place of c >>= 6 (line 697).
scalar_encode_signed_13_12_words_shift(x) ==
    <<BitOr(BitOr(x[0], Shl(x[1], 13)), Shl(x[2], 26)),
      BitOr(BitOr(Shr(x[2], 7), Shl(x[3], 7)), Shl(x[4], 20)),
      BitOr(BitOr(BitOr(Shr(x[4], 12), Shl(x[5], 1)), Shl(x[6], 14)), Shl(x[7], 27)),
      Shr(x[7], 5)>>

(***************************************************************************)
(* Lines 695-704: a |= b << 13; a |= c << 26; c >>= 6; c |= d << 7;        *)
(* c |= e << 20; e >>= 12; e |= f << 1; e |= g << 14; e |= h << 27;       *)
(* h >>= 5.  The result is the words a, c, e, h.                           *)
(***************************************************************************)
scalar_encode_signed_13_12_words(x) ==
    <<BitOr(BitOr(x[0], Shl(x[1], 13)), Shl(x[2], 26)),
      BitOr(BitOr(Shr(x[2], 6), Shl(x[3], 7)), Shl(x[4], 20)),
      BitOr(BitOr(BitOr(Shr(x[4], 12), Shl(x[5], 1)), Shl(x[6], 14)), Shl(x[7], 27)),
      Shr(x[7], 5)>>

\* Lines 674-710: the eight values 2^12 - c, packed, and 4 + 4 + 4 + 1 bytes out.
scalar_encode_signed_13_12(s) ==
    LET blk(i) ==
          LET w == scalar_encode_signed_13_12_words(
                       [j \in 0..7 |-> U32(mod_sub(2^12, s[8 * i + j]))])
          IN  Bytes(w[1], 4) \o Bytes(w[2], 4) \o Bytes(w[3], 4) \o Bytes(w[4], 1)
    IN  Blocks(Degree \div 8, 13, blk)

\* Lines 714-736: a |= b << 20; b >>= 12; b |= c << 8; b |= d << 28; d >>= 4.
scalar_encode_signed_20_19(s) ==
    LET blk(i) ==
          LET x(j) == U32(mod_sub(2^19, s[4 * i + j]))
              a == BitOr(x(0), Shl(x(1), 20))
              b == BitOr(BitOr(Shr(x(1), 12), Shl(x(2), 8)), Shl(x(3), 28))
              d == Shr(x(3), 4)
          IN  Bytes(a, 4) \o Bytes(b, 4) \o Bytes(d, 2)
    IN  Blocks(Degree \div 4, 10, blk)

\* Lines 755-765: v = 4 bytes at 5i, fields of 10 bits, the last spanning in[5i+4].
scalar_decode_10(in) ==
    LET blk(i) ==
          LET v == Load(in, 5 * i, 4)
          IN  <<Val(BitAnd(v, U32(1023))), Val(BitAnd(Shr(v, 10), U32(1023))),
                Val(BitAnd(Shr(v, 20), U32(1023))),
                Val(BitOr(Shr(v, 30), Shl(U32(in[5 * i + 4]), 2)))>>
    IN  Blocks(Degree \div 4, 4, blk)

\* Fault model: the mask of line 778 without msbs >> 3.
NibbleMask_two(v) ==
    LET msbs == BitAnd(v, kNibbleMsbs)
    IN  BitOr(Shr(msbs, 1), Shr(msbs, 2))

\* Lines 776-778: msbs = v & 0x88888888; mask = msbs>>1 | msbs>>2 | msbs>>3.
NibbleMask(v) ==
    LET msbs == BitAnd(v, kNibbleMsbs)
    IN  BitOr(BitOr(Shr(msbs, 1), Shr(msbs, 2)), Shr(msbs, 3))

(***************************************************************************)
(* Lines 769-795: for each 4-byte word, fail when mask & v != 0, else the  *)
(* eight coefficients mod_sub(4, nibble).  The result is whether the call  *)
(* returns 1 and, when it does, the scalar.                                *)
(***************************************************************************)
scalar_decode_signed_4_4(out, in) ==
    LET v(i) == Load(in, 4 * i, 4)
        nibble(i, j) == IF j = 8 THEN Shr(v(i), 28)
                        ELSE BitAnd(Shr(v(i), 4 * (j - 1)), U32(15))
        blk(i) == [j \in 1..8 |-> mod_sub(4, Val(nibble(i, j)))]
        bad(i) == \E k \in Bits32 : BitAnd(NibbleMask(v(i)), v(i))[k] = 1
        \* the block whose test returns 0, or Degree / 8 when none does
        n == CHOOSE n \in 0..(Degree \div 8) :
                 /\ n < Degree \div 8 => bad(n)
                 /\ \A i \in 0..(n - 1) : ~bad(i)
        dec == Blocks(Degree \div 8, 8, blk)
    IN  [ok |-> n = Degree \div 8,
         c  |-> [k \in 0..(Degree - 1) |-> IF k \div 8 < n THEN dec[k] ELSE out[k]]]

\* Lines 799-824: three words and a byte at 13i; 13-bit fields, two spanning words.
scalar_decode_signed_13_12(in) ==
    LET blk(i) ==
          LET a == Load(in, 13 * i, 4)     b == Load(in, 13 * i + 4, 4)
              c == Load(in, 13 * i + 8, 4) d == U32(in[13 * i + 12])
              m13 == U32(2^13 - 1)         m7 == U32(2^7 - 1)
              f == <<BitAnd(a, m13), BitAnd(Shr(a, 13), m13),
                     BitOr(Shr(a, 26), Shl(BitAnd(b, m7), 6)), BitAnd(Shr(b, 7), m13),
                     BitOr(Shr(b, 20), Shl(BitAnd(c, U32(1)), 12)),
                     BitAnd(Shr(c, 1), m13), BitAnd(Shr(c, 14), m13),
                     BitOr(Shr(c, 27), Shl(d, 5))>>
          IN  [j \in 1..8 |-> mod_sub(2^12, Val(f[j]))]
    IN  Blocks(Degree \div 8, 8, blk)

\* Lines 828-847: two words and a uint16_t at 10i; 20-bit fields.
scalar_decode_signed_20_19(in) ==
    LET blk(i) ==
          LET a == Load(in, 10 * i, 4) b == Load(in, 10 * i + 4, 4)
              c == Load(in, 10 * i + 8, 2)
              m20 == U32(2^20 - 1)
              f == <<BitAnd(a, m20), BitOr(Shr(a, 20), Shl(BitAnd(b, U32(255)), 12)),
                     BitAnd(Shr(b, 8), m20), BitOr(Shr(b, 28), Shl(c, 4))>>
          IN  [j \in 1..4 |-> mod_sub(2^19, Val(f[j]))]
    IN  Blocks(Degree \div 4, 4, blk)

\* scalar_encode_signed (739-752) and scalar_decode_signed (850-866): the
\* specialised function for bits (max is 4, 2^12 or 2^19 to match).
scalar_encode_signed(s, bits) ==
    CASE bits = 4  -> scalar_encode_signed_4_4(s)
      [] bits = 20 -> scalar_encode_signed_20_19(s)
      [] bits = 13 -> scalar_encode_signed_13_12(s)

scalar_decode_signed(out, in, bits) ==
    CASE bits = 4  -> scalar_decode_signed_4_4(out, in)
      [] bits = 13 -> [ok |-> TRUE, c |-> scalar_decode_signed_13_12(in)]
      [] bits = 20 -> [ok |-> TRUE, c |-> scalar_decode_signed_20_19(in)]

-----------------------------------------------------------------------------
(***************************************************************************)
(* The vector wrappers (lines 1060-1104): entry i of a vector (a function  *)
(* from 0..X-1 to scalars) is encoded into, or decoded from, the bytes at  *)
(* out + i * bits * kDegree / 8 of one buffer.                             *)
(***************************************************************************)
\* Fault model: i * (bits / 8) * kDegree, the division done first.
VectorOffset_div(i, bits) == i * (bits \div 8) * Degree

VectorOffset(i, bits) == (i * bits * Degree) \div 8

\* A scalar encoder writing its bytes at out + off.
WriteAt(out, off, bytes) ==
    [k \in DOMAIN out |-> IF k - off \in DOMAIN bytes THEN bytes[k - off] ELSE out[k]]

\* The n bytes a scalar decoder reads at in + off.
ReadAt(in, off, n) == [k \in 0..(n - 1) |-> in[off + k]]

\* for (i = ...; i < X; i++): entry i's encoding enc[i] written at its offset.
RECURSIVE VectorWrite(_, _, _, _)
VectorWrite(out, enc, bits, i) ==
    IF i \notin DOMAIN enc THEN out
    ELSE VectorWrite(WriteAt(out, VectorOffset(i, bits), enc[i]), enc, bits, i + 1)

\* vector_encode (1060-1071): scalar_encode_4 or scalar_encode_10.
vector_encode(out, a, bits) ==
    VectorWrite(out, [i \in DOMAIN a |-> IF bits = 4 THEN scalar_encode_4(a[i])
                                                     ELSE scalar_encode_10(a[i])], bits, 0)

\* vector_encode_signed (1087-1092).
vector_encode_signed(out, a, bits) ==
    VectorWrite(out, [i \in DOMAIN a |-> scalar_encode_signed(a[i], bits)], bits, 0)

\* vector_decode_10 (1075-1079).
vector_decode_10(out, in) ==
    [i \in DOMAIN out |->
        scalar_decode_10(ReadAt(in, VectorOffset(i, 10), (10 * Degree) \div 8))]

\* vector_decode_signed (1095-1104): returns 0 at the first entry that fails,
\* that entry partly written and the later ones untouched.
RECURSIVE VectorDecodeSignedFrom(_, _, _, _)
VectorDecodeSignedFrom(out, in, bits, i) ==
    IF i \notin DOMAIN out THEN [ok |-> TRUE, v |-> out]
    ELSE LET r  == scalar_decode_signed(out[i],
                       ReadAt(in, VectorOffset(i, bits), (bits * Degree) \div 8), bits)
             v2 == [out EXCEPT ![i] = r.c]
         IN  IF r.ok THEN VectorDecodeSignedFrom(v2, in, bits, i + 1)
             ELSE [ok |-> FALSE, v |-> v2]

vector_decode_signed(out, in, bits) == VectorDecodeSignedFrom(out, in, bits, 0)

-----------------------------------------------------------------------------
(***************************************************************************)
(* FIPS 204 Algorithms 16-19 over bit strings: SimpleBitPack writes the    *)
(* width-bit little-endian representations of the coefficients one after  *)
(* another and BitsToBytes groups the bits by eight, low bit first.        *)
(* BitPack with bound b packs b - w; the unpackers invert both.            *)
(***************************************************************************)
FIPSBit(vals, width, m) == (vals[m \div width] \div 2^(m % width)) % 2

FIPSSimpleBitPack(vals, width) ==
    [j \in 0..((Degree * width) \div 8 - 1) |->
        LET RECURSIVE B(_) B(t) == IF t = 8 THEN 0
                                   ELSE FIPSBit(vals, width, 8 * j + t) * 2^t + B(t + 1)
        IN  B(0)]

\* BitPack(w, a, b): the coefficients as integers in [-a, b], packed as b - w.
FIPSBitPack(s, width, b) ==
    FIPSSimpleBitPack([k \in 0..(Degree - 1) |-> b - Centered(s[k])], width)

FIPSSimpleBitUnpack(bytes, width) ==
    [k \in 0..(Degree - 1) |->
        LET RECURSIVE B(_) B(t) == IF t = width THEN 0
                                   ELSE FIPSBit(bytes, 8, width * k + t) * 2^t + B(t + 1)
        IN  B(0)]

\* BitUnpack(v, a, b): b minus each field, as an element of Z_q.
FIPSBitUnpack(bytes, width, b) ==
    [k \in 0..(Degree - 1) |-> ToField(b - FIPSSimpleBitUnpack(bytes, width)[k])]

=============================================================================

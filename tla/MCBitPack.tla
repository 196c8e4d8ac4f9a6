------------------------------ MODULE MCBitPack ------------------------------
(***************************************************************************)
(* One call of a bit packer or unpacker of BitPack, compared with FIPS 204 *)
(* SimpleBitPack / BitPack / SimpleBitUnpack / BitUnpack.                  *)
(*                                                                         *)
(* Every output bit of these functions is one input bit moved (shifts, ORs *)
(* of disjoint fields, masks; no carries), so an input that differs from a *)
(* uniform background in a single bit shows where that bit goes.  The     *)
(* arguments are such inputs: each bit of each coefficient (or byte) set   *)
(* over an all-zero background and cleared over an all-ones one.  The      *)
(* signed encoders take the field elements whose offset value b - c is     *)
(* that pattern, and the eta = 4 coders every nibble value in each place.  *)
(***************************************************************************)
EXTENDS BitPack

VARIABLES call, result, pc

vars == <<call, result, pc>>

Coeffs == 0..(Degree - 1)

\* Bit t of an all-zero (bg = 0) or all-ones (bg = 2^width - 1) value flipped.
Flip(bg, t) == IF bg = 0 THEN 2^t ELSE bg - 2^t

\* Arrays of n values of width bits that differ from a background in one bit.
OneBit(n, width) ==
    {[k \in 0..(n - 1) |-> IF k = j THEN Flip(bg, t) ELSE bg] :
        j \in 0..(n - 1), t \in 0..(width - 1), bg \in {0, 2^width - 1}}

\* Arrays of eta = 4 values (0..8 as b - c, or nibbles 0..15) in one place.
OneValue(vals) ==
    {[k \in Coeffs |-> IF k = j THEN v ELSE bg] : j \in Coeffs, v \in vals, bg \in {0, 8}}

\* A signed coefficient array given by its offset values b - c.
Offset(b, raw) == [k \in Coeffs |-> ToField(b - raw[k])]

\* Bytes holding the nibbles of an array, low nibble first.
NibbleBytes(nib) == [k \in 0..(Degree \div 2 - 1) |-> nib[2 * k] + 16 * nib[2 * k + 1]]

\* What the caller's scalar (or buffer) held before: 5 is no mod_sub(4, nibble).
Stale == [k \in Coeffs |-> 5]

\* Vectors of two entries.  Two distinct non-constant width-bit arrays, in
\* both orders, show where each entry lands; an entry's bits are already
\* placed by the scalar codec (checked on every single-bit input above).
Ramp(width) == [k \in Coeffs |-> k % 2^width]
Fall(width) == [k \in Coeffs |-> 2^width - 1 - (k % 2^width)]
Pairs(x, y) == {[i \in 0..1 |-> IF i = 0 THEN x ELSE y], [i \in 0..1 |-> IF i = 0 THEN y ELSE x]}

\* Byte buffers holding two entries of n bytes each.
VecBytes(n) == {[k \in 0..(2 * n - 1) |-> (7 * k + 3) % 256],
                [k \in 0..(2 * n - 1) |-> (255 - 5 * k) % 256]}

\* Nibble arrays: all valid, a 9 in the first 8-coefficient block, a 15 in
\* the second.
Good == Ramp(3)
BadFirst == [Good EXCEPT ![3] = 9]
BadLater == [Good EXCEPT ![12] = 15]

\* Two byte or coefficient arrays of n entries one after the other.
Joined(x, y, n) == [k \in 0..(2 * n - 1) |-> IF k < n THEN x[k] ELSE y[k - n]]

\* The bounds b of BitPack for the signed widths.
Bound(bits) == CASE bits = 4 -> 4 [] bits = 13 -> 2^12 [] bits = 20 -> 2^19

\* Offset values b - c lie in [0, 2b]: 3 bits for eta = 4, all of them else.
RawWidth(bits) == IF bits = 4 THEN 3 ELSE bits

Calls ==
    {[fn |-> "encode_4", arg |-> a] : a \in OneBit(Degree, 4)}
    \cup {[fn |-> "encode_10", arg |-> a] : a \in OneBit(Degree, 10)}
    \cup {[fn |-> "encode_signed_4_4", arg |-> Offset(4, a)] : a \in OneValue(0..8)}
    \cup {[fn |-> "encode_signed_13_12", arg |-> Offset(2^12, a)] : a \in OneBit(Degree, 13)}
    \cup {[fn |-> "encode_signed_20_19", arg |-> Offset(2^19, a)] : a \in OneBit(Degree, 20)}
    \cup {[fn |-> "decode_10", arg |-> a] : a \in OneBit((Degree * 10) \div 8, 8)}
    \cup {[fn |-> "decode_signed_4_4", arg |-> NibbleBytes(a)] : a \in OneValue(0..15)}
    \cup {[fn |-> "decode_signed_13_12", arg |-> a] : a \in OneBit((Degree * 13) \div 8, 8)}
    \cup {[fn |-> "decode_signed_20_19", arg |-> a] : a \in OneBit((Degree * 20) \div 8, 8)}

VectorCalls ==
    UNION {{[fn |-> "vector_encode", bits |-> b, arg |-> v] : v \in Pairs(Ramp(b), Fall(b))} :
              b \in {4, 10}}
    \cup UNION {{[fn |-> "vector_encode_signed", bits |-> b, arg |-> v] :
                   v \in Pairs(Offset(Bound(b), Ramp(RawWidth(b))),
                                Offset(Bound(b), Fall(RawWidth(b))))} :
                  b \in {4, 13, 20}}
    \cup {[fn |-> "vector_decode_10", bits |-> 10, arg |-> in] :
        in \in VecBytes((10 * Degree) \div 8)}
    \cup UNION {{[fn |-> "vector_decode_signed", bits |-> b, arg |-> in] :
                   in \in VecBytes((b * Degree) \div 8)} : b \in {13, 20}}
    \cup {[fn |-> "vector_decode_signed", bits |-> 4,
           arg |-> Joined(NibbleBytes(x), NibbleBytes(y), Degree \div 2)] :
        x \in {Good, BadFirst, BadLater}, y \in {Good, BadFirst, BadLater}}

\* The caller's buffer or vector before the call.
StaleBuffer(c) == [k \in 0..((2 * c.bits * Degree) \div 8 - 1) |-> 170]
StaleVector == [i \in 0..1 |-> Stale]

Run(c) ==
    CASE c.fn = "encode_4"            -> scalar_encode_4(c.arg)
      [] c.fn = "encode_10"           -> scalar_encode_10(c.arg)
      [] c.fn = "encode_signed_4_4"   -> scalar_encode_signed_4_4(c.arg)
      [] c.fn = "encode_signed_13_12" -> scalar_encode_signed_13_12(c.arg)
      [] c.fn = "encode_signed_20_19" -> scalar_encode_signed_20_19(c.arg)
      [] c.fn = "decode_10"           -> scalar_decode_10(c.arg)
      [] c.fn = "decode_signed_4_4"   -> scalar_decode_signed_4_4(Stale, c.arg)
      [] c.fn = "vector_encode"        -> vector_encode(StaleBuffer(c), c.arg, c.bits)
      [] c.fn = "vector_encode_signed" -> vector_encode_signed(StaleBuffer(c), c.arg, c.bits)
      [] c.fn = "vector_decode_10"     -> vector_decode_10(StaleVector, c.arg)
      [] c.fn = "vector_decode_signed" -> vector_decode_signed(StaleVector, c.arg, c.bits)
      [] c.fn = "decode_signed_13_12" -> scalar_decode_signed_13_12(c.arg)
      [] c.fn = "decode_signed_20_19" -> scalar_decode_signed_20_19(c.arg)

Init ==
    /\ call = [fn |-> "none", arg |-> <<>>]
    /\ result = <<>>
    /\ pc = "idle"

\* A caller (vector_encode*, vector_decode*, w1_encode) calls one function.
Call ==
    /\ pc = "idle"
    /\ call' \in Calls \cup VectorCalls
    /\ result' = Run(call')
    /\ pc' = "done"

Next == Call

Spec == Init /\ [][Next]_vars

-----------------------------------------------------------------------------
Encoders == {"encode_4", "encode_10", "encode_signed_4_4", "encode_signed_13_12",
             "encode_signed_20_19"}

FIPSEncode(c) ==
    CASE c.fn = "encode_4"            -> FIPSSimpleBitPack(c.arg, 4)
      [] c.fn = "encode_10"           -> FIPSSimpleBitPack(c.arg, 10)
      [] c.fn = "encode_signed_4_4"   -> FIPSBitPack(c.arg, 4, 4)
      [] c.fn = "encode_signed_13_12" -> FIPSBitPack(c.arg, 13, 2^12)
      [] c.fn = "encode_signed_20_19" -> FIPSBitPack(c.arg, 20, 2^19)

(***************************************************************************)
(* Every packer writes the FIPS 204 byte string: the word assembly of the  *)
(* 13- and 20-bit packers (shifts that let bits fall off a uint32_t, the   *)
(* fields split across words) and the byte layout of the 4- and 10-bit    *)
(* ones place every bit of every coefficient where BitsToBytes puts it.    *)
(***************************************************************************)
EncodeIsFIPS ==
    pc = "done" /\ call.fn \in Encoders => result = FIPSEncode(call)

\* The first 8-coefficient block of a nibble array with a nibble above 8,
\* or Degree / 8 when there is none.
FirstBadBlock(bytes) ==
    LET nib == FIPSSimpleBitUnpack(bytes, 4)
    IN  CHOOSE n \in 0..(Degree \div 8) :
            /\ n < Degree \div 8 => \E k \in (8 * n)..(8 * n + 7) : nib[k] > 8
            /\ \A k \in 0..(8 * n - 1) : nib[k] <= 8

\* BitUnpack for eta = 4 of the blocks before the first bad one, the rest
\* of the caller's scalar unchanged.
PartialUnpack(old, bytes) ==
    [k \in Coeffs |-> IF k \div 8 < FirstBadBlock(bytes)
                      THEN FIPSBitUnpack(bytes, 4, 4)[k] ELSE old[k]]

(***************************************************************************)
(* Every unpacker returns the FIPS 204 coefficients of its input.  The     *)
(* eta = 4 unpacker, whose branch-free test (lines 776-781) checks eight   *)
(* nibbles at once, fails exactly when a nibble is 9 or more, i.e. when    *)
(* BitUnpack gives a coefficient outside [-4, 4] (spec: "MUST reject any   *)
(* nibble >= 9"), having written the FIPS coefficients of the blocks      *)
(* before the bad one and nothing after it (the early return of 780-782). *)
(***************************************************************************)
DecodeIsFIPS ==
    pc = "done" =>
      CASE call.fn = "decode_10" -> result = FIPSSimpleBitUnpack(call.arg, 10)
        [] call.fn = "decode_signed_13_12" -> result = FIPSBitUnpack(call.arg, 13, 2^12)
        [] call.fn = "decode_signed_20_19" -> result = FIPSBitUnpack(call.arg, 20, 2^19)
        [] call.fn = "decode_signed_4_4" ->
             /\ result.ok = \A k \in Coeffs : FIPSSimpleBitUnpack(call.arg, 4)[k] <= 8
             /\ result.c = PartialUnpack(Stale, call.arg)
        [] OTHER -> TRUE

\* Entry i of a two-entry buffer of n-byte encodings.
Part(bytes, i, n) == [k \in 0..(n - 1) |-> bytes[i * n + k]]

EntryOK(bytes, bits) == bits # 4 \/ FirstBadBlock(bytes) = Degree \div 8

(***************************************************************************)
(* The vector wrappers lay the entries out one after the other, each at    *)
(* i * bits * kDegree / 8 (lines 1061-1101): encoding a vector writes the  *)
(* FIPS encodings of its entries back to back, leaving no stale byte, and  *)
(* decoding reads each entry from the same place.  vector_decode_signed    *)
(* returns 0 exactly when some entry has a nibble >= 9, with the entries   *)
(* before it decoded, that entry partly written, and the later ones as the *)
(* caller left them.                                                       *)
(***************************************************************************)
VectorCodecIsFIPS ==
    pc = "done" =>
      LET b == call.bits
          n == (b * Degree) \div 8
          a == call.arg
      IN  CASE call.fn = "vector_encode" ->
                 result = Joined(FIPSSimpleBitPack(a[0], b), FIPSSimpleBitPack(a[1], b), n)
            [] call.fn = "vector_encode_signed" ->
                 result = Joined(FIPSBitPack(a[0], b, Bound(b)), FIPSBitPack(a[1], b, Bound(b)), n)
            [] call.fn = "vector_decode_10" ->
                 result = [i \in 0..1 |-> FIPSSimpleBitUnpack(Part(a, i, n), 10)]
            [] call.fn = "vector_decode_signed" ->
                 LET f == CHOOSE f \in 0..2 :
                              /\ f < 2 => ~EntryOK(Part(a, f, n), b)
                              /\ \A i \in 0..(f - 1) : EntryOK(Part(a, i, n), b)
                 IN  /\ result.ok = (f = 2)
                     /\ \A i \in 0..1 :
                          result.v[i] = CASE i < f -> FIPSBitUnpack(Part(a, i, n), b, Bound(b))
                                          [] i = f -> PartialUnpack(Stale, Part(a, i, n))
                                          [] OTHER -> Stale
            [] OTHER -> TRUE

=============================================================================

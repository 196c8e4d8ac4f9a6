---------------------------- MODULE Asn1Integer ----------------------------
(***************************************************************************)
(* The INTEGER / ENUMERATED codec of crypto/asn1/a_int.c acting on one     *)
(* ASN1_INTEGER object owned by a caller.  The object is a record of its   *)
(* type (a base type and the V_ASN1_NEG bit) and its data bytes, which the *)
(* code reads as a big-endian magnitude.  Each action is one call of the   *)
(* file's API on the object; "last" records what the call returned.        *)
(*                                                                         *)
(* The width of uint64_t and of long is scaled to WordBytes bytes: long is *)
(* the two's complement range of 8*WordBytes bits, and uint64_t arithmetic *)
(* is modulo 2^(8*WordBytes).  Every allocation the code makes (malloc in  *)
(* asn1_string_set_uint64, ASN1_STRING_set, BN_bin2bn) may fail.           *)
(*                                                                         *)
(* CBS_is_valid_asn1_integer and ASN1_STRING_cmp live outside this         *)
(* repository and are modelled by their documented contracts.              *)
(***************************************************************************)
EXTENDS Integers, Sequences
LOCAL INSTANCE SequencesExt

CONSTANTS
    WordBytes,   \* sizeof(uint64_t) = sizeof(long), scaled
    DERInputs,   \* byte strings handed to c2i_ASN1_INTEGER
    RawInputs,   \* data a caller stores with ASN1_STRING_set
    LongInputs,  \* long values handed to ASN1_{INTEGER,ENUMERATED}_set
    Uint64Inputs, \* uint64_t values handed to ASN1_{INTEGER,ENUMERATED}_set_uint64
    BnInputs     \* BIGNUM values handed to BN_to_ASN1_{INTEGER,ENUMERATED}

Word == 2^(8 * WordBytes)
LONG_MAX == Word \div 2 - 1
LONG_MIN == -(Word \div 2)

Bases == {"INTEGER", "ENUMERATED"}

VARIABLES obj, last

vars == <<obj, last>>

\* The big-endian magnitude of a byte string.
BE(s) == FoldLeft(LAMBDA acc, b : acc * 256 + b, 0, s)

\* The integer an ASN1_INTEGER stands for (sign and magnitude).
Value(a) == IF a.type.neg THEN -BE(a.data) ELSE BE(a.data)

\* The result of a call.
Call(op, ok, arg, bytes, res) ==
    [op |-> op, ok |-> ok, arg |-> arg, bytes |-> bytes, res |-> res]

-----------------------------------------------------------------------------
\* is_all_zeros (lines 110-117).
is_all_zeros(s) == \A i \in DOMAIN s : s[i] = 0

(***************************************************************************)
(* negate_twos_complement (lines 100-108): from the last byte to the       *)
(* first, buf[i] = 0 - borrow - t as a uint8_t, and borrow |= t != 0.      *)
(***************************************************************************)
RECURSIVE NegateFrom(_, _, _)
NegateFrom(buf, i, borrow) ==
    IF i = 0 THEN buf
    ELSE LET t == buf[i]
         IN  NegateFrom([buf EXCEPT ![i] = (0 - borrow - t) % 256], i - 1,
                        IF t # 0 THEN 1 ELSE borrow)

negate_twos_complement(buf) == NegateFrom(buf, Len(buf), 0)

(***************************************************************************)
(* CBS_is_valid_asn1_integer (external): the contents of a DER INTEGER     *)
(* are non-empty and minimal (no leading 0x00 before a byte below 0x80, no *)
(* leading 0xff before a byte of 0x80 or more); the value is negative when *)
(* the first byte has its high bit set.                                    *)
(***************************************************************************)
CBS_is_valid_asn1_integer(b) ==
    [valid |-> /\ Len(b) > 0
               /\ Len(b) > 1 => ~(b[1] = 0 /\ b[2] < 128)
               /\ Len(b) > 1 => ~(b[1] = 255 /\ b[2] >= 128),
     neg   |-> Len(b) > 0 /\ b[1] >= 128]

\* The number of leading zero bytes of s (the loops of lines 129 and 299).
LeadingZeros(s) ==
    LET nz == {i \in DOMAIN s : s[i] # 0}
    IN  IF nz = {} THEN Len(s) ELSE (CHOOSE i \in nz : \A j \in nz : i <= j) - 1

(***************************************************************************)
(* i2c_ASN1_INTEGER (lines 119-175) with outp non-NULL: the DER contents   *)
(* bytes it writes.  Leading zero bytes of the object are skipped; zero    *)
(* becomes the single byte 0 and is never negative; a pad byte is added    *)
(* when the magnitude's top bit would give the wrong sign; negative values *)
(* are negated in place.  The INT_MAX length check (153) cannot fire on    *)
(* the bounded lengths of the model.                                       *)
(***************************************************************************)
\* Fault model: a negative magnitude 0x80 00..00 padded like 0x80 00..01.
NegPad_ge(first, more) == first >= 128

\* The pad rule for a negative magnitude of first byte "first" (lines 144-146).
NegPad(first, more) == first > 128 \/ (first = 128 /\ ~is_all_zeros(more))

i2c_ASN1_INTEGER(in) ==
    LET start == LeadingZeros(in.data)
        rest  == SubSeq(in.data, start + 1, Len(in.data))
        zero  == start >= Len(in.data)
        isNeg == in.type.neg /\ ~zero
        pad   == CASE zero        -> TRUE
                   [] in.type.neg -> NegPad(rest[1], Tail(rest))
                   [] OTHER       -> rest[1] >= 128
        out   == (IF pad THEN <<0>> ELSE <<>>) \o rest
    IN  IF isNeg THEN negate_twos_complement(out) ELSE out

(***************************************************************************)
(* c2i_ASN1_INTEGER (lines 177-253) on valid input: the sign and the       *)
(* sign-and-magnitude data it stores.  A negative encoding loses a leading *)
(* 0xff unless all bytes after it are zero; a non-negative one loses a     *)
(* leading 0x00; the rest is negated when negative.                        *)
(***************************************************************************)
\* Fault model: the leading 0x00 of a non-negative encoding kept.
c2i_ASN1_INTEGER_keep0(b) ==
    LET neg  == CBS_is_valid_asn1_integer(b).neg
        body == IF neg /\ b[1] = 255 /\ ~is_all_zeros(Tail(b)) THEN Tail(b) ELSE b
    IN  [neg |-> neg, data |-> IF neg THEN negate_twos_complement(body) ELSE body]

\* Fault model: the negative magnitude stored without the negation of 232.
c2i_ASN1_INTEGER_noneg(b) ==
    LET neg  == CBS_is_valid_asn1_integer(b).neg
        body == IF neg
                THEN IF b[1] = 255 /\ ~is_all_zeros(Tail(b)) THEN Tail(b) ELSE b
                ELSE IF b[1] = 0 THEN Tail(b) ELSE b
    IN  [neg |-> neg, data |-> body]

c2i_ASN1_INTEGER(b) ==
    LET neg  == CBS_is_valid_asn1_integer(b).neg
        body == IF neg
                THEN IF b[1] = 255 /\ ~is_all_zeros(Tail(b)) THEN Tail(b) ELSE b
                ELSE IF b[1] = 0 THEN Tail(b) ELSE b
    IN  [neg |-> neg, data |-> IF neg THEN negate_twos_complement(body) ELSE body]

(***************************************************************************)
(* asn1_string_set_uint64 (lines 283-309): the WordBytes big-endian bytes  *)
(* of v (CRYPTO_bswap8 and memcpy) with the leading zeros moved out.       *)
(***************************************************************************)
asn1_string_set_uint64(v) ==
    LET bytes == [i \in 1..WordBytes |-> (v \div 256^(WordBytes - i)) % 256]
    IN  SubSeq(bytes, LeadingZeros(bytes) + 1, WordBytes)

(***************************************************************************)
(* ASN1_INTEGER_set / ASN1_ENUMERATED_set (lines 255-281): a negative v is *)
(* stored as the magnitude 0 - (uint64_t)v with the NEG type.              *)
(***************************************************************************)
ASN1_INTEGER_set(v, base) ==
    [type |-> [base |-> base, neg |-> v < 0],
     data |-> asn1_string_set_uint64(IF v >= 0 THEN v ELSE (0 - (v % Word)) % Word)]

(***************************************************************************)
(* asn1_string_get_long (lines 321-358): -1 for the wrong type, for more   *)
(* than sizeof(uint64_t) bytes and for a magnitude above LONG_MAX;         *)
(* otherwise the magnitude, negated when the type has V_ASN1_NEG.          *)
(***************************************************************************)
asn1_string_get_long(a, base) ==
    LET r64 == BE(a.data)
    IN  CASE a.type.base # base      -> -1
          [] Len(a.data) > WordBytes -> -1
          [] r64 > LONG_MAX          -> -1
          [] a.type.neg              -> -r64
          [] OTHER                   -> r64

\* The int type field: V_ASN1_INTEGER 2, V_ASN1_ENUMERATED 10, V_ASN1_NEG 0x100.
TypeCode(t) == (IF t.base = "INTEGER" THEN 2 ELSE 10) + (IF t.neg THEN 256 ELSE 0)

\* The sign of an int result.
Sign(x) == IF x > 0 THEN 1 ELSE IF x < 0 THEN -1 ELSE 0

(***************************************************************************)
(* ASN1_STRING_cmp (external, not a BIT STRING): shorter data first, then  *)
(* memcmp of the data, then the type field.                                *)
(***************************************************************************)
ASN1_STRING_cmp(x, y) ==
    LET diff == {i \in DOMAIN x.data : x.data[i] # y.data[i]}
        i0   == CHOOSE i \in diff : \A j \in diff : i <= j
    IN  CASE Len(x.data) # Len(y.data) -> Sign(Len(x.data) - Len(y.data))
          [] diff # {}                 -> Sign(x.data[i0] - y.data[i0])
          [] OTHER                     -> Sign(TypeCode(x.type) - TypeCode(y.type))

(***************************************************************************)
(* ASN1_INTEGER_cmp (lines 74-96): different signs order by sign; equal    *)
(* signs use ASN1_STRING_cmp, whose result is reversed for negatives.      *)
(***************************************************************************)
\* Fault model: the result of ASN1_STRING_cmp not reversed for negatives.
ASN1_INTEGER_cmp_noflip(x, y) ==
    IF x.type.neg # y.type.neg
    THEN IF x.type.neg THEN -1 ELSE 1
    ELSE ASN1_STRING_cmp(x, y)

ASN1_INTEGER_cmp(x, y) ==
    IF x.type.neg # y.type.neg
    THEN IF x.type.neg THEN -1 ELSE 1
    ELSE LET ret == ASN1_STRING_cmp(x, y)
         IN  IF x.type.neg THEN -ret ELSE ret

\* The shortest big-endian bytes of n >= 0 (BN_num_bytes and BN_bn2bin_padded).
RECURSIVE MagnitudeBytes(_)
MagnitudeBytes(n) ==
    IF n = 0 THEN <<>> ELSE MagnitudeBytes(n \div 256) \o <<n % 256>>

(***************************************************************************)
(* bn_to_asn1_string (lines 370-402) into the caller's object: the type is *)
(* written first (line 384), then ASN1_STRING_set allocates the data.      *)
(***************************************************************************)
bn_to_asn1_type(bn, base) == [base |-> base, neg |-> bn < 0 /\ bn # 0]

bn_to_asn1_string(bn, base) ==
    [type |-> bn_to_asn1_type(bn, base),
     data |-> MagnitudeBytes(IF bn < 0 THEN -bn ELSE bn)]

(***************************************************************************)
(* asn1_string_to_bn (lines 414-427): the BIGNUM of the magnitude,         *)
(* negative when the type has V_ASN1_NEG (BN_set_negative leaves zero      *)
(* non-negative).  The type check is the guard of the ToBn action.         *)
(***************************************************************************)
\* Fault model: the BN_set_negative of line 425 left out.
asn1_string_to_bn_noneg(a) == BE(a.data)

asn1_string_to_bn(a) == IF a.type.neg THEN -BE(a.data) ELSE BE(a.data)

-----------------------------------------------------------------------------
\* ASN1_INTEGER_new: type V_ASN1_INTEGER, no data.
Init ==
    /\ obj = [type |-> [base |-> "INTEGER", neg |-> FALSE], data |-> <<>>]
    /\ last = Call("new", TRUE, 0, <<>>, 0)

(***************************************************************************)
(* c2i_ASN1_INTEGER(&obj, &p, len): invalid contents are refused before    *)
(* the object is touched; ASN1_STRING_set may then fail, which returns     *)
(* NULL and leaves the caller's object as it was (line 249).               *)
(***************************************************************************)
C2i(b) ==
    LET r == c2i_ASN1_INTEGER(b)
    IN  IF ~CBS_is_valid_asn1_integer(b).valid
        THEN /\ last' = Call("c2i", FALSE, 0, b, 0)
             /\ UNCHANGED obj
        ELSE \/ /\ obj' = [type |-> [base |-> "INTEGER", neg |-> r.neg],
                           data |-> r.data]
                /\ last' = Call("c2i", TRUE, 0, b, 0)
             \/ /\ last' = Call("c2i", FALSE, 0, b, 0)
                /\ UNCHANGED obj

\* i2c_ASN1_INTEGER(obj, &p): writes the contents bytes.
I2c_call ==
    /\ last' = Call("i2c", TRUE, 0, i2c_ASN1_INTEGER(obj), 0)
    /\ UNCHANGED obj

\* ASN1_INTEGER_set / ASN1_ENUMERATED_set: the malloc of line 285 may fail
\* before anything is written.
Set(v, base) ==
    \/ /\ obj' = ASN1_INTEGER_set(v, base)
       /\ last' = Call("set", TRUE, v, <<>>, 0)
    \/ /\ last' = Call("set", FALSE, v, <<>>, 0)
       /\ UNCHANGED obj

\* ASN1_INTEGER_set_uint64 / ASN1_ENUMERATED_set_uint64 (lines 311-319).
SetUint64(u, base) ==
    \/ /\ obj' = [type |-> [base |-> base, neg |-> FALSE],
                  data |-> asn1_string_set_uint64(u)]
       /\ last' = Call("set_uint64", TRUE, u, <<>>, 0)
    \/ /\ last' = Call("set_uint64", FALSE, u, <<>>, 0)
       /\ UNCHANGED obj

\* ASN1_INTEGER_get / ASN1_ENUMERATED_get.
Get(base) ==
    /\ last' = Call(IF base = "INTEGER" THEN "get" ELSE "get_enum", TRUE, 0, <<>>,
                    asn1_string_get_long(obj, base))
    /\ UNCHANGED obj

\* ASN1_INTEGER_cmp(obj, y) with y made by ASN1_INTEGER_set(y, v).
Cmp(v) ==
    /\ last' = Call("cmp", TRUE, v, <<>>,
                    ASN1_INTEGER_cmp(obj, ASN1_INTEGER_set(v, "INTEGER")))
    /\ UNCHANGED obj

(***************************************************************************)
(* BN_to_ASN1_INTEGER(bn, obj) / BN_to_ASN1_ENUMERATED(bn, obj): when     *)
(* ASN1_STRING_set fails the function returns NULL after it has written    *)
(* the new type into the caller's object, which keeps its old data.        *)
(***************************************************************************)
FromBn(bn, base) ==
    \/ /\ obj' = bn_to_asn1_string(bn, base)
       /\ last' = Call("from_bn", TRUE, bn, <<>>, 0)
    \/ /\ obj' = [obj EXCEPT !.type = bn_to_asn1_type(bn, base)]
       /\ last' = Call("from_bn", FALSE, bn, <<>>, 0)

(***************************************************************************)
(* ASN1_INTEGER_to_BN / ASN1_ENUMERATED_to_BN: NULL for the wrong base     *)
(* type (line 416) or when BN_bin2bn fails to allocate.                    *)
(***************************************************************************)
ToBn(base) ==
    /\ \/ /\ obj.type.base = base
          /\ last' = Call("to_bn", TRUE, 0, <<>>, asn1_string_to_bn(obj))
       \/ last' = Call("to_bn", FALSE, 0, <<>>, 0)
    /\ UNCHANGED obj

\* A caller stores arbitrary data with ASN1_STRING_set and sets the type,
\* which can make a non-minimal object (the case line 125 guards against).
CallerSetsString(d, neg) ==
    /\ obj' = [type |-> [base |-> "INTEGER", neg |-> neg], data |-> d]
    /\ last' = Call("raw", TRUE, 0, <<>>, 0)

Next ==
    \/ \E b \in DERInputs : C2i(b)
    \/ I2c_call
    \/ \E v \in LongInputs, base \in Bases : Set(v, base)
    \/ \E u \in Uint64Inputs, base \in Bases : SetUint64(u, base)
    \/ \E base \in Bases : Get(base)
    \/ \E v \in LongInputs : Cmp(v)
    \/ \E bn \in BnInputs, base \in Bases : FromBn(bn, base)
    \/ \E base \in Bases : ToBn(base)
    \/ \E d \in RawInputs, neg \in BOOLEAN : CallerSetsString(d, neg)

Spec == Init /\ [][Next]_vars

-----------------------------------------------------------------------------
(***************************************************************************)
(* Reference definitions (not code): the integer that DER contents bytes   *)
(* encode in two's complement, and minimality: a first byte is redundant   *)
(* exactly when the bytes after it encode the same integer.                *)
(***************************************************************************)
SignedBE(b) == BE(b) - (IF Len(b) > 0 /\ b[1] >= 128 THEN 256^Len(b) ELSE 0)

IsMinimalDER(b) == Len(b) > 0 /\ (Len(b) > 1 => SignedBE(Tail(b)) # SignedBE(b))

\* The minimal sign-and-magnitude form the asserts of lines 238-240 expect.
Minimal(a) == /\ a.data # <<>> => a.data[1] # 0
              /\ a.type.neg => a.data # <<>>

(***************************************************************************)
(* Whenever c2i_ASN1_INTEGER, ASN1_INTEGER_set(_uint64) or                 *)
(* BN_to_ASN1_INTEGER has just succeeded, the object is in minimal form:   *)
(* no leading zero byte and no negative zero (the asserts at lines 238     *)
(* and 240, and the stripping of lines 210-224 and 298-306).               *)
(***************************************************************************)
StoredObjectIsMinimal ==
    last.ok /\ last.op \in {"c2i", "set", "set_uint64", "from_bn"} => Minimal(obj)

(***************************************************************************)
(* c2i_ASN1_INTEGER accepts exactly the minimal DER contents and the       *)
(* object it produces denotes the two's complement integer they encode,    *)
(* across the 0xff-stripping rule of line 215; ASN1_INTEGER_set and        *)
(* BN_to_ASN1_INTEGER store the integer they were given.                   *)
(***************************************************************************)
StoreDenotesInput ==
    /\ last.op = "c2i" /\ ~IsMinimalDER(last.bytes) => ~last.ok
    /\ last.op = "c2i" /\ last.ok => Value(obj) = SignedBE(last.bytes)
    /\ last.op \in {"set", "set_uint64", "from_bn"} /\ last.ok => Value(obj) = last.arg

(***************************************************************************)
(* i2c_ASN1_INTEGER writes minimal DER contents that encode the object's   *)
(* integer, for every object including the non-minimal ones a caller can   *)
(* build: leading zeros, negative zero, and the 0x80 00..00 magnitudes     *)
(* whose padding rule (line 144) differs from their neighbours'.           *)
(***************************************************************************)
EncodingIsMinimalDER ==
    last.op = "i2c" =>
        /\ IsMinimalDER(last.bytes)
        /\ SignedBE(last.bytes) = Value(obj)

(***************************************************************************)
(* ASN1_INTEGER_cmp orders minimal INTEGER objects as the integers they    *)
(* denote, negative ones included (the reversal of lines 83-92).           *)
(***************************************************************************)
CmpOrdersValues ==
    last.op = "cmp" /\ Minimal(obj) /\ obj.type.base = "INTEGER" =>
        last.res = Sign(Value(obj) - last.arg)

(***************************************************************************)
(* ASN1_INTEGER_get returns the integer of a minimal INTEGER object        *)
(* whenever that integer is a long; -1 is reserved for values that do not  *)
(* fit.                                                                    *)
(***************************************************************************)
GetReturnsValue ==
    last.op = "get" /\ Minimal(obj) /\ obj.type.base = "INTEGER"
        /\ Value(obj) \in LONG_MIN..LONG_MAX => last.res = Value(obj)

(***************************************************************************)
(* A call that reports failure leaves the caller's object as it was, as    *)
(* c2i_ASN1_INTEGER (line 249) and ASN1_INTEGER_set (line 285) do.          *)
(***************************************************************************)
FailedCallLeavesObject == [][~last'.ok => obj' = obj]_vars

=============================================================================

--------------------------- MODULE MCAsn1Integer ---------------------------
(***************************************************************************)
(* Instantiates Asn1Integer with 2-byte words (long is int16_t, uint64_t   *)
(* is uint16_t).  The byte values are the ones the code's decisions turn   *)
(* on: 0x00 and 0x7f below the sign bit, 0x80 exactly at it, and 0xff.   *)
(* DER inputs are every string of up to three of them (three bytes exceed  *)
(* the word, the case asn1_string_get_long refuses); the long and BIGNUM   *)
(* inputs sit at the byte and word boundaries.                             *)
(***************************************************************************)
EXTENDS Asn1Integer

MCByteValues == {0, 127, 128, 255}

StringsUpTo(n) == UNION {[1..k -> MCByteValues] : k \in 0..n}

MCDERInputs == StringsUpTo(3)

MCRawInputs == StringsUpTo(2)

MCLongInputs == {-32768, -32767, -129, -128, -1, 0, 1, 128, 32767}

MCUint64Inputs == {0, 32768, 65535}

MCBnInputs == {-32769, -32768, -128, 0, 128, 32768}

=============================================================================

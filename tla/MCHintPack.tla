----------------------------- MODULE MCHintPack -----------------------------
(***************************************************************************)
(* Checks hint_bit_unpack against hint_bit_pack over every encoding of the *)
(* scaled size: the state is the hint section `in` of a signature that     *)
(* mldsa_parse_signature (line 1319) hands to hint_bit_unpack; the         *)
(* signature bytes come from anyone, so every byte string is an input.     *)
(***************************************************************************)
EXTENDS HintPack, FiniteSets

VARIABLES
    in,      \* the hint section of the signature
    result   \* what hint_bit_unpack returned, or NotParsed

NotParsed == [ok |-> FALSE, parsed |-> FALSE]

\* The encodings of the hint vectors hint_bit_pack accepts (evaluated once).
PackImages == {hint_bit_pack(h) : h \in Hints}

Init ==
    /\ in \in [EncodingIndex -> Bytes]
    /\ result = NotParsed

\* mldsa_parse_signature calls hint_bit_unpack on the bytes.
Parse ==
    /\ result = NotParsed
    /\ result' = hint_bit_unpack(in)
    /\ UNCHANGED in

Next == Parse

Spec == Init /\ [][Next]_<<in, result>>

(***************************************************************************)
(* Non-malleability: hint_bit_unpack accepts an encoding only if it is the *)
(* one hint_bit_pack makes of the hint it returns.  A second encoding of   *)
(* the same hint (positions out of order, a repeated position, non-zero    *)
(* padding, counts that go down) would give a second valid signature.      *)
(***************************************************************************)
UnpackAcceptsOnlyPackImages ==
    result.ok => result.h \in Hints /\ hint_bit_pack(result.h) = in

(***************************************************************************)
(* Completeness: every encoding hint_bit_pack makes, including one with    *)
(* exactly Omega ones, is accepted by hint_bit_unpack and gives back the   *)
(* hint it encodes.                                                        *)
(***************************************************************************)
UnpackAcceptsPackImages ==
    (result # NotParsed /\ in \in PackImages) =>
        result.ok /\ hint_bit_pack(result.h) = in

=============================================================================

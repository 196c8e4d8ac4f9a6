----------------------------- MODULE MCMarshal -----------------------------
(***************************************************************************)
(* Instantiates Marshal with K = 2 and L = 1, so that s1 and s2 have       *)
(* different sizes and a vector field has a polynomial before and after    *)
(* any other.  Inputs are built from the encodings of a key and two        *)
(* signatures: every truncation (so each CBS step in turn runs out), one   *)
(* trailing unit, and an out-of-range nibble in each eta polynomial, in    *)
(* the first block or a later one.  The structs start holding a different  *)
(* key, as a caller's reused struct does.  Key generation runs on one seed *)
(* (a second would only rename it), and private_key_from_seed also on a    *)
(* seed one byte short; the caller's public key array starts holding a     *)
(* stale key.                                                              *)
(***************************************************************************)
EXTENDS Marshal

\* The two payload units, model values so that they compare with the
\* records key generation derives.
CONSTANTS A, B

MCPayloads == {A, B}

PrivA == [rho |-> A, k |-> A, tr |-> A, s1 |-> <<A>>, s2 |-> <<B, A>>,
          t0 |-> <<A, B>>]
PrivB == [rho |-> B, k |-> B, tr |-> B, s1 |-> <<B>>, s2 |-> <<B, B>>,
          t0 |-> <<B, B>>]

EncPriv(p) == <<p.rho, p.k, p.tr>> \o p.s1 \o p.s2 \o p.t0

Prefixes(e) == {SubSeq(e, 1, n) : n \in 0..Len(e)}

WithBad(e, positions) ==
    {[e EXCEPT ![i] = b] : i \in positions, b \in {BadFirst, BadLater}}

MCPrivInputs ==
    Prefixes(EncPriv(PrivA)) \cup {EncPriv(PrivA) \o <<A>>}
        \cup WithBad(EncPriv(PrivA), 4..(3 + L + K))

MCPubInputs == Prefixes(<<A, A, B>>) \cup {<<A, A, B, A>>, <<B, B, B>>}

MCSigInputs == {<<B, A, B>>, <<A, B, BadHint>>}

MCPubStructs == {[rho |-> B, t1 |-> <<B, B>>, tr |-> H(<<B, B, B>>)]}

MCPrivStructs == {PrivB}

MCPubBuffers == {<<B, B, B>>}

MCSigStructs == {[c_tilde |-> B, z |-> <<B>>, h |-> B]}

=============================================================================

----------------------------- MODULE MCSignNonce -----------------------------
(***************************************************************************)
(* The signing loop of a release build (NDEBUG: the assert of line 1040 is *)
(* compiled out) run for as many attempts as it takes kappa past 2^16,     *)
(* with data that every attempt rejects: z = y + cs1 = gamma1 - beta is    *)
(* refused by the first test of line 1537.  The loop of line 1490 has no   *)
(* bound, so the only question is what the nonces do at the limit.        *)
(***************************************************************************)
EXTENDS SignVerify

MCContexts == {<<>>}
MCMessages == {<<>>}
MCYValues == {2^19 - 2 * 196}
MCWValues == {0}
MCCSValues == {196}
MCCT0Values == {0}
MCOtherOnes == {0}

=============================================================================

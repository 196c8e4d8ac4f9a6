-------------------------------- MODULE NTT --------------------------------
(***************************************************************************)
(* The in-place forward transform scalar_ntt of crypto/mldsa/mldsa.cc      *)
(* (lines 275-301) as the loop it is, one step per loop test or butterfly, *)
(* with the Montgomery arithmetic and root table of NTTArith.             *)
(***************************************************************************)
EXTENDS NTTArith

CONSTANT Inputs

VARIABLES
    s,       \* the scalar being transformed in place
    input,   \* the scalar the call started with (history)
    step,    \* the outer loop counter: 1, 2, 4, ..., N/2
    offset,  \* N/2, N/4, ..., 1
    i,       \* the middle loop counter, below step
    k,       \* the first index of block i
    j,       \* the inner loop counter, k .. k + offset - 1
    pc       \* "outer", "middle", "inner" (the next loop test) or "done"

vars == <<s, input, step, offset, i, k, j, pc>>

-----------------------------------------------------------------------------
Init ==
    /\ s \in Inputs
    /\ input = s
    /\ step = 1
    /\ offset = N
    /\ i = 0 /\ k = 0 /\ j = 0
    /\ pc = "outer"

\* for (step = 1; step < N; step <<= 1) { offset >>= 1; k = 0; ...
NTTLayer ==
    /\ pc = "outer" /\ step < N
    /\ offset' = offset \div 2
    /\ k' = 0 /\ i' = 0
    /\ pc' = "middle"
    /\ UNCHANGED <<s, input, step, j>>

NTTFinish ==
    /\ pc = "outer" /\ ~(step < N)
    /\ pc' = "done"
    /\ UNCHANGED <<s, input, step, offset, i, k, j>>

\* for (i = 0; i < step; i++) { step_root = ...; for (j = k; ...
NTTBlock ==
    /\ pc = "middle" /\ i < step
    /\ j' = k
    /\ pc' = "inner"
    /\ UNCHANGED <<s, input, step, offset, i, k>>

NTTLayerEnd ==
    /\ pc = "middle" /\ ~(i < step)
    /\ step' = step * 2
    /\ pc' = "outer"
    /\ UNCHANGED <<s, input, offset, i, k, j>>

\* Fault model: the two outputs of the butterfly stored the other way round.
Butterfly_swapped ==
    LET even == s[j]
        odd  == reduce_montgomery(kNTTRootsMontgomery[step + i] * s[j + offset])
    IN  s' = [s EXCEPT ![j] = mod_sub(even, odd), ![j + offset] = reduce_once(odd + even)]

\* The butterfly (lines 283-295).
Butterfly ==
    LET even == s[j]
        odd  == reduce_montgomery(kNTTRootsMontgomery[step + i] * s[j + offset])
    IN  s' = [s EXCEPT ![j] = reduce_once(odd + even), ![j + offset] = mod_sub(even, odd)]

NTTButterfly ==
    /\ pc = "inner" /\ j < k + offset
    /\ Butterfly
    /\ j' = j + 1
    /\ UNCHANGED <<input, step, offset, i, k, pc>>

\* End of block i: k += 2 * offset and the next i.
NTTBlockEnd ==
    /\ pc = "inner" /\ ~(j < k + offset)
    /\ k' = k + 2 * offset
    /\ i' = i + 1
    /\ pc' = "middle"
    /\ UNCHANGED <<s, input, step, offset, j>>

Next ==
    \/ NTTLayer \/ NTTFinish \/ NTTBlock \/ NTTLayerEnd
    \/ NTTButterfly \/ NTTBlockEnd

\* The loop is sequential code: once called it keeps taking steps.
Spec == Init /\ [][Next]_vars /\ WF_vars(Next)

-----------------------------------------------------------------------------
\* Every coefficient stays below Q between steps, the struct invariant the
\* code's comments (lines 290-292) rely on for reduce_montgomery's bound
\* x <= Q R and reduce_once's bound x < 2Q.
TypeOK ==
    /\ s \in [0..(N - 1) -> 0..(Q - 1)]
    /\ pc \in {"outer", "middle", "inner", "done"}
    /\ step \in 1..N /\ offset \in 1..N

(***************************************************************************)
(* Refinement: the loop implements the one-step transform of NTTSpec.      *)
(* The abstract scalar is the input until the loop ends and the scalar     *)
(* afterwards, so every loop step but the last is a stuttering step, and   *)
(* the loop terminates (the WF of NTTSpec).                                *)
(***************************************************************************)
Abstract == INSTANCE NTTSpec WITH s <- IF pc = "done" THEN s ELSE input,
                                  done <- pc = "done"

ImplementsNTTSpec == Abstract!Spec

=============================================================================

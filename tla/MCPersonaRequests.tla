-------------------------- MODULE MCPersonaRequests --------------------------
(* Instances of PersonaRequests for TLC. *)
EXTENDS PersonaRequests, TLC

Interchangeable == Permutations(Persona) \cup Permutations(Request) \cup Permutations(Key) \cup
                   Permutations(Thing) \cup Permutations(Input)

\* What decides no later step is left out: the answer to a request that is over
\* (NotRevived compares it where it is given), the inputs of old answers (a
\* replay is compared with the record, which is in the view), the names that
\* drafts give.
WhatMatters ==
  <<[r \in Request |-> IF request[r].pc = "idle" THEN Idle ELSE request[r]],
    personaVars, convs, records, made, lockVars, applied,
    {<<v.persona, v.id>> : v \in versions},
    {<<x.op, x.scope, x.key, x.result>> : x \in answers}>>

=============================================================================

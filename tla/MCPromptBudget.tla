---------------------------- MODULE MCPromptBudget ----------------------------
EXTENDS PromptBudget

\* The sequences of at most n members of S.
UpTo(S, n) == UNION {[1 .. m -> S] : m \in 0 .. n}

\* The lengths with which a block is exactly full, and one more.
FoundSpeech == UpTo({558, 559, 597}, 2)
FoundBody == UpTo({2460, 2480}, 2)
NothingFound == {<<>>}
Roles == {"user", "assistant"}
Turns == UpTo([role : Roles, size : {300, 932}], 4)
           \cup {<<[role |-> "system", size |-> 1]>>}
=============================================================================

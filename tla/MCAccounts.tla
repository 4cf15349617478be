----------------------------- MODULE MCAccounts -----------------------------
(* Instances of Accounts for TLC. *)
EXTENDS Accounts, TLC

Interchangeable ==
  Permutations(Attempt) \cup Permutations(Caller) \cup Permutations(Token)

\* Nothing is done any more to a session that is over and that nobody has read.
IsOver(t) == ~Unused(t) /\ ~Active(t) /\ \A c \in Caller : caller[c].token # t

\* Of old checks only the latest and their number modulo Threshold matter.
Recent(log) == <<Len(log) % Threshold,
                 SubSeq(log, IF Len(log) > Threshold THEN Len(log) - Threshold ELSE 1, Len(log))>>

WhatMatters ==
  <<clock, known, failed, until, holder, attempt, caller,
    [t \in Token |-> IF IsOver(t) THEN [expires |-> 0, seen |-> 0, revoked |-> 0] ELSE session[t]],
    [n \in Name |-> Recent(checks[n])]>>

=============================================================================

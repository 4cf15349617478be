--------------------------- MODULE GenerationSlot ---------------------------
(***************************************************************************)
(* What the Gateway promises of the answers of its users, with no process, *)
(* lease, lock or clock: each user has one slot; the answer that holds it  *)
(* is live, asked to stop, or of unknown outcome; it leaves the slot by    *)
(* being finished, or by being given up when the user asks again.          *)
(***************************************************************************)
EXTENDS Integers

CONSTANTS
  User,      \* slot holders
  Answer,    \* answers that are ever opened
  NoUser     \* the user of an answer that does not exist yet

VARIABLES
  phase,     \* [Answer -> Phases]
  user       \* [Answer -> User \cup {NoUser}]

Holding == {"live", "stopping", "unknown"}
Phases == {"none", "completed", "cancelled", "failed"} \cup Holding

Holders(u) == {a \in Answer : user[a] = u /\ phase[a] \in Holding}

Init ==
  /\ phase \in [Answer -> {"none", "live", "stopping"}]
  /\ user \in [Answer -> User \cup {NoUser}]
  /\ \A a \in Answer : phase[a] = "none" <=> user[a] = NoUser
  /\ \A a, b \in Answer :
       phase[a] \in Holding /\ phase[b] \in Holding /\ user[a] = user[b] => a = b

\* A new answer takes the slot of u.  Those in given were found unresolved and
\* are given up; one of them may just have been reported as cancelled.
Open(a, u, given) ==
  /\ phase[a] = "none"
  /\ \A b \in given : user[b] = u /\ phase[b] \in {"stopping", "unknown", "cancelled"}
  /\ Holders(u) \subseteq given
  /\ phase' = [b \in Answer |->
       IF b = a THEN "live" ELSE IF b \in given THEN "failed" ELSE phase[b]]
  /\ user' = [user EXCEPT ![a] = u]

AskToStop(a) ==
  /\ phase[a] = "live"
  /\ phase' = [phase EXCEPT ![a] = "stopping"]
  /\ UNCHANGED user

\* Answers whose process or client is gone: nobody knows how they ended.
Doubt(S) ==
  /\ \A a \in S : phase[a] \in {"live", "stopping"}
  /\ phase' = [a \in Answer |-> IF a \in S THEN "unknown" ELSE phase[a]]
  /\ UNCHANGED user

\* An answer that was asked to stop never counts as completed.
Finish(a, p) ==
  /\ \/ phase[a] = "live" /\ p \in {"completed", "failed"}
     \/ phase[a] = "stopping" /\ p = "cancelled"
  /\ phase' = [phase EXCEPT ![a] = p]
  /\ UNCHANGED user

Next ==
  \/ \E a \in Answer, u \in User, given \in SUBSET Answer : Open(a, u, given)
  \/ \E a \in Answer : AskToStop(a) \/ \E p \in Phases : Finish(a, p)
  \/ \E S \in SUBSET Answer : Doubt(S)

Spec == Init /\ [][Next]_<<phase, user>>
=============================================================================

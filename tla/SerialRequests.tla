--------------------------- MODULE SerialRequests ----------------------------
(***************************************************************************)
(* What the owner of personas may count on: the requests that succeed      *)
(* behave as if they were carried out one at a time, each at one instant   *)
(* and in full, and each key of an operation and target only once.  Locks, *)
(* transactions, deadlocks, lost answers and requests that are sent again  *)
(* do not appear: they are not visible.                                    *)
(***************************************************************************)
EXTENDS Integers, FiniteSets

CONSTANTS Persona, Key, Input, Limit, Thing, None

VARIABLES
  state, name, draft, active,     \* [Persona -> the columns of its row]
  versions, convs,                \* what lies below the personas
  made,                           \* ids given out
  records,                        \* what was done for which key
  answers                         \* the successful answers

vars == <<state, name, draft, active, versions, convs, made, records, answers>>

Live == {p \in Persona : state[p] = "live"}

Init ==
  /\ state = [p \in Persona |-> "unborn"]
  /\ name = [p \in Persona |-> None]
  /\ draft = [p \in Persona |-> None]
  /\ active = [p \in Persona |-> None]
  /\ versions = {} /\ convs = {} /\ made = {} /\ records = {} /\ answers = {}

\* The request of the record x succeeds: it was not done before, the records in
\* kept stay, and the client is told the result.
Succeed(x, kept) ==
  /\ answers' = answers \cup {x}
  /\ \A y \in records : ~(y.op = x.op /\ y.scope = x.scope /\ y.key = x.key)
  /\ records' = kept \cup {x}

\* An id that was never given out.
New(t) == t \in Thing \ made /\ made' = made \cup {t}

CreatePersona(p, k, i) ==
  /\ state[p] = "unborn"
  /\ Cardinality(Live) < Limit /\ \A q \in Live : name[q] # i
  /\ Succeed([op |-> "create_persona", scope |-> None, key |-> k, input |-> i, result |-> p],
             records)
  /\ state' = [state EXCEPT ![p] = "live"]
  /\ name' = [name EXCEPT ![p] = i]
  /\ UNCHANGED <<draft, active, versions, convs, made>>

\* A persona goes with all that lies below it, and never comes back.
DeletePersona(p, k) ==
  /\ state[p] = "live"
  /\ Succeed([op |-> "delete_persona", scope |-> p, key |-> k, input |-> None,
              result |-> "no_content"],
             {x \in records : x.scope = p => x.op \in {"create_persona", "delete_persona"}})
  /\ state' = [state EXCEPT ![p] = "deleted"]
  /\ name' = [name EXCEPT ![p] = None]
  /\ draft' = [draft EXCEPT ![p] = None]
  /\ active' = [active EXCEPT ![p] = None]
  /\ versions' = {v \in versions : v.persona # p}
  /\ convs' = {c \in convs : c.persona # p}
  /\ UNCHANGED made

CreateDraft(p, k, i, v) ==
  /\ state[p] = "live" /\ draft[p] = None /\ New(v)
  /\ Succeed([op |-> "create_draft", scope |-> p, key |-> k, input |-> i, result |-> v], records)
  /\ draft' = [draft EXCEPT ![p] = v]
  /\ versions' = versions \cup {[persona |-> p, id |-> v, title |-> i]}
  /\ UNCHANGED <<state, name, active, convs>>

DiscardDraft(p, k) ==
  /\ state[p] = "live" /\ draft[p] # None
  /\ Succeed([op |-> "discard_draft", scope |-> p, key |-> k, input |-> None,
              result |-> "no_content"], records)
  /\ draft' = [draft EXCEPT ![p] = None]
  /\ versions' = {v \in versions : v.id # draft[p]}
  /\ UNCHANGED <<state, name, active, convs, made>>

CreateConversation(p, k, c) ==
  /\ state[p] = "live" /\ active[p] # None /\ New(c)
  /\ Succeed([op |-> "create_conversation", scope |-> p, key |-> k, input |-> None,
              result |-> c], records)
  /\ convs' = convs \cup {[persona |-> p, id |-> c, from |-> active[p]]}
  /\ UNCHANGED <<state, name, draft, active, versions>>

\* Applying a draft keeps no record.
ActivateDraft(p) ==
  /\ state[p] = "live" /\ draft[p] # None
  /\ active' = [active EXCEPT ![p] = draft[p]]
  /\ draft' = [draft EXCEPT ![p] = None]
  /\ UNCHANGED <<state, name, versions, convs, made, records, answers>>

\* A request that succeeds is answered for the first time: to be told the same
\* again is not to do it again.
Next ==
  \/ \E p \in Persona : ActivateDraft(p)
  \/ /\ answers' # answers
     /\ \E p \in Persona, k \in Key :
          \/ DeletePersona(p, k) \/ DiscardDraft(p, k)
          \/ \E i \in Input : CreatePersona(p, k, i)
          \/ \E i \in Input, v \in Thing : CreateDraft(p, k, i, v)
          \/ \E c \in Thing : CreateConversation(p, k, c)

Spec == Init /\ [][Next]_vars

=============================================================================

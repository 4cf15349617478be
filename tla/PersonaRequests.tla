--------------------------- MODULE PersonaRequests ---------------------------
(***************************************************************************)
(* The changing requests of one owner: creating and deleting personas,     *)
(* drafts and conversations, the rows they lock, and the idempotency       *)
(* records that let a client send a request again (repository.py, and      *)
(* create_conversation of chat/repository.py).                             *)
(*                                                                         *)
(* A request is one transaction, but its statements are not one step: it   *)
(* waits for rows that others have locked, and create_conversation reads   *)
(* its record before it has locked anything.  What it wrote is seen by     *)
(* others when it commits, and so is written in the last step.             *)
(*                                                                         *)
(* A client sends any request at any time, with a new key or an old one;   *)
(* an answer may be lost.                                                  *)
(*                                                                         *)
(* Simplifications.  Editing and indexing drafts, and what they answer     *)
(* when a persona is busy, are the subject of MaterialVersions: here a     *)
(* deletion may be refused at any time, and a draft may be activated at    *)
(* any time.  base_version_id is data, a part of the request's input; of   *)
(* the settings in an input only the name appears (title).                 *)
(***************************************************************************)
EXTENDS Integers, FiniteSets

CONSTANTS
  Persona,
  Request,      \* requests in progress at the same time
  Key,          \* idempotency keys
  Input,        \* what a fingerprint is taken of: names, settings
  Ops,          \* the operations that are asked for
  Limit,        \* MAX_PERSONAS_PER_USER
  Thing,        \* ids for versions and conversations, a bound on both
  None

AllOps == {"create_persona", "delete_persona", "create_draft", "discard_draft",
           "create_conversation"}

Refusals == {"idempotency_conflict", "persona_not_found", "persona_limit_exceeded",
             "duplicate_persona_name", "persona_busy", "draft_already_exists",
             "draft_not_found", "draft_not_started", "no_active_version",
             "internal_error"}
Successes == Persona \cup Thing \cup {"no_content"}

\* Ids are UUIDs: those of personas are not those of versions and conversations.
ASSUME RequestsAssumption ==
  /\ Ops \subseteq AllOps
  /\ Limit \in Nat
  /\ None \notin Persona /\ None \notin Request /\ None \notin Input /\ None \notin Thing
  /\ Persona \cap Thing = {}
  /\ (Refusals \cup {"no_content"}) \cap (Persona \cup Thing) = {}

VARIABLES
  state,        \* personas: "unborn", "live", or "deleted" (a tombstone)
  name,         \* personas.name
  draft,        \* personas.draft_version_id
  active,       \* personas.active_version_id
  versions,     \* rows of material_versions
  convs,        \* rows of conversations
  records,      \* rows of idempotency_records and chat_idempotency_records
  made,         \* ids that were given to a version or a conversation
  userLock,     \* who has locked the row of the owner FOR UPDATE
  personaLock,  \* [Persona -> who has locked its row FOR UPDATE]
  request,      \* [Request -> one transaction]
  answers,      \* history: the successful answers
  applied       \* history: versions that were activated

personaVars == <<state, name, draft, active>>
rowVars == <<versions, convs, records, made>>
lockVars == <<userLock, personaLock>>
vars == <<state, name, draft, active, versions, convs, records, made,
          userLock, personaLock, request, answers, applied>>

RequestRow ==
  [pc : {"idle", "begun", "user", "persona", "inserting", "checked", "found"},
   op : AllOps \cup {None}, scope : Persona \cup {None}, key : Key \cup {None},
   input : Input \cup {None}, seen : Thing \cup {None},
   answer : Refusals \cup Successes \cup {None}]

Idle == [pc |-> "idle", op |-> None, scope |-> None, key |-> None, input |-> None,
         seen |-> None, answer |-> None]

\* All records: the scope is the persona of the path, None for create_persona.
Record == [op : AllOps, scope : Persona \cup {None}, key : Key,
           input : Input \cup {None}, result : Successes]

Live == {p \in Persona : state[p] = "live"}

Init ==
  /\ state = [p \in Persona |-> "unborn"]
  /\ name = [p \in Persona |-> None]
  /\ draft = [p \in Persona |-> None]
  /\ active = [p \in Persona |-> None]
  /\ versions = {} /\ convs = {} /\ records = {}
  /\ made = {}
  /\ userLock = None
  /\ personaLock = [p \in Persona |-> None]
  /\ request = [r \in Request |-> Idle]
  /\ answers = {} /\ applied = {}

-----------------------------------------------------------------------------
(* Steps that requests have in common.                                     *)

RecordsOf(r) ==
  {x \in records : /\ x.op = request[r].op
                   /\ x.scope = request[r].scope
                   /\ x.key = request[r].key}

NewRecord(r, result) ==
  [op |-> request[r].op, scope |-> request[r].scope, key |-> request[r].key,
   input |-> request[r].input, result |-> result]

Mismatch(r) == \E x \in RecordsOf(r) : x.input # request[r].input
Replayed(r, result) == \E x \in RecordsOf(r) : x.input = request[r].input /\ x.result = result

Goto(r, pc) == request' = [request EXCEPT ![r].pc = pc]

\* Mutant: the connection goes back to the pool with its transaction open.
FinishOpen(r, answer) ==
  /\ request' = [request EXCEPT ![r] = [Idle EXCEPT !.answer = answer]]
  /\ UNCHANGED lockVars
  /\ answers' = IF answer \in Successes THEN answers \cup {NewRecord(r, answer)} ELSE answers

\* The transaction is over, with or without effect.
Finish(r, answer) ==
  /\ request' = [request EXCEPT ![r] = [Idle EXCEPT !.answer = answer]]
  /\ userLock' = IF userLock = r THEN None ELSE userLock
  /\ personaLock' = [p \in Persona |-> IF personaLock[p] = r THEN None ELSE personaLock[p]]
  /\ answers' = IF answer \in Successes THEN answers \cup {NewRecord(r, answer)} ELSE answers

\* The end of a request that changes no row.
Answer(r, answer) ==
  /\ Finish(r, answer)
  /\ UNCHANGED <<personaVars, rowVars, applied>>

\* Only create_persona has no persona; only it and create_draft have an input.
Begin(r, op, p, k, i) ==
  /\ request[r].pc = "idle"
  /\ (op = "create_persona") <=> (p = None)
  /\ (op \in {"create_persona", "create_draft"}) <=> (i # None)
  /\ p # None => state[p] # "unborn"
  /\ request' = [request EXCEPT ![r] =
       [Idle EXCEPT !.pc = "begun", !.op = op, !.scope = p, !.key = k, !.input = i]]
  /\ UNCHANGED <<personaVars, rowVars, lockVars, answers, applied>>

\* Mutant: the row of the owner is read without locking it.
ReadUser(r) ==
  /\ request[r].pc = "begun" /\ request[r].op \in {"create_persona", "delete_persona"}
  /\ Goto(r, "user")
  /\ UNCHANGED <<personaVars, rowVars, lockVars, answers, applied>>

\* create_persona and delete_persona lock the owner's row FOR UPDATE first.
LockUser(r) ==
  /\ request[r].pc = "begun" /\ request[r].op \in {"create_persona", "delete_persona"}
  /\ userLock = None
  /\ userLock' = r
  /\ Goto(r, "user")
  /\ UNCHANGED <<personaVars, rowVars, personaLock, answers, applied>>

\* When the request asks for the lock of its persona.
AtPersona(r) ==
  \/ request[r].pc = "begun" /\ request[r].op \in {"create_draft", "discard_draft"}
  \/ request[r].pc = "checked"
  \/ request[r].pc = "user" /\ request[r].op = "delete_persona" /\ RecordsOf(r) = {}

\* Mutant: a conversation is created without locking its persona.
LockPersonaUnlessChat(r) ==
  LET p == request[r].scope IN
  /\ AtPersona(r)
  /\ personaLock[p] = None
  /\ \/ /\ state[p] = "live"
        /\ personaLock' = IF request[r].pc = "checked" THEN personaLock
                          ELSE [personaLock EXCEPT ![p] = r]
        /\ Goto(r, "persona")
        /\ UNCHANGED <<personaVars, rowVars, userLock, answers, applied>>
     \/ state[p] # "live" /\ Answer(r, "persona_not_found")

\* Mutant: the draft's slot is looked at before it is locked.
LockPersonaShared(r) ==
  LET p == request[r].scope IN
  /\ AtPersona(r)
  /\ \/ /\ state[p] = "live"
        /\ personaLock' = [personaLock EXCEPT ![p] = r]
        /\ request' = [request EXCEPT ![r].pc =
             IF @ = "begun" /\ request[r].op = "create_draft" /\ draft[p] = None
             THEN "inserting" ELSE "persona"]
        /\ UNCHANGED <<personaVars, rowVars, userLock, answers, applied>>
     \/ state[p] # "live" /\ Answer(r, "persona_not_found")

\* _lock_persona: FOR UPDATE, of a persona that is not deleted when it is had.
LockPersona(r) ==
  LET p == request[r].scope IN
  /\ AtPersona(r)
  /\ personaLock[p] = None
  /\ \/ /\ state[p] = "live"
        /\ personaLock' = [personaLock EXCEPT ![p] = r]
        /\ Goto(r, "persona")
        /\ UNCHANGED <<personaVars, rowVars, userLock, answers, applied>>
     \/ state[p] # "live" /\ Answer(r, "persona_not_found")

\* A statement times out, PostgreSQL ends a deadlock, the process goes: all
\* that the transaction wrote is rolled back.
RollBack(r) ==
  /\ request[r].pc # "idle"
  /\ Answer(r, "internal_error")

-----------------------------------------------------------------------------
(* create_persona and delete_persona.                                      *)

\* Mutant: the record is believed, whatever became of its persona.
ReplayAnyPersona(r) ==
  /\ request[r].pc = "user" /\ request[r].op = "create_persona"
  /\ \/ Mismatch(r) /\ Answer(r, "idempotency_conflict")
     \/ \E p \in Persona : Replayed(r, p) /\ Answer(r, p)

\* A tombstone is neither shown nor made anew.
ReplayPersona(r) ==
  /\ request[r].pc = "user" /\ request[r].op = "create_persona"
  /\ \/ Mismatch(r) /\ Answer(r, "idempotency_conflict")
     \/ \E p \in Persona :
          /\ Replayed(r, p)
          /\ Answer(r, IF state[p] = "deleted" THEN "persona_not_found" ELSE p)

Admitted(r) == /\ Cardinality(Live) < Limit
               /\ \A p \in Live : name[p] # request[r].input

JudgePersona(r) ==
  /\ request[r].pc = "user" /\ request[r].op = "create_persona" /\ RecordsOf(r) = {}
  /\ \/ Cardinality(Live) >= Limit /\ Answer(r, "persona_limit_exceeded")
     \/ /\ Cardinality(Live) < Limit /\ ~Admitted(r)
        /\ Answer(r, "duplicate_persona_name")
     \/ /\ Admitted(r) /\ Goto(r, "inserting")
        /\ UNCHANGED <<personaVars, rowVars, lockVars, answers, applied>>

CreatePersona(r) ==
  /\ request[r].pc = "inserting" /\ request[r].op = "create_persona"
  /\ \E p \in Persona :
       /\ state[p] = "unborn"
       /\ state' = [state EXCEPT ![p] = "live"]
       /\ name' = [name EXCEPT ![p] = request[r].input]
       /\ records' = records \cup {NewRecord(r, p)}
       /\ Finish(r, p)
  /\ UNCHANGED <<draft, active, versions, convs, made, applied>>

ReplayDelete(r) ==
  /\ request[r].pc = "user" /\ request[r].op = "delete_persona" /\ RecordsOf(r) # {}
  /\ Answer(r, "no_content")

RefuseDelete(r) ==
  /\ request[r].pc = "persona" /\ request[r].op = "delete_persona"
  /\ Answer(r, "persona_busy")

\* _delete_chat_records and _delete_material_records keep the records that
\* create_persona and delete_persona left.
Remaining(p) ==
  {x \in records : x.scope = p => x.op \in {"create_persona", "delete_persona"}}

DeletePersona(r) ==
  LET p == request[r].scope IN
  /\ request[r].pc = "persona" /\ request[r].op = "delete_persona"
  /\ state' = [state EXCEPT ![p] = "deleted"]
  /\ name' = [name EXCEPT ![p] = None]
  /\ draft' = [draft EXCEPT ![p] = None]
  /\ active' = [active EXCEPT ![p] = None]
  /\ versions' = {v \in versions : v.persona # p}
  /\ convs' = {c \in convs : c.persona # p}
  /\ records' = Remaining(p) \cup {NewRecord(r, "no_content")}
  /\ Finish(r, "no_content")
  /\ UNCHANGED <<made, applied>>

-----------------------------------------------------------------------------
(* create_draft and discard_draft.                                         *)

VersionIds == {v.id : v \in versions}

\* The version of the record is read, not the draft there is now.
ReplayDraft(r) ==
  /\ request[r].pc = "persona" /\ request[r].op = "create_draft"
  /\ \/ Mismatch(r) /\ Answer(r, "idempotency_conflict")
     \/ \E v \in Thing :
          /\ Replayed(r, v)
          /\ Answer(r, IF v \in VersionIds THEN v ELSE "draft_not_found")

JudgeDraft(r) ==
  /\ request[r].pc = "persona" /\ request[r].op = "create_draft" /\ RecordsOf(r) = {}
  /\ IF draft[request[r].scope] # None
     THEN Answer(r, "draft_already_exists")
     ELSE /\ Goto(r, "inserting")
          /\ UNCHANGED <<personaVars, rowVars, lockVars, answers, applied>>

\* The record's foreign key wants the owner's row, KEY SHARE.
UserShared == userLock = None

CreateDraft(r) ==
  LET p == request[r].scope IN
  /\ request[r].pc = "inserting" /\ request[r].op = "create_draft" /\ UserShared
  /\ \E v \in Thing \ made :
       /\ made' = made \cup {v}
       /\ draft' = [draft EXCEPT ![p] = v]
       /\ versions' = versions \cup {[persona |-> p, id |-> v, title |-> request[r].input]}
       /\ records' = records \cup {NewRecord(r, v)}
       /\ Finish(r, v)
  /\ UNCHANGED <<state, name, active, convs, applied>>

JudgeDiscard(r) ==
  LET p == request[r].scope IN
  /\ request[r].pc = "persona" /\ request[r].op = "discard_draft"
  /\ \/ RecordsOf(r) # {} /\ Answer(r, "no_content")
     \/ /\ RecordsOf(r) = {} /\ draft[p] = None
        /\ Answer(r, IF active[p] # None THEN "draft_not_started" ELSE "draft_not_found")
     \/ /\ RecordsOf(r) = {} /\ draft[p] # None
        /\ Goto(r, "inserting")
        /\ UNCHANGED <<personaVars, rowVars, lockVars, answers, applied>>

DiscardDraft(r) ==
  LET p == request[r].scope IN
  /\ request[r].pc = "inserting" /\ request[r].op = "discard_draft" /\ UserShared
  /\ draft' = [draft EXCEPT ![p] = None]
  /\ versions' = {v \in versions : v.id # draft[p]}
  /\ records' = records \cup {NewRecord(r, "no_content")}
  /\ Finish(r, "no_content")
  /\ UNCHANGED <<state, name, active, convs, made, applied>>

\* activate_draft, which keeps no record.
ActivateDraft(p) ==
  /\ state[p] = "live" /\ personaLock[p] = None /\ draft[p] # None
  /\ active' = [active EXCEPT ![p] = draft[p]]
  /\ draft' = [draft EXCEPT ![p] = None]
  /\ applied' = applied \cup {draft[p]}
  /\ UNCHANGED <<state, name, rowVars, lockVars, request, answers>>

-----------------------------------------------------------------------------
(* create_conversation.                                                    *)

\* Its record is read first, under no lock, and not read again.
LookUpConversation(r) ==
  /\ request[r].pc = "begun" /\ request[r].op = "create_conversation"
  /\ IF RecordsOf(r) = {}
     THEN Goto(r, "checked")
     ELSE \E x \in RecordsOf(r) :
            request' = [request EXCEPT ![r].pc = "found", ![r].seen = x.result]
  /\ UNCHANGED <<personaVars, rowVars, lockVars, answers, applied>>

\* _conversation_by_id, another statement: a deletion may have come between.
ReplayConversation(r) ==
  /\ request[r].pc = "found"
  /\ Answer(r, IF \E c \in convs : c.id = request[r].seen
               THEN request[r].seen ELSE "internal_error")

JudgeConversation(r) ==
  /\ request[r].pc = "persona" /\ request[r].op = "create_conversation"
  /\ IF active[request[r].scope] = None
     THEN Answer(r, "no_active_version")
     ELSE /\ Goto(r, "inserting")
          /\ UNCHANGED <<personaVars, rowVars, lockVars, answers, applied>>

\* The primary key of the records stops a second one, and with it the rest.
CreateConversation(r) ==
  LET p == request[r].scope IN
  /\ request[r].pc = "inserting" /\ request[r].op = "create_conversation" /\ UserShared
  /\ \/ RecordsOf(r) # {} /\ Answer(r, "internal_error")
     \/ /\ RecordsOf(r) = {}
        /\ \E c \in Thing \ made :
             /\ made' = made \cup {c}
             /\ convs' = convs \cup {[persona |-> p, id |-> c, from |-> active[p]]}
             /\ records' = records \cup {NewRecord(r, c)}
             /\ Finish(r, c)
        /\ UNCHANGED <<personaVars, versions, applied>>

-----------------------------------------------------------------------------
Step(r) ==
  \/ LockUser(r) \/ LockPersona(r)
  \/ ReplayPersona(r) \/ JudgePersona(r) \/ CreatePersona(r)
  \/ ReplayDelete(r) \/ RefuseDelete(r) \/ DeletePersona(r)
  \/ ReplayDraft(r) \/ JudgeDraft(r) \/ CreateDraft(r)
  \/ JudgeDiscard(r) \/ DiscardDraft(r)
  \/ LookUpConversation(r) \/ ReplayConversation(r)
  \/ JudgeConversation(r) \/ CreateConversation(r)

Next ==
  \/ \E r \in Request :
       \/ \E op \in Ops, p \in Persona \cup {None}, k \in Key, i \in Input \cup {None} :
            Begin(r, op, p, k, i)
       \/ Step(r) \/ RollBack(r)
  \/ \E p \in Persona : ActivateDraft(p)

Spec == Init /\ [][Next]_vars

-----------------------------------------------------------------------------
(* Properties.                                                             *)

TypeOK ==
  /\ state \in [Persona -> {"unborn", "live", "deleted"}]
  /\ name \in [Persona -> Input \cup {None}]
  /\ draft \in [Persona -> Thing \cup {None}]
  /\ active \in [Persona -> Thing \cup {None}]
  /\ versions \in SUBSET [persona : Persona, id : Thing, title : Input]
  /\ convs \in SUBSET [persona : Persona, id : Thing, from : Thing]
  /\ records \in SUBSET Record
  /\ made \in SUBSET Thing
  /\ userLock \in Request \cup {None}
  /\ personaLock \in [Persona -> Request \cup {None}]
  /\ request \in [Request -> RequestRow]
  /\ answers \in SUBSET Record
  /\ applied \in SUBSET Thing

\* However requests overlap, an owner never has more live personas than the
\* limit, nor two of one name.
LimitKept ==
  /\ Cardinality(Live) <= Limit
  /\ \A p, q \in Live : name[p] = name[q] => p = q

\* One key of one operation and target succeeds with one result only, whenever
\* and however often it is sent, also after what it made is deleted.
OneResultPerKey ==
  \A x, y \in answers :
    x.op = y.op /\ x.scope = y.scope /\ x.key = y.key => x.result = y.result

\* What create_persona checked under the owner's lock is still so when it
\* commits, against creations and deletions on other connections.
ChecksStillHold == LimitKept /\ OneResultPerKey

\* Nothing remains of a deleted persona, whatever was in progress: no version,
\* no conversation, and of its records only those of its creation and deletion.
NothingRemains ==
  /\ \A v \in versions : state[v.persona] = "live"
  /\ \A c \in convs : state[c.persona] = "live"
  /\ \A x \in records :
       x.op \in {"create_draft", "discard_draft", "create_conversation"} =>
         state[x.scope] = "live"

\* No version of a persona is lost from sight: each one is the draft, or it was
\* applied.
NoStrayVersion ==
  \A v \in versions : v.id = draft[v.persona] \/ v.id \in applied

\* However requests overlap, wait, fail and come again, those that succeed are
\* carried out one at a time, each at the instant it commits: no check is stale
\* when its request takes effect, nothing is done for a key twice, and a replay
\* of the same input names what was made the first time.
Serial == INSTANCE SerialRequests

RequestsAtOnce == Serial!Spec

\* No old key brings back what was deleted: a request whose answer names a
\* persona, a draft or a conversation is answered while the persona lives.
NotRevived ==
  [][\A r \in Request :
       /\ request[r].pc # "idle" /\ request'[r].pc = "idle"
       => /\ request'[r].answer \in Persona => state'[request'[r].answer] = "live"
          /\ request'[r].answer \in Thing => state'[request[r].scope] = "live"]_vars

\* r waits for a row that s has locked.
WaitsFor(r, s) ==
  \/ AtPersona(r) /\ personaLock[request[r].scope] = s
  \/ request[r].pc = "inserting" /\ userLock = s
  \/ /\ request[r].pc = "begun" /\ request[r].op \in {"create_persona", "delete_persona"}
     /\ userLock = s

Deadlocked(r, s) == r # s /\ WaitsFor(r, s) /\ WaitsFor(s, r)

\* Requests wait for each other, until PostgreSQL ends one of them, only where a
\* deletion meets a request that writes below the same persona: the deletion
\* takes the owner's row first, the other has the persona's and wants the owner's.
DeadlockIsOfDeletion ==
  \A r, s \in Request : Deadlocked(r, s) =>
    /\ request[r].scope = request[s].scope
    /\ \E other \in {"create_draft", "discard_draft", "create_conversation"} :
         {request[r].op, request[s].op} = {"delete_persona", other}

-----------------------------------------------------------------------------
(* What the documents say and the code does not do.                        *)

\* "if the input is the same, the id or answer that was accepted is used
\* again": a request that goes on to write is not one that was done before.
ReplayAnswered == \A r \in Request : request[r].pc = "inserting" => RecordsOf(r) = {}

\* "the version that was made then is returned as it is".
DraftReplayed ==
  [][\A r \in Request :
       ReplayDraft(r) /\ ~Mismatch(r) => request'[r].answer # "draft_not_found"]_vars

\* "The name in the list is the first name or the last one applied", and a
\* name is unique among the personas of its owner when it is applied.
AppliedNameListed ==
  \A p \in Live, v \in versions : v.id = active[p] => name[p] = v.title

\* "the same order must be kept, or they wait for each other".
NoDeadlock == ~ \E r, s \in Request : Deadlocked(r, s)

=============================================================================

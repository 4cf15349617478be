------------------------ MODULE PersonaRequests_proofs ------------------------
(***************************************************************************)
(* What holds of PersonaRequests for every number of personas, requests,   *)
(* keys, inputs and ids, and for every limit.                              *)
(***************************************************************************)
EXTENDS PersonaRequests, FiniteSetTheorems, TLAPS

-----------------------------------------------------------------------------
(* The inductive invariant.                                                *)

UserOps == {"create_persona", "delete_persona"}
EmptyOps == {"delete_persona", "discard_draft"}
BelowOps == {"create_draft", "discard_draft", "create_conversation"}

\* What a request in progress was asked.
Asked(r) ==
  /\ request[r].op \in AllOps /\ request[r].key \in Key
  /\ request[r].op = "create_persona" <=> request[r].scope = None
  /\ request[r].op \in {"create_persona", "create_draft"} <=> request[r].input # None
  /\ request[r].scope # None => state[request[r].scope] # "unborn"

\* r has the row of its persona, and the persona was not deleted when it got it.
HasPersona(r) ==
  /\ request[r].scope \in Persona
  /\ personaLock[request[r].scope] = r
  /\ state[request[r].scope] = "live"

SameKey(x, y) == x.op = y.op /\ x.scope = y.scope /\ x.key = y.key

\* The record that r found is still there, or its persona is not.
FoundStands(r) ==
  /\ request[r].seen \in made
  /\ \A c \in convs : c.id = request[r].seen => c.persona = request[r].scope
  /\ \/ \E x \in records : SameKey(x, request[r]) /\ x.result = request[r].seen
     \/ state[request[r].scope] = "deleted"

\* What r knows at each place of its transaction.
AtUserRow(r) == request[r].pc = "user" => request[r].op \in UserOps /\ userLock = r

BeforePersona(r) ==
  /\ request[r].pc = "checked" => request[r].op = "create_conversation"
  /\ request[r].pc = "found" => request[r].op = "create_conversation" /\ FoundStands(r)

InPersona(r) ==
  request[r].pc = "persona" =>
    /\ HasPersona(r)
    /\ request[r].op = "delete_persona" => userLock = r

CreatesPersona(r) ==
  request[r].pc = "inserting" /\ request[r].op = "create_persona" =>
    userLock = r /\ Admitted(r) /\ RecordsOf(r) = {}

Inserts(r) ==
  request[r].pc = "inserting" /\ request[r].op # "create_persona" =>
    /\ request[r].op \in BelowOps
    /\ HasPersona(r)
    /\ request[r].op = "create_draft" => draft[request[r].scope] = None /\ RecordsOf(r) = {}
    /\ request[r].op = "discard_draft" => draft[request[r].scope] # None
    /\ request[r].op = "create_conversation" => active[request[r].scope] # None

Stage(r) ==
  request[r].pc # "idle" =>
    /\ Asked(r)
    /\ AtUserRow(r) /\ BeforePersona(r) /\ InPersona(r) /\ CreatesPersona(r) /\ Inserts(r)

\* Who has a row is at a place where the row is needed.
Locks ==
  /\ userLock # None => /\ request[userLock].pc \in {"user", "persona", "inserting"}
                        /\ request[userLock].op \in UserOps
  /\ \A p \in Persona : personaLock[p] # None =>
       /\ request[personaLock[p]].pc \in {"persona", "inserting"}
       /\ request[personaLock[p]].scope = p

Rows ==
  /\ \A p \in Persona : state[p] # "live" => draft[p] = None /\ active[p] = None
  /\ \A v \in versions : v.id \in made
  /\ \A c \in convs : c.id \in made
  /\ \A c, d \in convs : c.id = d.id => c.persona = d.persona

RecordOK(x) ==
  /\ x.op = "create_persona" <=> x.scope = None
  /\ x.op = "create_persona" => x.result \in Persona /\ state[x.result] # "unborn"
  /\ x.op \in EmptyOps => x.result = "no_content"
  /\ x.op = "create_draft" => x.result \in Thing
  /\ x.op = "create_conversation" => \E c \in convs : c.id = x.result /\ c.persona = x.scope

Records ==
  /\ \A x \in records : RecordOK(x)
  /\ \A x, y \in records : SameKey(x, y) => x.result = y.result

\* A record says what was answered, unless it went with its persona.
Backed(a) ==
  \/ a.op \in EmptyOps /\ a.result = "no_content"
  \/ \E x \in records : SameKey(x, a) /\ x.result = a.result
  \/ a.op \in {"create_draft", "create_conversation"} /\ a.scope \in Persona /\ state[a.scope] = "deleted"

Answers == (\A a \in answers : Backed(a)) /\ OneResultPerKey

LiveInv == IsFiniteSet(Live) /\ LimitKept

Inv ==
  /\ TypeOK
  /\ \A r \in Request : Stage(r)
  /\ Locks /\ Rows /\ Records /\ Answers /\ LiveInv
  /\ NothingRemains /\ NoStrayVersion

-----------------------------------------------------------------------------
(* Steps of one request as the others see them.                            *)

\* A step of another request leaves alone what s has locked.
Spares(s) ==
  /\ request'[s] = request[s]
  /\ userLock = s => /\ userLock' = s /\ state' = state /\ name' = name
                     /\ \A x \in records' : x.op = "create_persona" => x \in records
  /\ \A p \in Persona : personaLock[p] = s =>
       /\ personaLock'[p] = s
       /\ state'[p] = state[p] /\ draft'[p] = draft[p] /\ active'[p] = active[p]
       /\ \A x \in records' : x.op = "create_draft" /\ x.scope = p => x \in records

\* No step makes a persona unborn or alive again, or takes a record but with its persona.
Forward ==
  /\ made \subseteq made'
  /\ \A p \in Persona : /\ state[p] # "unborn" => state'[p] # "unborn"
                        /\ state[p] = "deleted" => state'[p] = "deleted"
  /\ \A x \in records : x \in records' \/ (x.scope \in Persona /\ state'[x.scope] = "deleted")
  /\ \A c \in convs' : c \in convs \/ c.id \notin made

\* The types of what a request carries.
LEMMA RequestTyped ==
  ASSUME TypeOK, NEW r \in Request
  PROVE  /\ request[r].pc \in {"idle", "begun", "user", "persona", "inserting", "checked", "found"}
         /\ request[r].op \in AllOps \cup {None} /\ request[r].scope \in Persona \cup {None}
         /\ request[r].key \in Key \cup {None} /\ request[r].input \in Input \cup {None}
         /\ request[r].seen \in Thing \cup {None}
BY DEF TypeOK, RequestRow

LEMMA SparedStage ==
  ASSUME Inv, NEW s \in Request, Forward, Spares(s)
  PROVE  Stage(s)'
<1>0. Stage(s) /\ TypeOK
  BY DEF Inv
<1>1. SUFFICES ASSUME request[s].pc # "idle"
               PROVE  /\ Asked(s)' /\ AtUserRow(s)' /\ BeforePersona(s)' /\ InPersona(s)'
                      /\ CreatesPersona(s)' /\ Inserts(s)'
  BY DEF Stage, Spares
<1>2. Asked(s)'
  BY <1>0, <1>1, RequestTyped DEF Stage, Asked, Forward, Spares
<1>3. AtUserRow(s)'
  BY <1>0, <1>1 DEF Stage, AtUserRow, Spares
<1>4. BeforePersona(s)'
  <2>1. SUFFICES ASSUME request[s].pc = "found" PROVE FoundStands(s)'
    BY <1>0, <1>1 DEF Stage, BeforePersona, Spares
  <2>2. FoundStands(s) /\ request[s].op = "create_conversation" /\ request[s].scope \in Persona
    BY <1>0, <1>1, <2>1, RequestTyped DEF Stage, BeforePersona, Asked
  <2>3. request'[s].seen \in made'
    BY <2>2 DEF FoundStands, Forward, Spares
  <2>4. \A c \in convs' : c.id = request'[s].seen => c.persona = request'[s].scope
    BY <2>2 DEF FoundStands, Forward, Spares
  <2>5. CASE \E x \in records : SameKey(x, request[s]) /\ x.result = request[s].seen
    BY <2>2, <2>3, <2>4, <2>5 DEF FoundStands, Forward, Spares, SameKey
  <2>6. CASE state[request[s].scope] = "deleted"
    BY <2>2, <2>3, <2>4, <2>6 DEF FoundStands, Forward, Spares
  <2> QED
    BY <2>2, <2>5, <2>6 DEF FoundStands
<1>5. InPersona(s)'
  BY <1>0, <1>1 DEF Stage, InPersona, HasPersona, Spares
<1>6. CreatesPersona(s)'
  <2>1. SUFFICES ASSUME request[s].pc = "inserting", request[s].op = "create_persona"
                 PROVE  userLock' = s /\ Admitted(s)' /\ RecordsOf(s)' = {}
    BY DEF CreatesPersona, Spares
  <2>2. userLock = s /\ Admitted(s) /\ RecordsOf(s) = {}
    BY <1>0, <1>1, <2>1 DEF Stage, CreatesPersona
  <2>3. Admitted(s)'
    BY <2>2 DEF Admitted, Live, Spares
  <2> QED
    BY <2>1, <2>2, <2>3 DEF Spares, RecordsOf
<1>7. Inserts(s)'
  <2>1. SUFFICES ASSUME request[s].pc = "inserting", request[s].op # "create_persona"
                 PROVE  Inserts(s)'
    BY DEF Inserts, Spares
  <2>2. /\ request[s].op \in BelowOps
        /\ HasPersona(s)
        /\ request[s].op = "create_draft" => draft[request[s].scope] = None /\ RecordsOf(s) = {}
        /\ request[s].op = "discard_draft" => draft[request[s].scope] # None
        /\ request[s].op = "create_conversation" => active[request[s].scope] # None
    BY <1>0, <1>1, <2>1 DEF Stage, Inserts
  <2>3. request[s].op = "create_draft" => RecordsOf(s)' = {}
    BY <2>2 DEF HasPersona, Spares, RecordsOf
  <2> QED
    BY <2>2, <2>3 DEF Inserts, HasPersona, Spares
<1> QED
  BY <1>2, <1>3, <1>4, <1>5, <1>6, <1>7

\* A step of r alone, that changes no row and takes no lock of another.
Alone(r) ==
  /\ UNCHANGED <<personaVars, rowVars, applied>>
  /\ \A s \in Request \ {r} : request'[s] = request[s]
  /\ \A s \in Request \ {r} : userLock = s => userLock' = s
  /\ \A s \in Request \ {r}, p \in Persona : personaLock[p] = s => personaLock'[p] = s

LEMMA AloneSpares ==
  ASSUME Inv, NEW r \in Request, Alone(r)
  PROVE  Forward /\ \A s \in Request \ {r} : Spares(s)
<1>1. UNCHANGED <<state, name, draft, active, versions, convs, records, made>>
  BY DEF Alone, personaVars, rowVars
<1>2. Forward
  BY <1>1 DEF Forward
<1>3. ASSUME NEW s \in Request \ {r} PROVE Spares(s)
  BY <1>1, <1>3 DEF Spares, Alone
<1> QED
  BY <1>2, <1>3

\* After such a step the invariant holds as far as r, the locks and the answers are concerned.
LEMMA AloneInv ==
  ASSUME Inv, NEW r \in Request, Alone(r), TypeOK', Stage(r)', Locks', Answers'
  PROVE  Inv'
<1>1. UNCHANGED <<state, name, draft, active, versions, convs, records, made, applied>>
  BY DEF Alone, personaVars, rowVars
<1>2. \A s \in Request : Stage(s)'
  BY AloneSpares, SparedStage
<1>3. Rows' /\ NothingRemains' /\ NoStrayVersion'
  BY <1>1 DEF Inv, Rows, NothingRemains, NoStrayVersion
<1>4. Records'
  BY <1>1 DEF Inv, Records, RecordOK
<1>5. LiveInv'
  BY <1>1 DEF Inv, LiveInv, LimitKept, Live
<1> QED
  BY <1>2, <1>3, <1>4, <1>5 DEF Inv

\* The end of a transaction.
LEMMA FinishAlone ==
  ASSUME Inv, NEW r \in Request, request[r].pc # "idle", NEW ans \in Refusals \cup Successes,
         Finish(r, ans)
  PROVE  /\ request'[r].pc = "idle" /\ request'[r].answer = ans
         /\ \A s \in Request \ {r} : request'[s] = request[s]
         /\ \A s \in Request \ {r} : userLock = s => userLock' = s
         /\ \A s \in Request \ {r}, p \in Persona : personaLock[p] = s => personaLock'[p] = s
         /\ userLock' # r /\ \A p \in Persona : personaLock'[p] # r
         /\ userLock' # None => userLock' = userLock
         /\ \A p \in Persona : personaLock'[p] # None => personaLock'[p] = personaLock[p]
         /\ request' \in [Request -> RequestRow]
         /\ userLock' \in Request \cup {None}
         /\ personaLock' \in [Persona -> Request \cup {None}]
         /\ answers' \in SUBSET Record
<1>1. TypeOK
  BY DEF Inv
<1>2. [Idle EXCEPT !.answer = ans] \in RequestRow
  BY DEF Idle, RequestRow
<1>3. request' \in [Request -> RequestRow]
  BY <1>1, <1>2 DEF Finish, TypeOK
<1>4. request'[r] = [Idle EXCEPT !.answer = ans] /\ \A s \in Request \ {r} : request'[s] = request[s]
  BY <1>1 DEF Finish, TypeOK
<1>5. request'[r].pc = "idle" /\ request'[r].answer = ans
  BY <1>4 DEF Idle
<1>6. ans \in Successes => NewRecord(r, ans) \in Record
  BY RequestTyped, <1>1 DEF Inv, Stage, Asked, NewRecord, Record
<1>7. answers' \in SUBSET Record
  BY <1>1, <1>6 DEF Finish, TypeOK
<1>8. /\ userLock' # r /\ \A p \in Persona : personaLock'[p] # r
      /\ userLock' \in Request \cup {None}
      /\ personaLock' \in [Persona -> Request \cup {None}]
      /\ userLock' # None => userLock' = userLock
      /\ \A p \in Persona : personaLock'[p] # None => personaLock'[p] = personaLock[p]
      /\ \A s \in Request \ {r} : userLock = s => userLock' = s
      /\ \A s \in Request \ {r}, p \in Persona : personaLock[p] = s => personaLock'[p] = s
  BY <1>1, RequestsAssumption DEF Finish, TypeOK
<1> QED
  BY <1>3, <1>4, <1>5, <1>7, <1>8

LEMMA FinishLocks ==
  ASSUME Inv, NEW r \in Request, request[r].pc # "idle", NEW ans \in Refusals \cup Successes,
         Finish(r, ans)
  PROVE  Locks'
BY FinishAlone DEF Inv, Locks, TypeOK

\* What r answers is recorded and its persona, if it has one, lives.
Grounded(r, ans) ==
  \/ request[r].op \in EmptyOps /\ ans = "no_content"
  \/ /\ \E x \in records : SameKey(x, request[r]) /\ x.result = ans
     /\ request[r].op # "create_persona" => state[request[r].scope] = "live"

\* The history of answers with a grounded one more.
LEMMA AnswersGrow ==
  ASSUME Inv, NEW r \in Request, request[r].pc # "idle", NEW ans \in Refusals \cup Successes,
         Finish(r, ans), Records',
         \A a \in answers : Backed(a)',
         ans \in Successes =>
           \/ request[r].op \in EmptyOps /\ ans = "no_content"
           \/ /\ \E x \in records' : SameKey(x, request[r]) /\ x.result = ans
              /\ request[r].op # "create_persona" => state'[request[r].scope] = "live"
  PROVE  Answers'
<1>0. PICK new : new = NewRecord(r, ans)
  OBVIOUS
<1>1. CASE ans \notin Successes
  <2>1. answers' = answers
    BY <1>1 DEF Finish
  <2> QED
    BY <2>1 DEF Inv, Answers, OneResultPerKey
<1>2. CASE ans \in Successes
  <2>1. answers' = answers \cup {new}
    BY <1>0, <1>2 DEF Finish
  <2>2. SameKey(new, request[r]) /\ new.result = ans
    BY <1>0 DEF NewRecord, SameKey
  <2>3. Backed(new)'
    BY <1>2, <2>2 DEF Backed, SameKey
  <2>4. ASSUME NEW a \in answers, SameKey(a, new) PROVE a.result = ans
    <3>1. Backed(a)'
      OBVIOUS
    <3>2. CASE request[r].op \in EmptyOps /\ ans = "no_content"
      <4>1. ASSUME NEW x \in records', SameKey(x, a) PROVE x.result = "no_content"
        BY <2>2, <2>4, <3>2, <4>1 DEF Records, RecordOK, SameKey
      <4> QED
        BY <2>2, <2>4, <3>1, <3>2, <4>1 DEF Backed, SameKey, EmptyOps
    <3>3. CASE /\ \E x \in records' : SameKey(x, request[r]) /\ x.result = ans
               /\ request[r].op # "create_persona" => state'[request[r].scope] = "live"
      <4>1. PICK x \in records' : SameKey(x, request[r]) /\ x.result = ans
        BY <3>3
      <4>2. CASE a.op \in EmptyOps /\ a.result = "no_content"
        BY <2>2, <2>4, <4>1, <4>2 DEF Records, RecordOK, SameKey
      <4>3. CASE \E y \in records' : SameKey(y, a) /\ y.result = a.result
        BY <2>2, <2>4, <4>1, <4>3 DEF Records, SameKey
      <4>4. CASE a.op \in {"create_draft", "create_conversation"} /\ state'[a.scope] = "deleted"
        BY <2>2, <2>4, <3>3, <4>4 DEF SameKey
      <4> QED
        BY <3>1, <4>2, <4>3, <4>4 DEF Backed
    <3> QED
      BY <1>2, <3>2, <3>3
  <2>5. OneResultPerKey'
    BY <2>1, <2>2, <2>4 DEF OneResultPerKey, Inv, Answers, SameKey
  <2> QED
    BY <2>1, <2>3, <2>5 DEF Answers
<1> QED
  BY <1>1, <1>2

\* A request that ends without changing a row keeps the invariant if what it
\* answers is grounded.
LEMMA AnswerKeeps ==
  ASSUME Inv, NEW r \in Request, request[r].pc # "idle", NEW ans \in Refusals \cup Successes,
         Answer(r, ans), ans \in Successes => Grounded(r, ans)
  PROVE  Inv'
<1>1. Finish(r, ans) /\ UNCHANGED <<personaVars, rowVars, applied>>
  BY DEF Answer
<1>2. Alone(r)
  BY <1>1, FinishAlone DEF Alone
<1>3. TypeOK'
  BY <1>1, FinishAlone DEF Inv, TypeOK, personaVars, rowVars
<1>4. Stage(r)'
  BY <1>1, FinishAlone DEF Stage
<1>5. Locks'
  BY <1>1, FinishLocks
<1>6. Records' /\ \A a \in answers : Backed(a)'
  BY <1>1 DEF Inv, Records, RecordOK, Answers, Backed, personaVars, rowVars
<1>7. Answers'
  BY <1>1, <1>6, AnswersGrow DEF Grounded, personaVars, rowVars
<1> QED
  BY <1>2, <1>3, <1>4, <1>5, <1>7, AloneInv

-----------------------------------------------------------------------------
(* Steps that go on with a transaction.                                    *)

LEMMA MoveKeeps ==
  ASSUME Inv, NEW r \in Request, Alone(r), answers' = answers, TypeOK', Stage(r)', Locks'
  PROVE  Inv'
<1>1. Answers'
  BY DEF Inv, Answers, Backed, OneResultPerKey, Alone, personaVars, rowVars
<1> QED
  BY <1>1, AloneInv

LEMMA GotoMoves ==
  ASSUME TypeOK, NEW r \in Request, NEW pc \in {"user", "persona", "inserting", "checked", "found"},
         Goto(r, pc)
  PROVE  /\ request' \in [Request -> RequestRow]
         /\ request'[r].pc = pc
         /\ request'[r].op = request[r].op /\ request'[r].scope = request[r].scope
         /\ request'[r].key = request[r].key /\ request'[r].input = request[r].input
         /\ request'[r].seen = request[r].seen
         /\ \A s \in Request \ {r} : request'[s] = request[s]
BY DEF TypeOK, Goto, RequestRow

LEMMA BeginStep ==
  ASSUME Inv, NEW r \in Request, NEW op \in Ops, NEW p \in Persona \cup {None}, NEW k \in Key,
         NEW i \in Input \cup {None}, Begin(r, op, p, k, i)
  PROVE  Inv'
<1> DEFINE row == [Idle EXCEPT !.pc = "begun", !.op = op, !.scope = p, !.key = k, !.input = i]
<1>1. row \in RequestRow
  BY RequestsAssumption DEF Idle, RequestRow
<1>2. TypeOK /\ Locks
  BY DEF Inv
<1>3. request' = [request EXCEPT ![r] = row]
  BY DEF Begin
<1>4. request' \in [Request -> RequestRow] /\ request'[r] = row
  BY <1>1, <1>2, <1>3 DEF TypeOK
<1>5. \A s \in Request \ {r} : request'[s] = request[s]
  BY <1>2, <1>3 DEF TypeOK
<1>6. TypeOK'
  BY <1>2, <1>4 DEF Begin, TypeOK, personaVars, rowVars, lockVars
<1>7. Alone(r) /\ answers' = answers
  BY <1>5 DEF Begin, Alone, lockVars, personaVars, rowVars
<1>8. row.pc = "begun" /\ row.op = op /\ row.scope = p /\ row.key = k /\ row.input = i
  BY DEF Idle
<1>9. Asked(r)'
  <2>1. state' = state
    BY DEF Begin, personaVars
  <2> HIDE DEF row
  <2> QED
    BY <1>4, <1>8, <2>1, RequestsAssumption DEF Begin, Asked
<1>10. Stage(r)'
  <2> HIDE DEF row
  <2> QED
    BY <1>4, <1>8, <1>9 DEF Stage, AtUserRow, BeforePersona, InPersona, CreatesPersona, Inserts
<1>11. Locks'
  BY <1>2, <1>5 DEF Begin, Locks, lockVars, TypeOK
<1> QED
  BY <1>6, <1>7, <1>10, <1>11, MoveKeeps

LEMMA LockUserStep == ASSUME Inv, NEW r \in Request, LockUser(r) PROVE Inv'
<1>1. TypeOK /\ Locks /\ Stage(r)
  BY DEF Inv
<1>2. Goto(r, "user")
  BY DEF LockUser
<1>3. TypeOK'
  BY <1>1, <1>2, GotoMoves DEF LockUser, TypeOK, personaVars, rowVars
<1>4. Alone(r) /\ answers' = answers
  BY <1>1, <1>2, GotoMoves, RequestsAssumption DEF LockUser, Alone, personaVars, rowVars
<1>5. Stage(r)'
  BY <1>1, <1>2, GotoMoves
  DEF LockUser, Stage, Asked, AtUserRow, BeforePersona, InPersona, CreatesPersona, Inserts,
      UserOps, personaVars
<1>6. Locks'
  BY <1>1, <1>2, GotoMoves DEF LockUser, Locks, UserOps, TypeOK
<1> QED
  BY <1>3, <1>4, <1>5, <1>6, MoveKeeps

LEMMA LockPersonaStep == ASSUME Inv, NEW r \in Request, LockPersona(r) PROVE Inv'
<1>1. TypeOK /\ Locks /\ Stage(r) /\ request[r].pc # "idle"
  BY DEF Inv, LockPersona, AtPersona
<1>2. /\ request[r].scope \in Persona /\ request[r].op \in AllOps /\ request[r].op # "create_persona"
      /\ request[r].op = "delete_persona" => userLock = r
  BY <1>1, RequestTyped
  DEF LockPersona, AtPersona, Stage, Asked, AtUserRow, BeforePersona, AllOps
<1>3. CASE state[request[r].scope] # "live"
  BY <1>1, <1>3, AnswerKeeps, RequestsAssumption DEF LockPersona, Refusals, Successes
<1>4. CASE state[request[r].scope] = "live"
  <2>1. /\ Goto(r, "persona") /\ personaLock' = [personaLock EXCEPT ![request[r].scope] = r]
        /\ personaLock[request[r].scope] = None
        /\ UNCHANGED <<personaVars, rowVars, userLock, answers, applied>>
    BY <1>4 DEF LockPersona
  <2>2. TypeOK'
    BY <1>1, <1>2, <2>1, GotoMoves DEF TypeOK, personaVars, rowVars
  <2>3. Alone(r) /\ answers' = answers
    BY <1>1, <1>2, <2>1, GotoMoves, RequestsAssumption DEF Alone, TypeOK
  <2>4. Asked(r)'
    BY <1>1, <2>1, GotoMoves DEF Stage, Asked, personaVars
  <2>5. HasPersona(r)'
    BY <1>1, <1>2, <1>4, <2>1, GotoMoves DEF HasPersona, TypeOK, personaVars
  <2>6. Stage(r)'
    BY <1>1, <1>2, <2>1, <2>4, <2>5, GotoMoves
    DEF Stage, AtUserRow, BeforePersona, InPersona, CreatesPersona, Inserts
  <2>7. Locks'
    BY <1>1, <1>2, <2>1, GotoMoves, RequestsAssumption DEF Locks, TypeOK
  <2> QED
    BY <2>2, <2>3, <2>6, <2>7, MoveKeeps
<1> QED
  BY <1>3, <1>4

\* A judgement that lets r go on to write.
LEMMA InsertKeeps ==
  ASSUME Inv, NEW r \in Request, request[r].pc # "idle", Goto(r, "inserting"),
         UNCHANGED <<personaVars, rowVars, lockVars, answers, applied>>,
         request[r].op = "create_persona" =>
           userLock = r /\ Admitted(r) /\ RecordsOf(r) = {},
         request[r].op # "create_persona" =>
           /\ request[r].op \in BelowOps
           /\ HasPersona(r)
           /\ request[r].op = "create_draft" => draft[request[r].scope] = None /\ RecordsOf(r) = {}
           /\ request[r].op = "discard_draft" => draft[request[r].scope] # None
           /\ request[r].op = "create_conversation" => active[request[r].scope] # None
  PROVE  Inv'
<1>1. TypeOK /\ Locks /\ Stage(r)
  BY DEF Inv
<1>2. UNCHANGED <<state, name, draft, active, records, userLock, personaLock, answers>>
  BY DEF personaVars, rowVars, lockVars
<1>3. TypeOK'
  BY <1>1, GotoMoves DEF TypeOK, personaVars, rowVars, lockVars
<1>4. Alone(r) /\ answers' = answers
  BY <1>1, <1>2, GotoMoves DEF Alone
<1>5. Asked(r)'
  BY <1>1, <1>2, GotoMoves DEF Stage, Asked
<1>6. CreatesPersona(r)'
  BY <1>1, <1>2, GotoMoves DEF CreatesPersona, Admitted, Live, RecordsOf
<1>7. Inserts(r)'
  BY <1>1, <1>2, GotoMoves DEF Inserts, HasPersona, RecordsOf
<1>8. Stage(r)'
  BY <1>1, <1>5, <1>6, <1>7, GotoMoves DEF Stage, AtUserRow, BeforePersona, InPersona
<1>9. Locks'
  <2>1. request'[r].pc = "inserting" /\ request'[r].op = request[r].op
        /\ request'[r].scope = request[r].scope
        /\ \A s \in Request \ {r} : request'[s] = request[s]
    BY <1>1, GotoMoves
  <2> QED
    BY <1>1, <1>2, <2>1 DEF Locks, TypeOK
<1> QED
  BY <1>3, <1>4, <1>8, <1>9, MoveKeeps

LEMMA JudgeSteps ==
  ASSUME Inv, NEW r \in Request,
         JudgePersona(r) \/ JudgeDraft(r) \/ JudgeDiscard(r) \/ JudgeConversation(r)
  PROVE  Inv'
<1>1. Stage(r) /\ request[r].pc # "idle"
  BY DEF Inv, JudgePersona, JudgeDraft, JudgeDiscard, JudgeConversation
<1>2. {"persona_limit_exceeded", "duplicate_persona_name", "draft_already_exists",
       "draft_not_started", "draft_not_found", "no_active_version"} \subseteq Refusals \ Successes
  BY RequestsAssumption DEF Refusals, Successes
<1>3. CASE JudgePersona(r)
  <2>1. userLock = r
    BY <1>1, <1>3 DEF JudgePersona, Stage, AtUserRow
  <2>2. CASE Admitted(r) /\ Goto(r, "inserting")
             /\ UNCHANGED <<personaVars, rowVars, lockVars, answers, applied>>
    BY <1>1, <1>3, <2>1, <2>2, InsertKeeps DEF JudgePersona
  <2>3. CASE Answer(r, "persona_limit_exceeded") \/ Answer(r, "duplicate_persona_name")
    BY <1>1, <1>2, <2>3, AnswerKeeps
  <2> QED
    BY <1>3, <2>2, <2>3 DEF JudgePersona
<1>4. CASE JudgeDraft(r)
  <2>1. HasPersona(r)
    BY <1>1, <1>4 DEF JudgeDraft, Stage, InPersona
  <2>2. CASE draft[request[r].scope] = None
    BY <1>1, <1>4, <2>1, <2>2, InsertKeeps DEF JudgeDraft, BelowOps
  <2>3. CASE draft[request[r].scope] # None
    BY <1>1, <1>2, <1>4, <2>3, AnswerKeeps DEF JudgeDraft
  <2> QED
    BY <2>2, <2>3
<1>5. CASE JudgeDiscard(r)
  <2>1. HasPersona(r)
    BY <1>1, <1>5 DEF JudgeDiscard, Stage, InPersona
  <2>2. CASE RecordsOf(r) # {} /\ Answer(r, "no_content")
    BY <1>1, <1>5, <2>2, AnswerKeeps DEF JudgeDiscard, Grounded, EmptyOps, Successes
  <2>3. CASE Answer(r, IF active[request[r].scope] # None THEN "draft_not_started"
                       ELSE "draft_not_found")
    BY <1>1, <1>2, <2>3, AnswerKeeps
  <2>4. CASE draft[request[r].scope] # None /\ Goto(r, "inserting")
             /\ UNCHANGED <<personaVars, rowVars, lockVars, answers, applied>>
    BY <1>1, <1>5, <2>1, <2>4, InsertKeeps DEF JudgeDiscard, BelowOps
  <2> QED
    BY <1>5, <2>2, <2>3, <2>4 DEF JudgeDiscard
<1>6. CASE JudgeConversation(r)
  <2>1. HasPersona(r)
    BY <1>1, <1>6 DEF JudgeConversation, Stage, InPersona
  <2>2. CASE active[request[r].scope] # None
    BY <1>1, <1>6, <2>1, <2>2, InsertKeeps DEF JudgeConversation, BelowOps
  <2>3. CASE active[request[r].scope] = None
    BY <1>1, <1>2, <1>6, <2>3, AnswerKeeps DEF JudgeConversation
  <2> QED
    BY <2>2, <2>3
<1> QED
  BY <1>3, <1>4, <1>5, <1>6

LEMMA ReplaySteps ==
  ASSUME Inv, NEW r \in Request,
         ReplayPersona(r) \/ ReplayDelete(r) \/ ReplayDraft(r) \/ ReplayConversation(r)
  PROVE  Inv'
<1>1. TypeOK /\ Stage(r) /\ request[r].pc # "idle"
  BY DEF Inv, ReplayPersona, ReplayDelete, ReplayDraft, ReplayConversation
<1>2. {"idempotency_conflict", "persona_not_found", "draft_not_found", "internal_error"}
        \subseteq Refusals \ Successes
  BY RequestsAssumption DEF Refusals, Successes
<1>3. Persona \subseteq Successes /\ Thing \subseteq Successes /\ "no_content" \in Successes
  BY DEF Successes
<1>4. ASSUME NEW res, Replayed(r, res)
      PROVE  \E x \in records : SameKey(x, request[r]) /\ x.result = res
  BY <1>4 DEF Replayed, RecordsOf, SameKey
<1>5. CASE ReplayPersona(r)
  <2>1. CASE Answer(r, "idempotency_conflict")
    BY <1>1, <1>2, <2>1, AnswerKeeps
  <2>2. CASE \E p \in Persona :
               Replayed(r, p) /\ Answer(r, IF state[p] = "deleted" THEN "persona_not_found" ELSE p)
    <3>1. PICK p \in Persona :
            Replayed(r, p) /\ Answer(r, IF state[p] = "deleted" THEN "persona_not_found" ELSE p)
      BY <2>2
    <3>2. Grounded(r, p)
      BY <1>4, <1>5, <3>1 DEF Grounded, ReplayPersona
    <3> QED
      BY <1>1, <1>2, <1>3, <3>1, <3>2, AnswerKeeps
  <2> QED
    BY <1>5, <2>1, <2>2 DEF ReplayPersona
<1>6. CASE ReplayDelete(r)
  BY <1>1, <1>3, <1>6, AnswerKeeps DEF ReplayDelete, Grounded, EmptyOps
<1>7. CASE ReplayDraft(r)
  <2>1. CASE Answer(r, "idempotency_conflict")
    BY <1>1, <1>2, <2>1, AnswerKeeps
  <2>2. CASE \E v \in Thing :
               Replayed(r, v) /\ Answer(r, IF v \in VersionIds THEN v ELSE "draft_not_found")
    <3>1. PICK v \in Thing :
            Replayed(r, v) /\ Answer(r, IF v \in VersionIds THEN v ELSE "draft_not_found")
      BY <2>2
    <3>2. Grounded(r, v)
      BY <1>1, <1>4, <1>7, <3>1 DEF Grounded, ReplayDraft, Stage, InPersona, HasPersona
    <3> QED
      BY <1>1, <1>2, <1>3, <3>1, <3>2, AnswerKeeps
  <2> QED
    BY <1>7, <2>1, <2>2 DEF ReplayDraft
<1>8. CASE ReplayConversation(r)
  <2>1. /\ request[r].op = "create_conversation" /\ FoundStands(r)
        /\ request[r].scope \in Persona
    BY <1>1, <1>8, RequestTyped DEF ReplayConversation, Stage, BeforePersona, Asked
  <2>2. CASE ~ \E c \in convs : c.id = request[r].seen
    BY <1>1, <1>2, <1>8, <2>2, AnswerKeeps DEF ReplayConversation
  <2>3. CASE \E c \in convs : c.id = request[r].seen
    <3>1. PICK c \in convs : c.id = request[r].seen
      BY <2>3
    <3>2. state[request[r].scope] = "live"
      BY <2>1, <3>1 DEF FoundStands, Inv, NothingRemains
    <3>3. request[r].seen \in Thing
      BY <1>1, <3>1 DEF TypeOK
    <3>4. Grounded(r, request[r].seen)
      BY <2>1, <3>2 DEF Grounded, FoundStands
    <3> QED
      BY <1>1, <1>3, <1>8, <2>3, <3>3, <3>4, AnswerKeeps DEF ReplayConversation
  <2> QED
    BY <2>2, <2>3
<1> QED
  BY <1>5, <1>6, <1>7, <1>8

LEMMA RefuseSteps ==
  ASSUME Inv, NEW r \in Request, RefuseDelete(r) \/ RollBack(r)
  PROVE  Inv'
<1>1. {"persona_busy", "internal_error"} \subseteq Refusals \ Successes
  BY RequestsAssumption DEF Refusals, Successes
<1> QED
  BY <1>1, AnswerKeeps DEF RefuseDelete, RollBack

LEMMA LookUpStep == ASSUME Inv, NEW r \in Request, LookUpConversation(r) PROVE Inv'
<1>1. TypeOK /\ Locks /\ Stage(r) /\ request[r].pc # "idle"
  BY DEF Inv, LookUpConversation
<1>2. UNCHANGED <<state, name, draft, active, versions, convs, records, made, applied,
                  userLock, personaLock, answers>>
  BY DEF LookUpConversation, personaVars, rowVars, lockVars
<1>3. request[r].op = "create_conversation" /\ request[r].scope \in Persona
  BY <1>1, RequestTyped DEF LookUpConversation, Stage, Asked
<1>4. request[r].pc = "begun"
  BY DEF LookUpConversation
<1>5. CASE RecordsOf(r) = {}
  <2>1. Goto(r, "checked")
    BY <1>5 DEF LookUpConversation
  <2>2. TypeOK' /\ Alone(r)
    BY <1>1, <1>2, <2>1, GotoMoves DEF TypeOK, Alone, personaVars, rowVars
  <2>3. Stage(r)'
    BY <1>1, <1>2, <1>3, <2>1, GotoMoves
    DEF Stage, Asked, AtUserRow, BeforePersona, InPersona, CreatesPersona, Inserts
  <2>4. Locks'
    <3>1. \A s \in Request \ {r} : request'[s] = request[s]
      BY <1>1, <2>1, GotoMoves
    <3> QED
      BY <1>1, <1>2, <1>4, <3>1 DEF Locks, TypeOK
  <2> QED
    BY <1>2, <2>2, <2>3, <2>4, MoveKeeps
<1>6. CASE RecordsOf(r) # {}
  <2>1. PICK x \in RecordsOf(r) :
          request' = [request EXCEPT ![r].pc = "found", ![r].seen = x.result]
    BY <1>6 DEF LookUpConversation
  <2>2. x \in records /\ SameKey(x, request[r])
    BY DEF RecordsOf, SameKey
  <2>3. PICK c \in convs : c.id = x.result /\ c.persona = x.scope
    BY <1>3, <2>2 DEF Inv, Records, RecordOK, SameKey
  <2>4. x.result \in Thing /\ x.result \in made
    BY <1>1, <2>3 DEF TypeOK, Inv, Rows
  <2>5. /\ request' \in [Request -> RequestRow]
        /\ request'[r].pc = "found" /\ request'[r].seen = x.result
        /\ request'[r].op = request[r].op /\ request'[r].scope = request[r].scope
        /\ request'[r].key = request[r].key /\ request'[r].input = request[r].input
        /\ \A s \in Request \ {r} : request'[s] = request[s]
    <3> DEFINE row == [request[r] EXCEPT !.pc = "found", !.seen = x.result]
    <3>0. request[r] \in RequestRow
      BY <1>1 DEF TypeOK
    <3>1. row \in RequestRow
      BY <2>4, <3>0 DEF RequestRow
    <3>2. request' = [request EXCEPT ![r] = row]
      BY <1>1, <2>1 DEF TypeOK
    <3>3. /\ row.pc = "found" /\ row.seen = x.result /\ row.op = request[r].op
          /\ row.scope = request[r].scope /\ row.key = request[r].key
          /\ row.input = request[r].input
      BY <3>0 DEF RequestRow
    <3> HIDE DEF row
    <3> QED
      BY <1>1, <3>1, <3>2, <3>3 DEF TypeOK
  <2>6. TypeOK' /\ Alone(r)
    BY <1>1, <1>2, <2>5 DEF TypeOK, Alone, personaVars, rowVars
  <2>7. FoundStands(r)'
    BY <1>2, <1>3, <2>2, <2>3, <2>4, <2>5 DEF FoundStands, Inv, Rows, SameKey
  <2>8. Stage(r)'
    BY <1>1, <1>2, <1>3, <2>5, <2>7
    DEF Stage, Asked, AtUserRow, BeforePersona, InPersona, CreatesPersona, Inserts
  <2>9. Locks'
    BY <1>1, <1>2, <1>4, <2>5 DEF Locks, TypeOK
  <2> QED
    BY <1>2, <2>6, <2>8, <2>9, MoveKeeps
<1> QED
  BY <1>5, <1>6

-----------------------------------------------------------------------------
(* Steps that write.                                                       *)

LEMMA BackedStays ==
  ASSUME Inv, Forward, NEW a \in answers
  PROVE  Backed(a)'
<1>1. Backed(a) /\ TypeOK
  BY DEF Inv, Answers
<1>2. CASE \E x \in records : SameKey(x, a) /\ x.result = a.result
  <2>1. PICK x \in records : SameKey(x, a) /\ x.result = a.result
    BY <1>2
  <2>2. CASE x \in records'
    BY <2>1, <2>2 DEF Backed
  <2>3. CASE x.scope \in Persona /\ state'[x.scope] = "deleted"
    <3>1. x.op \in AllOps /\ x.op # "create_persona"
      BY <1>1, <2>3, RequestsAssumption DEF TypeOK, Record, Inv, Records, RecordOK
    <3>2. x.op \in EmptyOps => x.result = "no_content"
      BY DEF Inv, Records, RecordOK
    <3> QED
      BY <2>1, <2>3, <3>1, <3>2 DEF Backed, SameKey, AllOps, EmptyOps
  <2> QED
    BY <2>2, <2>3 DEF Forward
<1>3. CASE a.op \in {"create_draft", "create_conversation"} /\ a.scope \in Persona
           /\ state[a.scope] = "deleted"
  BY <1>3 DEF Backed, Forward
<1> QED
  BY <1>1, <1>2, <1>3 DEF Backed

RowsTyped ==
  /\ state \in [Persona -> {"unborn", "live", "deleted"}]
  /\ name \in [Persona -> Input \cup {None}]
  /\ draft \in [Persona -> Thing \cup {None}]
  /\ active \in [Persona -> Thing \cup {None}]
  /\ versions \in SUBSET [persona : Persona, id : Thing, title : Input]
  /\ convs \in SUBSET [persona : Persona, id : Thing, from : Thing]
  /\ records \in SUBSET Record
  /\ made \in SUBSET Thing
  /\ applied \in SUBSET Thing

\* A transaction that ends with changes of the rows.
LEMMA CommitKeeps ==
  ASSUME Inv, NEW r \in Request, request[r].pc # "idle", NEW ans \in Successes,
         Finish(r, ans), Forward, \A s \in Request \ {r} : Spares(s), RowsTyped',
         Rows', Records', LiveInv', NothingRemains', NoStrayVersion',
         \/ request[r].op \in EmptyOps /\ ans = "no_content"
         \/ /\ \E x \in records' : SameKey(x, request[r]) /\ x.result = ans
            /\ request[r].op # "create_persona" => state'[request[r].scope] = "live"
  PROVE  Inv'
<1>1. TypeOK'
  BY FinishAlone DEF TypeOK, RowsTyped
<1>2. ASSUME NEW s \in Request PROVE Stage(s)'
  <2>1. CASE s = r
    BY <2>1, FinishAlone DEF Stage
  <2>2. CASE s # r
    BY <2>2, SparedStage
  <2> QED
    BY <2>1, <2>2
<1>3. Locks'
  BY FinishLocks
<1>4. Answers'
  BY BackedStays, AnswersGrow
<1> QED
  BY <1>1, <1>2, <1>3, <1>4 DEF Inv

LEMMA NewRecordTyped ==
  ASSUME Inv, NEW r \in Request, request[r].pc # "idle", NEW ans \in Successes
  PROVE  /\ NewRecord(r, ans) \in Record
         /\ SameKey(NewRecord(r, ans), request[r]) /\ NewRecord(r, ans).result = ans
BY RequestTyped DEF Inv, Stage, Asked, NewRecord, Record, SameKey

\* With one record more, of a key that had none or the same result.
LEMMA RecordsGrow ==
  ASSUME Inv, NEW new, NEW kept \in SUBSET records, records' = kept \cup {new},
         \A x \in records : SameKey(x, new) => x.result = new.result,
         RecordOK(new)', \A x \in kept : RecordOK(x)'
  PROVE  Records'
<1>1. \A x \in records' : RecordOK(x)'
  OBVIOUS
<1>2. \A x, y \in records' : SameKey(x, y) => x.result = y.result
  BY DEF Inv, Records, SameKey
<1> QED
  BY <1>1, <1>2 DEF Records

LEMMA CreatePersonaStep == ASSUME Inv, NEW r \in Request, CreatePersona(r) PROVE Inv'
<1>1. TypeOK /\ Stage(r) /\ request[r].pc = "inserting" /\ request[r].op = "create_persona"
      /\ request[r].pc # "idle"
  BY DEF Inv, CreatePersona
<1>2. userLock = r /\ Admitted(r) /\ RecordsOf(r) = {} /\ request[r].scope = None
  BY <1>1 DEF Stage, Asked, CreatesPersona
<1>3. PICK p \in Persona :
        /\ state[p] = "unborn"
        /\ state' = [state EXCEPT ![p] = "live"]
        /\ name' = [name EXCEPT ![p] = request[r].input]
        /\ records' = records \cup {NewRecord(r, p)}
        /\ Finish(r, p)
  BY DEF CreatePersona
<1>4. UNCHANGED <<draft, active, versions, convs, made, applied>>
  BY DEF CreatePersona
<1>5. p \in Successes
  BY DEF Successes
<1>6. PICK new : new = NewRecord(r, p)
  OBVIOUS
<1>7. /\ new \in Record /\ SameKey(new, request[r]) /\ new.result = p
      /\ new.op = "create_persona" /\ new.scope = None
  BY <1>1, <1>2, <1>5, <1>6, NewRecordTyped DEF SameKey
<1>8. RowsTyped'
  BY <1>1, <1>3, <1>4, <1>6, <1>7, RequestTyped DEF TypeOK, RowsTyped
<1>9. /\ state'[p] = "live" /\ \A q \in Persona \ {p} : state'[q] = state[q]
      /\ name'[p] = request[r].input /\ \A q \in Persona \ {p} : name'[q] = name[q]
  BY <1>1, <1>3 DEF TypeOK
<1>10. Forward
  BY <1>3, <1>4, <1>9 DEF Forward
<1>11. ASSUME NEW s \in Request \ {r} PROVE Spares(s)
  <2>1. request'[s] = request[s] /\ userLock # s
        /\ \A q \in Persona : personaLock[q] = s => personaLock'[q] = s
    BY <1>1, <1>2, <1>3, <1>5, FinishAlone
  <2>2. \A q \in Persona : personaLock[q] = s => q # p
    BY <1>3, RequestsAssumption DEF Inv, Locks, Stage, HasPersona, InPersona, Inserts,
       CreatesPersona, Asked
  <2> QED
    BY <1>3, <1>4, <1>6, <1>7, <1>9, <2>1, <2>2 DEF Spares
<1>12. Rows' /\ NothingRemains' /\ NoStrayVersion'
  BY <1>1, <1>3, <1>4, <1>9, <1>6, <1>7
  DEF Inv, Rows, NothingRemains, NoStrayVersion, TypeOK, Record, BelowOps, Records, RecordOK
<1>13. Records'
  <2>1. \A x \in records : ~SameKey(x, new)
    BY <1>2, <1>7 DEF RecordsOf, SameKey
  <2>2. RecordOK(new)'
    BY <1>7, <1>9 DEF RecordOK, EmptyOps
  <2>3. \A x \in records : RecordOK(x)'
    BY <1>4, <1>9 DEF Inv, Records, RecordOK
  <2> QED
    BY <1>3, <1>6, <2>1, <2>2, <2>3, RecordsGrow
<1>14. LiveInv'
  <2>1. Live' = Live \cup {p} /\ p \notin Live
    BY <1>3, <1>9 DEF Live
  <2>2. IsFiniteSet(Live) /\ Cardinality(Live) \in Nat /\ Cardinality(Live) < Limit
    BY <1>2, FS_CardinalityType DEF Inv, LiveInv, Admitted
  <2>3. IsFiniteSet(Live') /\ Cardinality(Live') = Cardinality(Live) + 1
    BY <2>1, <2>2, FS_AddElement
  <2>4. Cardinality(Live') <= Limit
    BY <2>2, <2>3, RequestsAssumption
  <2>5. \A x, y \in Live' : name'[x] = name'[y] => x = y
    BY <1>2, <1>9, <2>1 DEF Inv, LiveInv, LimitKept, Admitted, Live
  <2> QED
    BY <2>3, <2>4, <2>5 DEF LiveInv, LimitKept, Live
<1> QED
  BY <1>1, <1>3, <1>5, <1>6, <1>7, <1>8, <1>10, <1>11, <1>12, <1>13, <1>14, CommitKeeps

LEMMA DeletePersonaStep == ASSUME Inv, NEW r \in Request, DeletePersona(r) PROVE Inv'
<1>1. TypeOK /\ Stage(r) /\ request[r].pc = "persona" /\ request[r].op = "delete_persona"
      /\ request[r].pc # "idle"
  BY DEF Inv, DeletePersona
<1>2. userLock = r /\ HasPersona(r)
  BY <1>1 DEF Stage, InPersona
<1>3. PICK p \in Persona : p = request[r].scope
  BY <1>2 DEF HasPersona
<1>4. PICK new : new = NewRecord(r, "no_content")
  OBVIOUS
<1>5. "no_content" \in Successes
  BY DEF Successes
<1>6. /\ new \in Record /\ SameKey(new, request[r]) /\ new.result = "no_content"
      /\ new.op = "delete_persona" /\ new.scope = p
  BY <1>1, <1>3, <1>4, <1>5, NewRecordTyped DEF SameKey
<1>7. PICK kept \in SUBSET records :
        kept = {x \in records : x.scope = p => x.op \in {"create_persona", "delete_persona"}}
  OBVIOUS
<1>8. /\ state' = [state EXCEPT ![p] = "deleted"] /\ name' = [name EXCEPT ![p] = None]
      /\ draft' = [draft EXCEPT ![p] = None] /\ active' = [active EXCEPT ![p] = None]
      /\ versions' = {v \in versions : v.persona # p} /\ convs' = {c \in convs : c.persona # p}
      /\ records' = kept \cup {new}
      /\ Finish(r, "no_content") /\ made' = made /\ applied' = applied
  BY <1>3, <1>4, <1>7 DEF DeletePersona, Remaining
<1>9. /\ state'[p] = "deleted" /\ \A q \in Persona \ {p} : state'[q] = state[q]
      /\ draft'[p] = None /\ \A q \in Persona \ {p} : draft'[q] = draft[q]
      /\ active'[p] = None /\ \A q \in Persona \ {p} : active'[q] = active[q]
      /\ \A q \in Persona \ {p} : name'[q] = name[q]
  BY <1>1, <1>8 DEF TypeOK
<1>10. RowsTyped'
  BY <1>1, <1>6, <1>8 DEF TypeOK, RowsTyped
<1>11. Forward
  BY <1>7, <1>8, <1>9 DEF Forward
<1>12. ASSUME NEW s \in Request \ {r} PROVE Spares(s)
  <2>1. request'[s] = request[s] /\ userLock # s
        /\ \A q \in Persona : personaLock[q] = s => personaLock'[q] = s
    BY <1>1, <1>2, <1>5, <1>8, FinishAlone
  <2>2. \A q \in Persona : personaLock[q] = s => q # p
    BY <1>2, <1>3 DEF HasPersona
  <2> QED
    BY <1>6, <1>7, <1>8, <1>9, <2>1, <2>2 DEF Spares
<1>13. Rows' /\ NothingRemains' /\ NoStrayVersion'
  <2>1. Rows'
    BY <1>1, <1>8, <1>9 DEF Inv, Rows, TypeOK
  <2>2. NoStrayVersion'
    BY <1>1, <1>8, <1>9 DEF Inv, NoStrayVersion, TypeOK
  <2>3. (\A v \in versions' : state'[v.persona] = "live") /\ \A c \in convs' : state'[c.persona] = "live"
    BY <1>1, <1>8, <1>9 DEF Inv, NothingRemains, TypeOK
  <2>4. ASSUME NEW x \in records', x.op \in BelowOps PROVE state'[x.scope] = "live"
    <3>1. x \in records /\ x.scope # p
      BY <1>6, <1>7, <1>8, <2>4 DEF BelowOps
    <3>2. x.scope \in Persona
      BY <1>1, <2>4, <3>1 DEF TypeOK, Record, Inv, Records, RecordOK, BelowOps
    <3> QED
      BY <1>9, <2>4, <3>1, <3>2 DEF Inv, NothingRemains, BelowOps
  <2> QED
    BY <2>1, <2>2, <2>3, <2>4 DEF NothingRemains, BelowOps
<1>14. Records'
  <2>1. \A x \in records : SameKey(x, new) => x.result = new.result
    BY <1>6 DEF Inv, Records, RecordOK, SameKey, EmptyOps
  <2>2. RecordOK(new)'
    BY <1>3, <1>6, RequestsAssumption DEF RecordOK, EmptyOps
  <2>3. ASSUME NEW x \in kept PROVE RecordOK(x)'
    <3>1. RecordOK(x)
      BY <1>7 DEF Inv, Records
    <3>2. x.op = "create_persona" => x.result \in Persona /\ state'[x.result] # "unborn"
      BY <1>9, <3>1 DEF RecordOK
    <3>3. x.op = "create_conversation" => \E c \in convs' : c.id = x.result /\ c.persona = x.scope
      BY <1>7, <1>8, <3>1 DEF RecordOK
    <3> QED
      BY <3>1, <3>2, <3>3 DEF RecordOK
  <2> QED
    BY <1>8, <2>1, <2>2, <2>3, RecordsGrow
<1>15. LiveInv'
  <2>1. Live' = Live \ {p}
    BY <1>8, <1>9 DEF Live
  <2>2. IsFiniteSet(Live) /\ Cardinality(Live) \in Nat /\ Cardinality(Live) <= Limit
    BY FS_CardinalityType DEF Inv, LiveInv, LimitKept
  <2>3. IsFiniteSet(Live') /\ Cardinality(Live') <= Cardinality(Live)
    BY <2>1, <2>2, FS_Subset
  <2>4. Cardinality(Live') <= Limit
    BY <2>2, <2>3, FS_CardinalityType, RequestsAssumption
  <2>5. \A x, y \in Live' : name'[x] = name'[y] => x = y
    BY <1>9, <2>1 DEF Inv, LiveInv, LimitKept, Live
  <2> QED
    BY <2>3, <2>4, <2>5 DEF LiveInv, LimitKept, Live
<1>16. request[r].op \in EmptyOps
  BY <1>1 DEF EmptyOps
<1> QED
  BY <1>1, <1>5, <1>8, <1>10, <1>11, <1>12, <1>13, <1>14, <1>15, <1>16, CommitKeeps

\* A draft is only made or discarded by the one who has the persona's row.
LEMMA DraftSpares ==
  ASSUME Inv, NEW r \in Request, NEW p \in Persona, personaLock[p] = r,
         NEW new, new.op \in BelowOps, new.scope = p, records' = records \cup {new},
         \A q \in Persona \ {p} : draft'[q] = draft[q],
         UNCHANGED <<state, name, active>>,
         NEW s \in Request \ {r}, request'[s] = request[s], userLock = s => userLock' = s,
         \A q \in Persona : personaLock[q] = s => personaLock'[q] = s
  PROVE  Spares(s)
BY DEF Spares, BelowOps

LEMMA CreateDraftStep == ASSUME Inv, NEW r \in Request, CreateDraft(r) PROVE Inv'
<1>1. TypeOK /\ Stage(r) /\ request[r].pc = "inserting" /\ request[r].op = "create_draft"
      /\ request[r].pc # "idle"
  BY DEF Inv, CreateDraft
<1>2. HasPersona(r) /\ RecordsOf(r) = {} /\ draft[request[r].scope] = None
      /\ request[r].input # None
  BY <1>1 DEF Stage, Asked, Inserts
<1>3. PICK p \in Persona : p = request[r].scope
  BY <1>2 DEF HasPersona
<1>4. PICK v \in Thing \ made :
       /\ made' = made \cup {v}
       /\ draft' = [draft EXCEPT ![p] = v]
       /\ versions' = versions \cup {[persona |-> p, id |-> v, title |-> request[r].input]}
       /\ records' = records \cup {NewRecord(r, v)}
       /\ Finish(r, v)
  BY <1>3 DEF CreateDraft
<1>5. UNCHANGED <<state, name, active, convs, applied>>
  BY DEF CreateDraft
<1>6. v \in Successes
  BY DEF Successes
<1>7. PICK new : new = NewRecord(r, v)
  OBVIOUS
<1>8. /\ new \in Record /\ SameKey(new, request[r]) /\ new.result = v
      /\ new.op = "create_draft" /\ new.scope = p
  BY <1>1, <1>3, <1>6, <1>7, NewRecordTyped DEF SameKey
<1>9. draft'[p] = v /\ \A q \in Persona \ {p} : draft'[q] = draft[q]
  BY <1>1, <1>4 DEF TypeOK
<1>10. RowsTyped'
  <2>1. request[r].input \in Input
    BY <1>1, <1>2, RequestTyped
  <2> QED
    BY <1>1, <1>4, <1>5, <1>7, <1>8, <2>1 DEF TypeOK, RowsTyped
<1>11. Forward
  BY <1>4, <1>5 DEF Forward
<1>12. ASSUME NEW s \in Request \ {r} PROVE Spares(s)
  BY <1>1, <1>2, <1>3, <1>4, <1>5, <1>6, <1>7, <1>8, <1>9, FinishAlone, DraftSpares
  DEF HasPersona, BelowOps
<1>13. state[p] = "live"
  BY <1>2, <1>3 DEF HasPersona
<1>14. Rows'
  BY <1>1, <1>4, <1>5, <1>9, <1>13 DEF Inv, Rows, TypeOK
<1>15. NothingRemains'
  BY <1>4, <1>5, <1>7, <1>8, <1>13 DEF Inv, NothingRemains
<1>16. NoStrayVersion'
  <2>1. ASSUME NEW w \in versions PROVE w.id = draft'[w.persona] \/ w.id \in applied'
    <3>1. w.persona \in Persona /\ w.id \in Thing
      BY <1>1 DEF TypeOK
    <3> QED
      BY <1>2, <1>3, <1>5, <1>9, <3>1, RequestsAssumption DEF Inv, NoStrayVersion
  <2> QED
    BY <1>4, <1>9, <2>1 DEF NoStrayVersion
<1>17. Records'
  <2>1. \A x \in records : ~SameKey(x, new)
    BY <1>2, <1>8 DEF RecordsOf, SameKey
  <2>2. RecordOK(new)'
    BY <1>8, RequestsAssumption DEF RecordOK, EmptyOps
  <2>3. \A x \in records : RecordOK(x)'
    BY <1>5 DEF Inv, Records, RecordOK
  <2> QED
    BY <1>4, <1>7, <2>1, <2>2, <2>3, RecordsGrow
<1>18. LiveInv'
  BY <1>5 DEF Inv, LiveInv, LimitKept, Live
<1>19. \E x \in records' : SameKey(x, request[r]) /\ x.result = v
  BY <1>4, <1>7, <1>8
<1> QED
  BY <1>1, <1>3, <1>4, <1>5, <1>6, <1>10, <1>11, <1>12, <1>13, <1>14, <1>15, <1>16, <1>17, <1>18,
     <1>19, CommitKeeps

LEMMA DiscardDraftStep == ASSUME Inv, NEW r \in Request, DiscardDraft(r) PROVE Inv'
<1>1. TypeOK /\ Stage(r) /\ request[r].pc = "inserting" /\ request[r].op = "discard_draft"
      /\ request[r].pc # "idle"
  BY DEF Inv, DiscardDraft
<1>2. HasPersona(r) /\ draft[request[r].scope] # None
  BY <1>1 DEF Stage, Inserts
<1>3. PICK p \in Persona : p = request[r].scope
  BY <1>2 DEF HasPersona
<1>4. PICK new : new = NewRecord(r, "no_content")
  OBVIOUS
<1>5. /\ draft' = [draft EXCEPT ![p] = None]
      /\ versions' = {v \in versions : v.id # draft[p]}
      /\ records' = records \cup {new}
      /\ Finish(r, "no_content")
      /\ UNCHANGED <<state, name, active, convs, made, applied>>
  BY <1>3, <1>4 DEF DiscardDraft
<1>6. "no_content" \in Successes
  BY DEF Successes
<1>7. /\ new \in Record /\ SameKey(new, request[r]) /\ new.result = "no_content"
      /\ new.op = "discard_draft" /\ new.scope = p
  BY <1>1, <1>3, <1>4, <1>6, NewRecordTyped DEF SameKey
<1>8. draft'[p] = None /\ \A q \in Persona \ {p} : draft'[q] = draft[q]
  BY <1>1, <1>5 DEF TypeOK
<1>9. RowsTyped'
  BY <1>1, <1>5, <1>7 DEF TypeOK, RowsTyped
<1>10. Forward
  BY <1>5 DEF Forward
<1>11. ASSUME NEW s \in Request \ {r} PROVE Spares(s)
  BY <1>1, <1>2, <1>3, <1>5, <1>6, <1>7, <1>8, FinishAlone, DraftSpares DEF HasPersona, BelowOps
<1>12. state[p] = "live"
  BY <1>2, <1>3 DEF HasPersona
<1>13. Rows'
  BY <1>1, <1>5, <1>8, <1>12 DEF Inv, Rows, TypeOK
<1>14. NothingRemains'
  BY <1>5, <1>7, <1>12 DEF Inv, NothingRemains
<1>15. NoStrayVersion'
  <2>1. ASSUME NEW w \in versions' PROVE w.id = draft'[w.persona] \/ w.id \in applied'
    <3>1. w \in versions /\ w.persona \in Persona /\ w.id # draft[p]
      BY <1>1, <1>5 DEF TypeOK
    <3> QED
      BY <1>5, <1>8, <3>1 DEF Inv, NoStrayVersion
  <2> QED
    BY <2>1 DEF NoStrayVersion
<1>16. Records'
  <2>1. \A x \in records : SameKey(x, new) => x.result = new.result
    BY <1>7 DEF Inv, Records, RecordOK, SameKey, EmptyOps
  <2>2. RecordOK(new)'
    BY <1>7, RequestsAssumption DEF RecordOK, EmptyOps
  <2>3. \A x \in records : RecordOK(x)'
    BY <1>5 DEF Inv, Records, RecordOK
  <2> QED
    BY <1>5, <2>1, <2>2, <2>3, RecordsGrow
<1>17. LiveInv'
  BY <1>5 DEF Inv, LiveInv, LimitKept, Live
<1>18. request[r].op \in EmptyOps
  BY <1>1 DEF EmptyOps
<1> QED
  BY <1>1, <1>5, <1>6, <1>9, <1>10, <1>11, <1>13, <1>14, <1>15, <1>16, <1>17, <1>18, CommitKeeps

LEMMA CreateConversationStep ==
  ASSUME Inv, NEW r \in Request, CreateConversation(r) PROVE Inv'
<1>1. TypeOK /\ Stage(r) /\ request[r].pc = "inserting" /\ request[r].op = "create_conversation"
      /\ request[r].pc # "idle"
  BY DEF Inv, CreateConversation
<1>2. HasPersona(r) /\ active[request[r].scope] # None
  BY <1>1 DEF Stage, Inserts
<1>3. PICK p \in Persona : p = request[r].scope
  BY <1>2 DEF HasPersona
<1>4. CASE Answer(r, "internal_error")
  BY <1>1, <1>4, AnswerKeeps, RequestsAssumption DEF Refusals, Successes
<1>5. CASE RecordsOf(r) = {} /\ ~Answer(r, "internal_error")
  <2>1. PICK c \in Thing \ made :
          /\ made' = made \cup {c}
          /\ convs' = convs \cup {[persona |-> p, id |-> c, from |-> active[p]]}
          /\ records' = records \cup {NewRecord(r, c)}
          /\ Finish(r, c)
    BY <1>3, <1>5 DEF CreateConversation
  <2>2. UNCHANGED <<state, name, draft, active, versions, applied>>
    BY <1>5 DEF CreateConversation, personaVars
  <2>3. c \in Successes
    BY DEF Successes
  <2>4. PICK new : new = NewRecord(r, c)
    OBVIOUS
  <2>5. /\ new \in Record /\ SameKey(new, request[r]) /\ new.result = c
        /\ new.op = "create_conversation" /\ new.scope = p
    BY <1>1, <1>3, <2>3, <2>4, NewRecordTyped DEF SameKey
  <2>6. PICK d : d = [persona |-> p, id |-> c, from |-> active[p]]
    OBVIOUS
  <2>7. /\ d \in [persona : Persona, id : Thing, from : Thing]
        /\ d.id = c /\ d.persona = p /\ convs' = convs \cup {d}
    BY <1>1, <1>2, <1>3, <2>1, <2>6 DEF TypeOK
  <2>8. RowsTyped'
    BY <1>1, <2>1, <2>2, <2>4, <2>5, <2>7 DEF TypeOK, RowsTyped
  <2>9. Forward
    BY <2>1, <2>2, <2>7 DEF Forward
  <2>10. ASSUME NEW s \in Request \ {r} PROVE Spares(s)
    BY <1>1, <1>2, <1>3, <2>1, <2>2, <2>3, <2>4, <2>5, FinishAlone, DraftSpares
    DEF HasPersona, BelowOps
  <2>11. state[p] = "live"
    BY <1>2, <1>3 DEF HasPersona
  <2>12. Rows'
    BY <1>1, <2>1, <2>2, <2>7, <2>11 DEF Inv, Rows, TypeOK
  <2>13. NothingRemains'
    BY <2>1, <2>2, <2>4, <2>5, <2>7, <2>11 DEF Inv, NothingRemains
  <2>14. NoStrayVersion'
    BY <2>2 DEF Inv, NoStrayVersion
  <2>15. Records'
    <3>1. \A x \in records : ~SameKey(x, new)
      BY <1>5, <2>5 DEF RecordsOf, SameKey
    <3>2. RecordOK(new)'
      BY <2>5, <2>7, RequestsAssumption DEF RecordOK, EmptyOps
    <3>3. \A x \in records : RecordOK(x)'
      BY <2>2, <2>7 DEF Inv, Records, RecordOK
    <3> QED
      BY <2>1, <2>4, <3>1, <3>2, <3>3, RecordsGrow
  <2>16. LiveInv'
    BY <2>2 DEF Inv, LiveInv, LimitKept, Live
  <2>17. \E x \in records' : SameKey(x, request[r]) /\ x.result = c
    BY <2>1, <2>4, <2>5
  <2> QED
    BY <1>1, <1>3, <2>1, <2>2, <2>3, <2>8, <2>9, <2>10, <2>11, <2>12, <2>13, <2>14, <2>15, <2>16,
       <2>17, CommitKeeps
<1> QED
  BY <1>4, <1>5 DEF CreateConversation

LEMMA ActivateStep == ASSUME Inv, NEW p \in Persona, ActivateDraft(p) PROVE Inv'
<1>1. TypeOK /\ state[p] = "live" /\ personaLock[p] = None /\ draft[p] # None
  BY DEF Inv, ActivateDraft
<1>2. /\ active' = [active EXCEPT ![p] = draft[p]]
      /\ draft' = [draft EXCEPT ![p] = None]
      /\ applied' = applied \cup {draft[p]}
      /\ UNCHANGED <<state, name, versions, convs, records, made, userLock, personaLock,
                     request, answers>>
  BY DEF ActivateDraft, rowVars, lockVars
<1>3. /\ active'[p] = draft[p] /\ draft'[p] = None
      /\ \A q \in Persona \ {p} : active'[q] = active[q] /\ draft'[q] = draft[q]
  BY <1>1, <1>2 DEF TypeOK
<1>4. TypeOK'
  BY <1>1, <1>2 DEF TypeOK
<1>5. Forward
  BY <1>2 DEF Forward
<1>6. ASSUME NEW s \in Request PROVE Stage(s)'
  BY <1>1, <1>2, <1>3, <1>5, SparedStage, RequestsAssumption DEF Spares
<1>7. Locks' /\ Records' /\ LiveInv' /\ NothingRemains'
  BY <1>2 DEF Inv, Locks, Records, RecordOK, LiveInv, LimitKept, Live, NothingRemains
<1>8. Rows'
  BY <1>1, <1>2, <1>3 DEF Inv, Rows
<1>9. Answers'
  BY <1>2 DEF Inv, Answers, Backed, OneResultPerKey
<1>10. NoStrayVersion'
  BY <1>1, <1>2, <1>3 DEF Inv, NoStrayVersion, TypeOK
<1> QED
  BY <1>4, <1>6, <1>7, <1>8, <1>9, <1>10 DEF Inv

LEMMA InvInit == Init => Inv
<1> SUFFICES ASSUME Init PROVE Inv
  OBVIOUS
<1>1. Idle \in RequestRow /\ Idle.pc = "idle"
  BY DEF Idle, RequestRow
<1>2. TypeOK
  BY <1>1 DEF Init, TypeOK
<1>3. \A r \in Request : Stage(r)
  BY <1>1 DEF Init, Stage
<1>4. Locks /\ Rows /\ Records /\ Answers /\ NothingRemains /\ NoStrayVersion
  BY DEF Init, Locks, Rows, Records, Answers, OneResultPerKey, NothingRemains, NoStrayVersion
<1>5. Live = {}
  BY DEF Init, Live
<1>6. LiveInv
  BY <1>5, FS_EmptySet, RequestsAssumption DEF LiveInv, LimitKept
<1> QED
  BY <1>2, <1>3, <1>4, <1>6 DEF Inv

LEMMA InvStep == Inv /\ [Next]_vars => Inv'
<1> SUFFICES ASSUME Inv, [Next]_vars PROVE Inv'
  OBVIOUS
<1>1. ASSUME NEW r \in Request, Step(r) PROVE Inv'
  BY <1>1, LockUserStep, LockPersonaStep, JudgeSteps, ReplaySteps, RefuseSteps, LookUpStep,
     CreatePersonaStep, DeletePersonaStep, CreateDraftStep, DiscardDraftStep,
     CreateConversationStep DEF Step
<1>2. ASSUME NEW r \in Request, RollBack(r) PROVE Inv'
  BY <1>2, RefuseSteps
<1>3. ASSUME NEW r \in Request, NEW op \in Ops, NEW p \in Persona \cup {None}, NEW k \in Key,
             NEW i \in Input \cup {None}, Begin(r, op, p, k, i)
      PROVE  Inv'
  BY <1>3, BeginStep
<1>4. ASSUME NEW p \in Persona, ActivateDraft(p) PROVE Inv'
  BY <1>4, ActivateStep
<1>5. CASE UNCHANGED vars
  <2>1. TypeOK' /\ NothingRemains' /\ NoStrayVersion'
    BY <1>5 DEF vars, Inv, TypeOK, NothingRemains, NoStrayVersion
  <2>2. \A r \in Request : Stage(r)'
    BY <1>5 DEF vars, Inv, Stage, Asked, HasPersona, FoundStands, AtUserRow, BeforePersona,
       InPersona, CreatesPersona, Inserts, Admitted, Live, RecordsOf
  <2>3. Locks' /\ Rows' /\ Records'
    BY <1>5 DEF vars, Inv, Locks, Rows, Records, RecordOK
  <2>4. Answers' /\ LiveInv'
    BY <1>5 DEF vars, Inv, Answers, Backed, OneResultPerKey, LiveInv, LimitKept, Live
  <2> QED
    BY <2>1, <2>2, <2>3, <2>4 DEF Inv
<1> QED
  BY <1>1, <1>2, <1>3, <1>4, <1>5 DEF Next

LEMMA InvAlways == Spec => []Inv
BY InvInit, InvStep, PTL DEF Spec

-----------------------------------------------------------------------------
(* The theorems.                                                           *)

\* Every variable keeps its type.
THEOREM TypeCorrect == Spec => []TypeOK
<1>1. Inv => TypeOK
  BY DEF Inv
<1> QED
  BY <1>1, InvAlways, PTL

\* Nothing remains of a deleted persona, whatever was in progress when
\* delete_persona committed.
THEOREM NothingRemainsAlways == Spec => []NothingRemains
<1>1. Inv => NothingRemains
  BY DEF Inv
<1> QED
  BY <1>1, InvAlways, PTL

\* A version that is not the draft was applied: create_draft and discard_draft
\* leave none behind.
THEOREM NoStrayVersionAlways == Spec => []NoStrayVersion
<1>1. Inv => NoStrayVersion
  BY DEF Inv
<1> QED
  BY <1>1, InvAlways, PTL

\* The limit and the uniqueness of names that create_persona checks, and one
\* result for every idempotency key, hold whatever overlaps.
THEOREM ChecksAlwaysHold == Spec => []ChecksStillHold
<1>1. Inv => ChecksStillHold
  BY DEF Inv, LiveInv, Answers, ChecksStillHold
<1> QED
  BY <1>1, InvAlways, PTL

LEMMA DeadlockShape == Inv => DeadlockIsOfDeletion
<1> SUFFICES ASSUME Inv, NEW r \in Request, NEW s \in Request, Deadlocked(r, s)
             PROVE  /\ request[r].scope = request[s].scope
                    /\ \E other \in BelowOps :
                         {request[r].op, request[s].op} = {"delete_persona", other}
  BY DEF DeadlockIsOfDeletion, BelowOps
<1> USE DEF WaitsFor
<1>1. TypeOK /\ Locks /\ Stage(r) /\ Stage(s) /\ r # s /\ WaitsFor(r, s) /\ WaitsFor(s, r)
  BY DEF Inv, Deadlocked
\* A request that waits for a persona has none, and what it waits for is in its own.
<1>2. ASSUME NEW a \in Request, NEW b \in Request, Stage(a), Stage(b), AtPersona(a),
             personaLock[request[a].scope] = b, WaitsFor(b, a)
      PROVE  /\ request[a].scope = request[b].scope
             /\ request[a].op = "delete_persona" /\ request[b].op \in BelowOps
  <2>1. request[a].scope \in Persona /\ request[a].pc \in {"begun", "checked", "user"}
        /\ request[a].op # "create_persona"
    BY <1>1, <1>2, RequestTyped DEF AtPersona, Stage, Asked, BeforePersona
  <2>2. request[b].pc \in {"persona", "inserting"} /\ request[b].scope = request[a].scope
    BY <1>1, <1>2, <2>1, RequestsAssumption DEF Locks
  <2>3. request[b].pc = "inserting" /\ userLock = a
    BY <1>2, <2>2 DEF AtPersona
  <2>4. request[a].pc = "user" /\ request[a].op = "delete_persona"
    BY <1>1, <2>1, <2>3, RequestsAssumption DEF Locks, UserOps
  <2>5. request[b].op # "create_persona"
    BY <1>2, <2>1, <2>2, RequestsAssumption DEF Stage, Asked
  <2>6. request[b].op \in BelowOps
    BY <1>2, <2>3, <2>5 DEF Stage, Inserts
  <2> QED
    BY <2>2, <2>4, <2>6
<1>3. CASE AtPersona(r) /\ personaLock[request[r].scope] = s
  BY <1>1, <1>2, <1>3
<1>4. CASE AtPersona(s) /\ personaLock[request[s].scope] = r
  BY <1>1, <1>2, <1>4
<1>5. CASE userLock = s /\ userLock = r
  BY <1>1, <1>5
<1> QED
  BY <1>1, <1>3, <1>4, <1>5

\* Two requests wait for each other only where a deletion meets a request that
\* writes below the same persona: all other orders of the locks agree.
THEOREM DeadlocksAreOfDeletions == Spec => []DeadlockIsOfDeletion
BY InvAlways, DeadlockShape, PTL

\* What a request that ends answers is of a persona that lives.
AnswersLive(r) ==
  request'[r].pc = "idle" =>
    /\ request'[r].answer \in Persona => state'[request'[r].answer] = "live"
    /\ request'[r].answer \in Thing => state'[request[r].scope] = "live"

LEMMA RefusalSaysNothing ==
  ASSUME Inv, NEW r \in Request, request[r].pc # "idle",
         NEW ans \in Refusals \cup {"no_content"}, Finish(r, ans)
  PROVE  AnswersLive(r)
<1>1. ans \in Refusals \cup Successes /\ ans \notin Persona /\ ans \notin Thing
  BY RequestsAssumption DEF Successes
<1> QED
  BY <1>1, FinishAlone DEF AnswersLive

LEMMA OneRequest ==
  ASSUME TypeOK, NEW s \in Request, Step(s) \/ RollBack(s), NEW r \in Request \ {s}
  PROVE  request'[r] = request[r]
<1>1. (\E pc, x : request' = [request EXCEPT ![s].pc = pc, ![s].seen = x]) \/
      (\E pc : Goto(s, pc)) \/ (\E ans : Finish(s, ans))
  <2>1. CASE LockUser(s) \/ LockPersona(s)
    BY <2>1 DEF LockUser, LockPersona, Answer
  <2>2. CASE ReplayPersona(s) \/ JudgePersona(s) \/ CreatePersona(s)
    BY <2>2 DEF ReplayPersona, JudgePersona, CreatePersona, Answer
  <2>3. CASE ReplayDelete(s) \/ RefuseDelete(s) \/ DeletePersona(s)
    BY <2>3 DEF ReplayDelete, RefuseDelete, DeletePersona, Answer
  <2>4. CASE ReplayDraft(s) \/ JudgeDraft(s) \/ CreateDraft(s)
    BY <2>4 DEF ReplayDraft, JudgeDraft, CreateDraft, Answer
  <2>5. CASE JudgeDiscard(s) \/ DiscardDraft(s)
    BY <2>5 DEF JudgeDiscard, DiscardDraft, Answer
  <2>6. CASE LookUpConversation(s)
    BY <2>6 DEF LookUpConversation
  <2>7. CASE ReplayConversation(s) \/ JudgeConversation(s) \/ CreateConversation(s) \/ RollBack(s)
    BY <2>7 DEF ReplayConversation, JudgeConversation, CreateConversation, RollBack, Answer
  <2> QED
    BY <2>1, <2>2, <2>3, <2>4, <2>5, <2>6, <2>7 DEF Step
<1> QED
  BY <1>1 DEF Goto, Finish, TypeOK

LEMMA EndedAnswers ==
  ASSUME Inv, NEW r \in Request, Step(r) \/ RollBack(r), request[r].pc # "idle"
  PROVE  AnswersLive(r)
<1>1. TypeOK /\ Stage(r)
  BY DEF Inv
<1>2. ASSUME NEW pc \in {"user", "persona", "inserting", "checked", "found"}, Goto(r, pc)
      PROVE  AnswersLive(r)
  BY <1>1, <1>2, GotoMoves DEF AnswersLive
<1>3. ASSUME NEW p \in Persona, Finish(r, p), state'[p] = "live" PROVE AnswersLive(r)
  BY <1>3, FinishAlone, RequestsAssumption DEF AnswersLive, Successes
<1>4. ASSUME NEW v \in Thing, Finish(r, v), state'[request[r].scope] = "live" PROVE AnswersLive(r)
  BY <1>4, FinishAlone, RequestsAssumption DEF AnswersLive, Successes
<1>5. CASE LockUser(r) \/ LockPersona(r)
  BY <1>2, <1>5, RefusalSaysNothing DEF LockUser, LockPersona, Answer, Refusals
<1>6. CASE ReplayPersona(r)
  <2>1. CASE Answer(r, "idempotency_conflict")
    BY <2>1, RefusalSaysNothing DEF Answer, Refusals
  <2>2. CASE \E p \in Persona :
               Replayed(r, p) /\ Answer(r, IF state[p] = "deleted" THEN "persona_not_found" ELSE p)
    <3>1. PICK p \in Persona :
            Replayed(r, p) /\ Answer(r, IF state[p] = "deleted" THEN "persona_not_found" ELSE p)
      BY <2>2
    <3>2. CASE state[p] = "deleted"
      BY <3>1, <3>2, RefusalSaysNothing DEF Answer, Refusals
    <3>3. CASE state[p] # "deleted"
      <4>1. state[p] # "unborn"
        BY <1>6, <3>1 DEF Replayed, RecordsOf, Inv, Records, RecordOK, ReplayPersona
      <4>2. state[p] = "live" /\ state' = state
        BY <1>1, <3>1, <3>3, <4>1 DEF TypeOK, Answer, personaVars
      <4> QED
        BY <1>3, <3>1, <3>3, <4>2 DEF Answer
    <3> QED
      BY <3>2, <3>3
  <2> QED
    BY <1>6, <2>1, <2>2 DEF ReplayPersona
<1>7. CASE JudgePersona(r) \/ JudgeDraft(r) \/ JudgeDiscard(r) \/ JudgeConversation(r)
  BY <1>2, <1>7, RefusalSaysNothing
  DEF JudgePersona, JudgeDraft, JudgeDiscard, JudgeConversation, Answer, Refusals
<1>8. CASE CreatePersona(r)
  BY <1>1, <1>3, <1>8 DEF CreatePersona, TypeOK
<1>9. CASE ReplayDelete(r) \/ RefuseDelete(r) \/ DeletePersona(r) \/ DiscardDraft(r) \/ RollBack(r)
  BY <1>9, RefusalSaysNothing
  DEF ReplayDelete, RefuseDelete, DeletePersona, DiscardDraft, RollBack, Answer, Refusals
<1>10. CASE ReplayDraft(r)
  <2>1. state'[request[r].scope] = "live" \/ Answer(r, "idempotency_conflict")
    BY <1>1, <1>10 DEF ReplayDraft, Stage, InPersona, HasPersona, Answer, personaVars
  <2> QED
    BY <1>4, <1>10, <2>1, RefusalSaysNothing DEF ReplayDraft, Answer, Refusals
<1>11. CASE CreateDraft(r)
  <2>1. state'[request[r].scope] = "live"
    BY <1>1, <1>11 DEF CreateDraft, Stage, Inserts, HasPersona
  <2> QED
    BY <1>4, <1>11, <2>1 DEF CreateDraft
<1>12. CASE LookUpConversation(r)
  <2>1. request'[r].pc # "idle"
    BY <1>1, <1>12, GotoMoves DEF LookUpConversation, TypeOK, RequestRow
  <2> QED
    BY <2>1 DEF AnswersLive
<1>13. CASE ReplayConversation(r)
  <2>1. CASE \E c \in convs : c.id = request[r].seen
    <3>1. PICK c \in convs : c.id = request[r].seen
      BY <2>1
    <3>2. c.persona = request[r].scope /\ c.id \in Thing
      BY <1>1, <1>13, <3>1 DEF ReplayConversation, Stage, BeforePersona, FoundStands, TypeOK
    <3>3. state'[request[r].scope] = "live"
      BY <1>13, <3>2 DEF ReplayConversation, Answer, personaVars, Inv, NothingRemains
    <3> QED
      BY <1>4, <1>13, <2>1, <3>1, <3>2, <3>3 DEF ReplayConversation, Answer
  <2>2. CASE ~ \E c \in convs : c.id = request[r].seen
    BY <1>13, <2>2, RefusalSaysNothing DEF ReplayConversation, Answer, Refusals
  <2> QED
    BY <2>1, <2>2
<1>14. CASE CreateConversation(r)
  <2>1. CASE Answer(r, "internal_error")
    BY <2>1, RefusalSaysNothing DEF Answer, Refusals
  <2>2. CASE ~Answer(r, "internal_error")
    <3>1. state'[request[r].scope] = "live"
      BY <1>1, <1>14, <2>2 DEF CreateConversation, Stage, Inserts, HasPersona, personaVars
    <3> QED
      BY <1>4, <1>14, <2>2, <3>1 DEF CreateConversation
  <2> QED
    BY <2>1, <2>2
<1> QED
  BY <1>5, <1>6, <1>7, <1>8, <1>9, <1>10, <1>11, <1>12, <1>13, <1>14 DEF Step

\* No old key brings back what was deleted: an answer that names a persona, a
\* draft or a conversation is given while the persona lives.
THEOREM NeverRevived == Spec => NotRevived
<1> DEFINE Lives(r) ==
      /\ request[r].pc # "idle" /\ request'[r].pc = "idle"
      => /\ request'[r].answer \in Persona => state'[request'[r].answer] = "live"
         /\ request'[r].answer \in Thing => state'[request[r].scope] = "live"
<1>1. Inv /\ [Next]_vars => \A r \in Request : Lives(r)
  <2> SUFFICES ASSUME Inv, [Next]_vars, NEW r \in Request,
                      request[r].pc # "idle", request'[r].pc = "idle"
               PROVE  AnswersLive(r)
    BY DEF AnswersLive
  <2>1. TypeOK
    BY DEF Inv
  <2>2. ASSUME NEW s \in Request, Step(s) \/ RollBack(s) PROVE AnswersLive(r)
    <3>1. CASE r = s
      BY <2>2, <3>1, EndedAnswers
    <3>2. CASE r # s
      BY <2>1, <2>2, <3>2, OneRequest
    <3> QED
      BY <3>1, <3>2
  <2>3. CASE \E s \in Request, op \in Ops, p \in Persona \cup {None}, k \in Key,
               i \in Input \cup {None} : Begin(s, op, p, k, i)
    BY <2>1, <2>3 DEF Begin, TypeOK, Idle
  <2>4. CASE UNCHANGED vars \/ \E p \in Persona : ActivateDraft(p)
    BY <2>4 DEF vars, ActivateDraft
  <2> QED
    BY <2>2, <2>3, <2>4 DEF Next
<1>2. [][\A r \in Request : Lives(r)]_vars <=> NotRevived
  BY PTL DEF NotRevived
<1> QED
  BY <1>1, <1>2, InvAlways, PTL DEF Spec

-----------------------------------------------------------------------------
(* The requests that succeed behave as SerialRequests says.                *)

\* A record is what its first sender was told; what a sender was told is
\* recorded, unless it went with its persona.
RecordsAnswered ==
  /\ \A x \in records : /\ x \in answers
                        /\ x.op \notin {"create_persona", "create_draft"} => x.input = None
  /\ \A a \in answers :
       a \in records \/ (a.op \in BelowOps /\ a.scope \in Persona /\ state[a.scope] = "deleted")

\* What r is about to do for its key was not done before; of those that create,
\* Stage and the code say so already.
Undone(r) ==
  \/ request[r].pc = "inserting" /\ request[r].op = "discard_draft"
  \/ request[r].pc = "persona" /\ request[r].op = "delete_persona"
  => RecordsOf(r) = {}

SerialInv == Inv /\ RecordsAnswered /\ \A r \in Request : Undone(r)

\* What every step has to do.
Simulated ==
  /\ Serial!Next \/ UNCHANGED Serial!vars
  /\ RecordsAnswered' /\ \A s \in Request : Undone(s)'

\* A new record is of a key that no other request is about to do something for:
\* whoever is has locked the persona.
LEMMA UndoneStays ==
  ASSUME SerialInv, NEW r \in Request,
         \A s \in Request \ {r} : request'[s] = request[s], Undone(r)',
         \A x \in records' \ records :
           /\ SameKey(x, request[r])
           /\ request[r].op = "create_persona" \/ HasPersona(r)
  PROVE  \A s \in Request : Undone(s)'
<1> SUFFICES ASSUME NEW s \in Request \ {r},
                    \/ request[s].pc = "inserting" /\ request[s].op = "discard_draft"
                    \/ request[s].pc = "persona" /\ request[s].op = "delete_persona"
             PROVE  RecordsOf(s)' = {}
  BY DEF Undone
<1>1. Stage(s) /\ RecordsOf(s) = {} /\ request'[s] = request[s]
  BY DEF SerialInv, Inv, Undone
<1>2. HasPersona(s)
  BY <1>1 DEF Stage, Inserts, InPersona
<1>3. SUFFICES ASSUME NEW x \in records', SameKey(x, request[s]) PROVE x \in records
  BY <1>1 DEF RecordsOf, SameKey
<1>4. x \notin records => request[r].scope = request[s].scope /\ request[r].op = request[s].op
  BY <1>3 DEF SameKey
<1> QED
  BY <1>2, <1>4 DEF HasPersona

\* A step that changes nothing but where r is.
LEMMA QuietSimulates ==
  ASSUME SerialInv, NEW r \in Request, UNCHANGED <<personaVars, rowVars, answers>>,
         \A s \in Request \ {r} : request'[s] = request[s], Undone(r)'
  PROVE  Simulated
<1>1. UNCHANGED <<state, name, draft, active, versions, convs, made, records, answers>>
  BY DEF personaVars, rowVars
<1>2. UNCHANGED Serial!vars
  BY <1>1 DEF Serial!vars
<1>3. RecordsAnswered'
  BY <1>1 DEF SerialInv, RecordsAnswered
<1>4. \A s \in Request : Undone(s)'
  BY <1>1, UndoneStays
<1> QED
  BY <1>2, <1>3, <1>4 DEF Simulated

\* r goes on, to a place where it may do nothing for its key, or has not yet.
LEMMA MoveSimulates ==
  ASSUME SerialInv, NEW r \in Request,
         NEW pc \in {"user", "persona", "inserting", "checked", "found"}, Goto(r, pc),
         UNCHANGED <<personaVars, rowVars, answers>>,
         \/ pc = "inserting" /\ request[r].op = "discard_draft"
         \/ pc = "persona" /\ request[r].op = "delete_persona"
         => RecordsOf(r) = {}
  PROVE  Simulated
<1>1. /\ request'[r].pc = pc /\ request'[r].op = request[r].op
      /\ request'[r].scope = request[r].scope /\ request'[r].key = request[r].key
      /\ \A s \in Request \ {r} : request'[s] = request[s]
  BY GotoMoves DEF SerialInv, Inv
<1>2. records' = records
  BY DEF rowVars
<1>3. Undone(r)'
  BY <1>1, <1>2 DEF Undone, RecordsOf
<1> QED
  BY <1>1, <1>3, QuietSimulates

\* A refusal, or a success that is on record in the same words.
LEMMA AnswerSimulates ==
  ASSUME SerialInv, NEW r \in Request, request[r].pc # "idle",
         NEW ans \in Refusals \cup Successes, Answer(r, ans),
         ans \in Refusals \/ NewRecord(r, ans) \in records
  PROVE  Simulated
<1>1. Inv /\ Finish(r, ans) /\ UNCHANGED <<personaVars, rowVars>>
  BY DEF SerialInv, Answer
<1>2. Refusals \cap Successes = {}
  BY RequestsAssumption DEF Successes, Refusals
<1>3. answers' = answers
  BY <1>1, <1>2 DEF Finish, SerialInv, RecordsAnswered
<1>4. request'[r].pc = "idle" /\ \A s \in Request \ {r} : request'[s] = request[s]
  BY <1>1, FinishAlone
<1>5. Undone(r)'
  BY <1>4 DEF Undone
<1> QED
  BY <1>1, <1>3, <1>4, <1>5, QuietSimulates

\* A step that writes, and puts its record where there was none.
LEMMA CommitSucceeds ==
  ASSUME SerialInv, NEW r \in Request, request[r].pc # "idle", NEW ans \in Successes,
         Finish(r, ans), NEW new, new = NewRecord(r, ans), RecordsOf(r) = {},
         request[r].op = "create_persona" \/ HasPersona(r),
         NEW kept \in SUBSET records, records' = kept \cup {new},
         \A x \in records :
           x \in kept \/ (x.op \in BelowOps /\ x.scope \in Persona /\ state'[x.scope] = "deleted"),
         \A p \in Persona : state[p] = "deleted" => state'[p] = "deleted"
  PROVE  /\ Serial!Succeed(new, kept) /\ answers' # answers
         /\ RecordsAnswered' /\ \A s \in Request : Undone(s)'
<1>1. Inv /\ RecordsAnswered /\ Asked(r)
  BY DEF SerialInv, Inv, Stage
<1>2. /\ SameKey(new, request[r]) /\ new.input = request[r].input
      /\ new.op = request[r].op /\ new.scope = request[r].scope /\ new.key = request[r].key
  BY DEF NewRecord, SameKey
<1>3. answers' = answers \cup {new}
  BY DEF Finish
<1>4. \A y \in records : ~SameKey(y, new)
  BY <1>2 DEF RecordsOf, SameKey
<1>5. Serial!Succeed(new, kept)
  BY <1>3, <1>4 DEF Serial!Succeed, SameKey
<1>6. new \notin answers
  <2>1. new \notin records
    BY <1>4 DEF SameKey
  <2>2. ~(new.op \in BelowOps /\ new.scope \in Persona /\ state[new.scope] = "deleted")
    BY <1>2 DEF HasPersona, BelowOps
  <2> QED
    BY <1>1, <2>1, <2>2 DEF RecordsAnswered
<1>7. RecordsAnswered'
  <2>1. new.op \notin {"create_persona", "create_draft"} => new.input = None
    BY <1>1, <1>2 DEF Asked
  <2>2. \A x \in records' : x \in answers'
    BY <1>1, <1>3 DEF RecordsAnswered
  <2>3. \A x \in records' : x.op \notin {"create_persona", "create_draft"} => x.input = None
    BY <1>1, <2>1 DEF RecordsAnswered
  <2>4. ASSUME NEW a \in answers'
        PROVE  \/ a \in records'
               \/ a.op \in BelowOps /\ a.scope \in Persona /\ state'[a.scope] = "deleted"
    <3>1. CASE a = new
      BY <3>1
    <3>2. CASE a \in records
      BY <3>2
    <3>3. CASE a.op \in BelowOps /\ a.scope \in Persona /\ state[a.scope] = "deleted"
      BY <3>3
    <3> QED
      BY <1>1, <1>3, <2>4, <3>1, <3>2, <3>3 DEF RecordsAnswered
  <2> QED
    BY <2>2, <2>3, <2>4 DEF RecordsAnswered
<1>8. request'[r].pc = "idle" /\ \A s \in Request \ {r} : request'[s] = request[s]
  BY <1>1, FinishAlone
<1>9. Undone(r)'
  BY <1>8 DEF Undone
<1>10. \A s \in Request : Undone(s)'
  BY <1>2, <1>8, <1>9, UndoneStays
<1> QED
  BY <1>3, <1>5, <1>6, <1>7, <1>10

\* What takes effect is for a key, and of a persona that is there or to be made.
LEMMA CreatePersonaSerial ==
  ASSUME SerialInv, NEW r \in Request, CreatePersona(r) PROVE Simulated
<1>1. TypeOK /\ Stage(r) /\ request[r].pc = "inserting" /\ request[r].op = "create_persona"
      /\ request[r].pc # "idle"
  BY DEF SerialInv, Inv, CreatePersona
<1>2. Admitted(r) /\ RecordsOf(r) = {} /\ request[r].scope = None /\ request[r].key \in Key
      /\ request[r].input \in Input
  BY <1>1, RequestTyped DEF Stage, Asked, CreatesPersona
<1>3. PICK p \in Persona :
        /\ state[p] = "unborn"
        /\ state' = [state EXCEPT ![p] = "live"]
        /\ name' = [name EXCEPT ![p] = request[r].input]
        /\ records' = records \cup {NewRecord(r, p)}
        /\ Finish(r, p)
  BY DEF CreatePersona
<1>4. UNCHANGED <<draft, active, versions, convs, made>>
  BY DEF CreatePersona
<1>5. PICK new : new = NewRecord(r, p)
  OBVIOUS
<1>6. /\ Serial!Succeed(new, records) /\ answers' # answers
      /\ RecordsAnswered' /\ \A s \in Request : Undone(s)'
  <2>1. p \in Successes
    BY DEF Successes
  <2>2. \A q \in Persona : state[q] = "deleted" => state'[q] = "deleted"
    BY <1>1, <1>3 DEF TypeOK
  <2> QED
    BY <1>1, <1>2, <1>3, <1>5, <2>1, <2>2, CommitSucceeds
<1>7. new = [op |-> "create_persona", scope |-> None, key |-> request[r].key,
             input |-> request[r].input, result |-> p]
  BY <1>1, <1>2, <1>5 DEF NewRecord
<1>8. /\ Serial!Cardinality(Serial!Live) < Limit
      /\ \A q \in Serial!Live : name[q] # request[r].input
  <2>1. Serial!Live = Live
    BY DEF Live, Serial!Live
  <2>2. Serial!Cardinality(Live) = Cardinality(Live)
    BY DEF Cardinality, Serial!Cardinality
  <2> QED
    BY <1>2, <2>1, <2>2 DEF Admitted
<1>9. Serial!CreatePersona(p, request[r].key, request[r].input)
  BY <1>3, <1>4, <1>6, <1>7, <1>8 DEF Serial!CreatePersona
<1>10. Serial!Next
  BY <1>2, <1>6, <1>9 DEF Serial!Next
<1> QED
  BY <1>6, <1>10 DEF Simulated

LEMMA DeletePersonaSerial ==
  ASSUME SerialInv, NEW r \in Request, DeletePersona(r) PROVE Simulated
<1>1. TypeOK /\ Stage(r) /\ Undone(r) /\ request[r].pc = "persona"
      /\ request[r].op = "delete_persona" /\ request[r].pc # "idle"
  BY DEF SerialInv, Inv, DeletePersona
<1>2. HasPersona(r) /\ RecordsOf(r) = {} /\ request[r].key \in Key /\ request[r].input = None
  BY <1>1 DEF Stage, Asked, InPersona, Undone
<1>3. PICK p \in Persona : p = request[r].scope
  BY <1>2 DEF HasPersona
<1>4. PICK new : new = NewRecord(r, "no_content")
  OBVIOUS
<1>5. PICK kept \in SUBSET records :
        kept = {x \in records : x.scope = p => x.op \in {"create_persona", "delete_persona"}}
  OBVIOUS
<1>6. /\ state[p] = "live"
      /\ state' = [state EXCEPT ![p] = "deleted"] /\ name' = [name EXCEPT ![p] = None]
      /\ draft' = [draft EXCEPT ![p] = None] /\ active' = [active EXCEPT ![p] = None]
      /\ versions' = {v \in versions : v.persona # p} /\ convs' = {c \in convs : c.persona # p}
      /\ records' = kept \cup {new}
      /\ Finish(r, "no_content") /\ made' = made
  BY <1>2, <1>3, <1>4, <1>5 DEF DeletePersona, Remaining, HasPersona
<1>7. /\ Serial!Succeed(new, kept) /\ answers' # answers
      /\ RecordsAnswered' /\ \A s \in Request : Undone(s)'
  <2>1. "no_content" \in Successes
    BY DEF Successes
  <2>2. \A q \in Persona : state[q] = "deleted" => state'[q] = "deleted"
    BY <1>1, <1>6 DEF TypeOK
  <2>3. ASSUME NEW x \in records, x \notin kept
        PROVE  x.op \in BelowOps /\ x.scope \in Persona /\ state'[x.scope] = "deleted"
    <3>1. x.scope = p /\ x.op \notin {"create_persona", "delete_persona"} /\ x.op \in AllOps
      BY <1>1, <1>5, <2>3 DEF TypeOK, Record
    <3>2. state'[p] = "deleted"
      BY <1>1, <1>6 DEF TypeOK
    <3> QED
      BY <3>1, <3>2 DEF AllOps, BelowOps
  <2> QED
    BY <1>1, <1>2, <1>4, <1>6, <2>1, <2>2, <2>3, CommitSucceeds
<1>8. new = [op |-> "delete_persona", scope |-> p, key |-> request[r].key, input |-> None,
             result |-> "no_content"]
  BY <1>1, <1>2, <1>3, <1>4 DEF NewRecord
<1>9. Serial!DeletePersona(p, request[r].key)
  BY <1>5, <1>6, <1>7, <1>8 DEF Serial!DeletePersona
<1>10. Serial!Next
  BY <1>2, <1>7, <1>9 DEF Serial!Next
<1> QED
  BY <1>7, <1>10 DEF Simulated

LEMMA CreateDraftSerial ==
  ASSUME SerialInv, NEW r \in Request, CreateDraft(r) PROVE Simulated
<1>1. TypeOK /\ Stage(r) /\ request[r].pc = "inserting" /\ request[r].op = "create_draft"
      /\ request[r].pc # "idle"
  BY DEF SerialInv, Inv, CreateDraft
<1>2. HasPersona(r) /\ RecordsOf(r) = {} /\ draft[request[r].scope] = None
      /\ request[r].key \in Key /\ request[r].input \in Input
  BY <1>1, RequestTyped DEF Stage, Asked, Inserts
<1>3. PICK p \in Persona : p = request[r].scope
  BY <1>2 DEF HasPersona
<1>4. PICK v \in Thing \ made :
        /\ made' = made \cup {v}
        /\ draft' = [draft EXCEPT ![p] = v]
        /\ versions' = versions \cup {[persona |-> p, id |-> v, title |-> request[r].input]}
        /\ records' = records \cup {NewRecord(r, v)}
        /\ Finish(r, v)
  BY <1>3 DEF CreateDraft
<1>5. UNCHANGED <<state, name, active, convs>> /\ state[p] = "live" /\ draft[p] = None
  BY <1>2, <1>3 DEF CreateDraft, HasPersona
<1>6. PICK new : new = NewRecord(r, v)
  OBVIOUS
<1>7. /\ Serial!Succeed(new, records) /\ answers' # answers
      /\ RecordsAnswered' /\ \A s \in Request : Undone(s)'
  <2>1. v \in Successes
    BY DEF Successes
  <2> QED
    BY <1>1, <1>2, <1>4, <1>5, <1>6, <2>1, CommitSucceeds
<1>8. new = [op |-> "create_draft", scope |-> p, key |-> request[r].key,
             input |-> request[r].input, result |-> v]
  BY <1>1, <1>3, <1>6 DEF NewRecord
<1>9. Serial!CreateDraft(p, request[r].key, request[r].input, v)
  BY <1>4, <1>5, <1>7, <1>8 DEF Serial!CreateDraft, Serial!New
<1>10. Serial!Next
  BY <1>2, <1>7, <1>9 DEF Serial!Next
<1> QED
  BY <1>7, <1>10 DEF Simulated

LEMMA DiscardDraftSerial ==
  ASSUME SerialInv, NEW r \in Request, DiscardDraft(r) PROVE Simulated
<1>1. TypeOK /\ Stage(r) /\ Undone(r) /\ request[r].pc = "inserting"
      /\ request[r].op = "discard_draft" /\ request[r].pc # "idle"
  BY DEF SerialInv, Inv, DiscardDraft
<1>2. HasPersona(r) /\ RecordsOf(r) = {} /\ draft[request[r].scope] # None
      /\ request[r].key \in Key /\ request[r].input = None
  BY <1>1 DEF Stage, Asked, Inserts, Undone
<1>3. PICK p \in Persona : p = request[r].scope
  BY <1>2 DEF HasPersona
<1>4. PICK new : new = NewRecord(r, "no_content")
  OBVIOUS
<1>5. /\ state[p] = "live" /\ draft[p] # None
      /\ draft' = [draft EXCEPT ![p] = None]
      /\ versions' = {v \in versions : v.id # draft[p]}
      /\ records' = records \cup {new}
      /\ Finish(r, "no_content")
      /\ UNCHANGED <<state, name, active, convs, made>>
  BY <1>2, <1>3, <1>4 DEF DiscardDraft, HasPersona
<1>6. /\ Serial!Succeed(new, records) /\ answers' # answers
      /\ RecordsAnswered' /\ \A s \in Request : Undone(s)'
  <2>1. "no_content" \in Successes
    BY DEF Successes
  <2> QED
    BY <1>1, <1>2, <1>4, <1>5, <2>1, CommitSucceeds
<1>7. new = [op |-> "discard_draft", scope |-> p, key |-> request[r].key, input |-> None,
             result |-> "no_content"]
  BY <1>1, <1>2, <1>3, <1>4 DEF NewRecord
<1>8. Serial!DiscardDraft(p, request[r].key)
  BY <1>5, <1>6, <1>7 DEF Serial!DiscardDraft
<1>9. Serial!Next
  BY <1>2, <1>6, <1>8 DEF Serial!Next
<1> QED
  BY <1>6, <1>9 DEF Simulated

LEMMA CreateConversationSerial ==
  ASSUME SerialInv, NEW r \in Request, CreateConversation(r) PROVE Simulated
<1>1. TypeOK /\ Stage(r) /\ request[r].pc = "inserting" /\ request[r].op = "create_conversation"
      /\ request[r].pc # "idle"
  BY DEF SerialInv, Inv, CreateConversation
<1>2. HasPersona(r) /\ active[request[r].scope] # None
      /\ request[r].key \in Key /\ request[r].input = None
  BY <1>1 DEF Stage, Asked, Inserts
<1>3. PICK p \in Persona : p = request[r].scope
  BY <1>2 DEF HasPersona
<1>4. CASE Answer(r, "internal_error")
  BY <1>1, <1>4, AnswerSimulates DEF Refusals
<1>5. CASE RecordsOf(r) = {} /\ ~Answer(r, "internal_error")
  <2>1. PICK c \in Thing \ made :
          /\ made' = made \cup {c}
          /\ convs' = convs \cup {[persona |-> p, id |-> c, from |-> active[p]]}
          /\ records' = records \cup {NewRecord(r, c)}
          /\ Finish(r, c)
    BY <1>3, <1>5 DEF CreateConversation
  <2>2. UNCHANGED <<state, name, draft, active, versions>>
    BY <1>5 DEF CreateConversation, personaVars
  <2>3. PICK new : new = NewRecord(r, c)
    OBVIOUS
  <2>4. /\ Serial!Succeed(new, records) /\ answers' # answers
        /\ RecordsAnswered' /\ \A s \in Request : Undone(s)'
    <3>1. c \in Successes
      BY DEF Successes
    <3> QED
      BY <1>1, <1>2, <1>5, <2>1, <2>2, <2>3, <3>1, CommitSucceeds
  <2>5. new = [op |-> "create_conversation", scope |-> p, key |-> request[r].key, input |-> None,
               result |-> c]
    BY <1>1, <1>2, <1>3, <2>3 DEF NewRecord
  <2>6. state[p] = "live" /\ active[p] # None
    BY <1>2, <1>3 DEF HasPersona
  <2>7. Serial!CreateConversation(p, request[r].key, c)
    BY <2>1, <2>2, <2>4, <2>5, <2>6 DEF Serial!CreateConversation, Serial!New
  <2>8. Serial!Next
    BY <1>2, <2>4, <2>7 DEF Serial!Next
  <2> QED
    BY <2>4, <2>8 DEF Simulated
<1> QED
  BY <1>4, <1>5 DEF CreateConversation

LEMMA ActivateSerial ==
  ASSUME SerialInv, NEW p \in Persona, ActivateDraft(p) PROVE Simulated
<1>1. /\ UNCHANGED <<state, name, versions, convs, records, made, request, answers>>
      /\ state[p] = "live" /\ draft[p] # None
      /\ active' = [active EXCEPT ![p] = draft[p]]
      /\ draft' = [draft EXCEPT ![p] = None]
  BY DEF ActivateDraft, rowVars
<1>2. Serial!ActivateDraft(p)
  BY <1>1 DEF Serial!ActivateDraft
<1>3. Serial!Next
  BY <1>2 DEF Serial!Next
<1>4. RecordsAnswered'
  BY <1>1 DEF SerialInv, RecordsAnswered
<1>5. \A s \in Request : Undone(s)'
  BY <1>1 DEF SerialInv, Undone, RecordsOf
<1> QED
  BY <1>3, <1>4, <1>5 DEF Simulated

LEMMA LockSerial ==
  ASSUME SerialInv, NEW r \in Request, LockUser(r) \/ LockPersona(r) PROVE Simulated
<1>1. CASE LockUser(r)
  BY <1>1, MoveSimulates DEF LockUser
<1>2. CASE LockPersona(r)
  <2>1. request[r].pc # "idle" /\ Stage(r)
    BY <1>2 DEF LockPersona, AtPersona, SerialInv, Inv
  <2>2. CASE Answer(r, "persona_not_found")
    BY <2>1, <2>2, AnswerSimulates DEF Refusals
  <2>3. CASE Goto(r, "persona") /\ UNCHANGED <<personaVars, rowVars, answers>>
    <3>1. request[r].op = "delete_persona" => RecordsOf(r) = {}
      BY <1>2, <2>1 DEF LockPersona, AtPersona, Stage, BeforePersona
    <3> QED
      BY <2>3, <3>1, MoveSimulates
  <2> QED
    BY <1>2, <2>2, <2>3 DEF LockPersona
<1> QED
  BY <1>1, <1>2

LEMMA JudgeSerial ==
  ASSUME SerialInv, NEW r \in Request,
         JudgePersona(r) \/ JudgeDraft(r) \/ JudgeDiscard(r) \/ JudgeConversation(r)
  PROVE  Simulated
<1>1. request[r].pc # "idle" /\ Stage(r)
  BY DEF JudgePersona, JudgeDraft, JudgeDiscard, JudgeConversation, SerialInv, Inv
<1>2. ASSUME NEW ans \in Refusals, Answer(r, ans) PROVE Simulated
  BY <1>1, <1>2, AnswerSimulates
<1>3. ASSUME Goto(r, "inserting"), UNCHANGED <<personaVars, rowVars, answers>>,
             request[r].op = "discard_draft" => RecordsOf(r) = {}
      PROVE  Simulated
  BY <1>3, MoveSimulates
<1>4. CASE JudgePersona(r)
  BY <1>2, <1>3, <1>4 DEF JudgePersona, Refusals
<1>5. CASE JudgeDraft(r)
  BY <1>2, <1>3, <1>5 DEF JudgeDraft, Refusals
<1>6. CASE JudgeConversation(r)
  BY <1>2, <1>3, <1>6 DEF JudgeConversation, Refusals
<1>7. CASE JudgeDiscard(r)
  <2>1. CASE RecordsOf(r) # {} /\ Answer(r, "no_content")
    <3>1. PICK x \in RecordsOf(r) : TRUE
      BY <2>1
    <3>2. x \in records /\ x \in Record /\ SameKey(x, request[r]) /\ x.op = "discard_draft"
      BY <1>7 DEF RecordsOf, SameKey, JudgeDiscard, SerialInv, Inv, TypeOK
    <3>3. x.input = None /\ x.result = "no_content" /\ request[r].input = None
      BY <1>1, <1>7, <3>2
      DEF SerialInv, RecordsAnswered, Inv, Records, RecordOK, EmptyOps, JudgeDiscard, Stage, Asked
    <3>4. NewRecord(r, "no_content") \in records
      BY <3>2, <3>3 DEF NewRecord, SameKey, Record
    <3> QED
      BY <1>1, <2>1, <3>4, AnswerSimulates DEF Successes
  <2>2. CASE Answer(r, IF active[request[r].scope] # None THEN "draft_not_started"
                       ELSE "draft_not_found")
    BY <1>2, <2>2 DEF Refusals
  <2>3. CASE RecordsOf(r) = {} /\ Goto(r, "inserting") /\ UNCHANGED <<personaVars, rowVars, answers>>
    BY <1>3, <2>3
  <2> QED
    BY <1>7, <2>1, <2>2, <2>3 DEF JudgeDiscard
<1> QED
  BY <1>4, <1>5, <1>6, <1>7

LEMMA ReplaySerial ==
  ASSUME SerialInv, NEW r \in Request,
         ReplayPersona(r) \/ ReplayDelete(r) \/ ReplayDraft(r) \/ ReplayConversation(r)
  PROVE  Simulated
<1>1. request[r].pc # "idle" /\ Stage(r) /\ TypeOK
  BY DEF ReplayPersona, ReplayDelete, ReplayDraft, ReplayConversation, SerialInv, Inv
<1>2. ASSUME NEW ans \in Refusals, Answer(r, ans) PROVE Simulated
  BY <1>1, <1>2, AnswerSimulates
<1>3. ASSUME NEW x \in records, SameKey(x, request[r]), x.input = request[r].input,
             x.result \in Successes, Answer(r, x.result)
      PROVE  Simulated
  <2>1. x \in Record
    BY <1>1 DEF TypeOK
  <2>2. NewRecord(r, x.result) = x
    BY <1>3, <2>1 DEF NewRecord, SameKey, Record
  <2> QED
    BY <1>1, <1>3, <2>2, AnswerSimulates
<1>4. ASSUME NEW ans \in Successes, Replayed(r, ans), Answer(r, ans) PROVE Simulated
  <2>1. PICK x \in records :
          SameKey(x, request[r]) /\ x.input = request[r].input /\ x.result = ans
    BY <1>4 DEF Replayed, RecordsOf, SameKey
  <2> QED
    BY <1>3, <1>4, <2>1
<1>5. CASE ReplayPersona(r)
  <2>1. CASE Answer(r, "idempotency_conflict")
    BY <1>2, <2>1 DEF Refusals
  <2>2. ASSUME NEW p \in Persona, Replayed(r, p),
               Answer(r, IF state[p] = "deleted" THEN "persona_not_found" ELSE p)
        PROVE  Simulated
    <3>1. CASE state[p] = "deleted"
      BY <1>2, <2>2, <3>1 DEF Refusals
    <3>2. CASE state[p] # "deleted"
      BY <1>4, <2>2, <3>2 DEF Successes
    <3> QED
      BY <3>1, <3>2
  <2> QED
    BY <1>5, <2>1, <2>2 DEF ReplayPersona
\* A deletion has no input, and every record of one says the same.
<1>6. CASE ReplayDelete(r)
  <2>1. PICK x \in records : SameKey(x, request[r]) /\ x.op = "delete_persona"
    BY <1>6 DEF ReplayDelete, RecordsOf, SameKey
  <2>2. x.input = None /\ x.result = "no_content"
    BY <2>1 DEF SerialInv, RecordsAnswered, Inv, Records, RecordOK, EmptyOps
  <2>3. request[r].input = None
    BY <1>1, <1>6 DEF ReplayDelete, Stage, Asked
  <2> QED
    BY <1>3, <1>6, <2>1, <2>2, <2>3 DEF ReplayDelete, Successes
<1>7. CASE ReplayDraft(r)
  <2>1. CASE Answer(r, "idempotency_conflict")
    BY <1>2, <2>1 DEF Refusals
  <2>2. ASSUME NEW v \in Thing, Replayed(r, v),
               Answer(r, IF v \in VersionIds THEN v ELSE "draft_not_found")
        PROVE  Simulated
    <3>1. CASE v \notin VersionIds
      BY <1>2, <2>2, <3>1 DEF Refusals
    <3>2. CASE v \in VersionIds
      BY <1>4, <2>2, <3>2 DEF Successes
    <3> QED
      BY <3>1, <3>2
  <2> QED
    BY <1>7, <2>1, <2>2 DEF ReplayDraft
\* The conversation was read after the record: it is there, and so the record is too.
<1>8. CASE ReplayConversation(r)
  <2>1. CASE ~ \E c \in convs : c.id = request[r].seen
    BY <1>2, <1>8, <2>1 DEF ReplayConversation, Refusals
  <2>2. CASE \E c \in convs : c.id = request[r].seen
    <3>1. PICK c \in convs : c.id = request[r].seen
      BY <2>2
    <3>2. FoundStands(r) /\ request[r].op = "create_conversation" /\ request[r].input = None
      BY <1>1, <1>8 DEF ReplayConversation, Stage, BeforePersona, Asked
    <3>3. state[request[r].scope] = "live"
      BY <3>1, <3>2 DEF FoundStands, SerialInv, Inv, NothingRemains
    <3>4. PICK x \in records : SameKey(x, request[r]) /\ x.result = request[r].seen
      BY <3>2, <3>3 DEF FoundStands
    <3>5. x.input = None
      BY <3>2, <3>4 DEF SerialInv, RecordsAnswered, SameKey
    <3>6. x.result \in Successes
      BY <1>1, <3>1, <3>4 DEF TypeOK, Successes
    <3> QED
      BY <1>3, <1>8, <2>2, <3>2, <3>4, <3>5, <3>6 DEF ReplayConversation
  <2> QED
    BY <2>1, <2>2
<1> QED
  BY <1>5, <1>6, <1>7, <1>8

LEMMA RefuseSerial ==
  ASSUME SerialInv, NEW r \in Request, RefuseDelete(r) \/ RollBack(r) PROVE Simulated
BY AnswerSimulates DEF RefuseDelete, RollBack, Refusals

LEMMA LookUpSerial ==
  ASSUME SerialInv, NEW r \in Request, LookUpConversation(r) PROVE Simulated
<1>1. UNCHANGED <<personaVars, rowVars, answers>> /\ TypeOK
  BY DEF LookUpConversation, SerialInv, Inv
<1>2. CASE Goto(r, "checked")
  BY <1>1, <1>2, MoveSimulates
<1>3. ASSUME NEW x, request' = [request EXCEPT ![r].pc = "found", ![r].seen = x.result]
      PROVE  Simulated
  <2>1. request'[r].pc = "found" /\ \A s \in Request \ {r} : request'[s] = request[s]
    BY <1>1, <1>3 DEF TypeOK, RequestRow
  <2>2. Undone(r)'
    BY <2>1 DEF Undone
  <2> QED
    BY <1>1, <2>1, <2>2, QuietSimulates
<1> QED
  BY <1>2, <1>3 DEF LookUpConversation

LEMMA BeginSerial ==
  ASSUME SerialInv, NEW r \in Request, NEW op \in Ops, NEW p \in Persona \cup {None}, NEW k \in Key,
         NEW i \in Input \cup {None}, Begin(r, op, p, k, i)
  PROVE  Simulated
<1>1. UNCHANGED <<personaVars, rowVars, answers>> /\ TypeOK
  BY DEF Begin, SerialInv, Inv
<1>2. request'[r].pc = "begun" /\ \A s \in Request \ {r} : request'[s] = request[s]
  BY <1>1 DEF Begin, TypeOK, Idle
<1>3. Undone(r)'
  BY <1>2 DEF Undone
<1> QED
  BY <1>1, <1>2, <1>3, QuietSimulates

LEMMA SerialInit == Init => SerialInv /\ Serial!Init
<1> SUFFICES ASSUME Init PROVE SerialInv /\ Serial!Init
  OBVIOUS
<1>1. RecordsAnswered /\ \A r \in Request : Undone(r)
  BY DEF Init, RecordsAnswered, Undone, Idle
<1>2. Serial!Init
  BY DEF Init, Serial!Init
<1> QED
  BY <1>1, <1>2, InvInit DEF SerialInv

LEMMA SerialStep == SerialInv /\ [Next]_vars => Simulated
<1> SUFFICES ASSUME SerialInv, [Next]_vars PROVE Simulated
  OBVIOUS
<1>1. ASSUME NEW r \in Request, Step(r) PROVE Simulated
  BY <1>1, LockSerial, JudgeSerial, ReplaySerial, RefuseSerial, LookUpSerial, CreatePersonaSerial,
     DeletePersonaSerial, CreateDraftSerial, DiscardDraftSerial, CreateConversationSerial DEF Step
<1>2. ASSUME NEW r \in Request, RollBack(r) PROVE Simulated
  BY <1>2, RefuseSerial
<1>3. ASSUME NEW r \in Request, NEW op \in Ops, NEW p \in Persona \cup {None}, NEW k \in Key,
             NEW i \in Input \cup {None}, Begin(r, op, p, k, i)
      PROVE  Simulated
  BY <1>3, BeginSerial
<1>4. ASSUME NEW p \in Persona, ActivateDraft(p) PROVE Simulated
  BY <1>4, ActivateSerial
<1>5. CASE UNCHANGED vars
  <2>1. UNCHANGED Serial!vars
    BY <1>5 DEF vars, Serial!vars
  <2>2. RecordsAnswered' /\ \A r \in Request : Undone(r)'
    BY <1>5 DEF vars, SerialInv, RecordsAnswered, Undone, RecordsOf
  <2> QED
    BY <2>1, <2>2 DEF Simulated
<1> QED
  BY <1>1, <1>2, <1>3, <1>4, <1>5 DEF Next

\* The requests that succeed are carried out one at a time, each at the instant
\* it commits, once for its key; a replay repeats an earlier answer.  So it is
\* for every number of requests that overlap, wait, fail and come again.
THEOREM RequestsTakeEffectAtOnce == Spec => RequestsAtOnce
<1>1. Init => SerialInv /\ Serial!Init
  BY SerialInit
<1>2. SerialInv /\ [Next]_vars => SerialInv' /\ [Serial!Next]_Serial!vars
  BY SerialStep, InvStep DEF Simulated, SerialInv
<1> QED
  BY <1>1, <1>2, PTL DEF Spec, RequestsAtOnce, Serial!Spec

=============================================================================

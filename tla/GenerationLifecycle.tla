------------------------ MODULE GenerationLifecycle ------------------------
(***************************************************************************)
(* The rows of persona_minimal.generations, the Gateway instances that     *)
(* stream them, and the requests that open, stop, retry and recover them   *)
(* (python-backend: chat/repository.py, chat/service.py, chat/lease.py,    *)
(* the chat routes and the lifespan of main.py).                           *)
(*                                                                         *)
(* One action is one database transaction together with the control step   *)
(* around it.  The accept path is three transactions, and its third one is *)
(* split where another transaction can get in between: Select reads the    *)
(* active row without locking it, Commit overwrites that row by id.        *)
(*                                                                         *)
(* Simplifications.                                                        *)
(*  - A timestamp is kept as its distance from the database's now():       *)
(*    lease[g] = lease_expires_at - now(), age[g] = now() - heartbeat_at.  *)
(*    Both saturate at the bound where no comparison can change any more,  *)
(*    and both are dropped (0) once the code never reads them again.       *)
(*  - Texts, citations and token counts are absent; snapshot[g] only says  *)
(*    whether input_snapshot is stored.                                    *)
(*  - Answers that change nothing (a replay, a cancel of a finished row)   *)
(*    are stuttering steps.  A key used with another body (409 conflict)   *)
(*    is answered at the same points as a replay.                          *)
(*  - Instances are process incarnations: a restarted process has a new    *)
(*    instance_id and so is another member of Instance.                    *)
(***************************************************************************)
EXTENDS Integers

CONSTANTS
  Instance,       \* Gateway process incarnations (ChatStore.instance_id)
  User,           \* owner_subject
  Conversation,   \* conversations, over all personas of a user
  UserOf,         \* the owner of each conversation
  MaxGen,         \* bound: generations ever created
  Request,        \* completions/retry requests in flight at once
  Key,            \* Idempotency-Key values
  Lease,          \* PERSONA_GENERATION_LEASE_SECONDS, in ticks
  ReconTimeout,   \* RECONCILIATION_TIMEOUT_SECONDS, in ticks
  LegacyGrace,    \* LEGACY_OWNERLESS_GRACE_SECONDS, in ticks
  ClockSkew,      \* how far a process clock may be off the database clock
  LegacyIn,       \* where an older release may leave an active row behind
  Lossy,          \* may a stream end without recording its end?
  NoOne           \* no instance, no user, no generation

ASSUME LifecycleAssumption ==
  /\ UserOf \in [Conversation -> User]
  /\ MaxGen \in Nat \ {0}
  /\ Lease \in Nat /\ ReconTimeout \in Nat /\ ClockSkew \in Nat
  /\ LegacyGrace \in 0 .. ReconTimeout
  /\ LegacyIn \subseteq Conversation /\ Lossy \in BOOLEAN
  /\ NoOne \notin Instance /\ NoOne \notin User /\ NoOne \notin Nat
  /\ Conversation \cap Nat = {}

Gen == 1 .. MaxGen                   \* in order of creation
Scope == Conversation \cup Gen       \* a completion's or a retry's target

ActiveStatuses == {"queued", "running", "cancel_requested", "reconciling"}
FinishableStatuses == {"queued", "running", "cancel_requested"}
TerminalStatuses == {"completed", "cancelled", "failed"}
Statuses == {"absent"} \cup ActiveStatuses \cup TerminalStatuses

InFlight == {"handoff", "retrieving", "streaming"}

MaxAge == ReconTimeout + ClockSkew + 1    \* where age[g] saturates

VARIABLES
  inst,       \* [Instance -> "new" | "up" | "stopping" | "dead"]
  deadFor,    \* history: ticks since the instance died, while it matters
  status,     \* generations.status, "absent" before the row exists
  conv,       \* generations.conversation_id
  owner,      \* generations.owner_instance_id
  lease,      \* lease_expires_at - now()
  age,        \* now() - heartbeat_at
  snapshot,   \* is input_snapshot stored?
  record,     \* chat_idempotency_records: result_id of <<scope, key>>
  stream,     \* where the generator of g is, in the process that owns it
  cut,        \* was the upstream of g told to stop?
  told,       \* the status that the terminal SSE event of g names
  req         \* [Request -> accept path of one request]

rowVars == <<status, conv, owner, lease, age, snapshot, record>>
streamVars == <<stream, cut, told>>
instVars == <<inst, deadFor>>
vars == <<inst, deadFor, status, conv, owner, lease, age, snapshot, record,
          stream, cut, told, req>>

-----------------------------------------------------------------------------
(* Reading the rows.                                                       *)

Exists(g) == status[g] # "absent"
Active(g) == status[g] \in ActiveStatuses
Finishable(g) == status[g] \in FinishableStatuses

ConvOf(s) == IF s \in Gen THEN conv[s] ELSE s
UserOfScope(s) == UserOf[ConvOf(s)]
RowsOf(u) == {g \in Gen : Exists(g) /\ UserOf[conv[g]] = u}
ActiveOf(u) == {g \in RowsOf(u) : Active(g)}
OwnFinishable(i) == {g \in Gen : Finishable(g) /\ owner[g] = i}

\* ORDER BY created_at DESC LIMIT 1: the newest active row, if there is one.
NewestActive(u) == {g \in ActiveOf(u) : \A h \in ActiveOf(u) : h <= g}

\* Mutant: only rows without an owner are ever reclaimed.
ReclaimableIfOwnerless(g) ==
  Finishable(g) /\ owner[g] = NoOne /\ age[g] > LegacyGrace

\* The lease of the owner has run out, or a row without an owner is older
\* than any stream of the release that wrote it can be.
Reclaimable(g) ==
  /\ Finishable(g)
  /\ \/ owner[g] # NoOne /\ lease[g] < 0
     \/ owner[g] = NoOne /\ age[g] > LegacyGrace

\* Mutant: the lease distance with the wrong sign.
ReclaimedAgeNegated(g) == IF owner[g] # NoOne THEN lease[g] ELSE age[g]

\* Mutant: heartbeat_at = now(), which restarts the reconciliation timeout.
ReclaimedNow(g) == 0

\* heartbeat_at of a reclaimed row: the last instant its owner was known to
\* be alive, which is the end of its lease.
ReclaimedAge(g) == IF owner[g] # NoOne THEN -lease[g] ELSE age[g]

\* The row was left unresolved for longer than ReconTimeout, on a process
\* clock that is d ticks ahead of the database clock.
Stale(g, d) ==
  /\ status[g] \in {"reconciling", "cancel_requested"}
  /\ age[g] + d > ReconTimeout

\* Mutant: a retry without the check of input_snapshot.
RetryOfAnyInput(g) ==
  /\ status[g] \in TerminalStatuses
  /\ \A h \in Gen : Exists(h) /\ conv[h] = conv[g] => h <= g

\* The latest attempt at the latest question of the conversation, finished
\* and with the input it ran on.
RetryAllowed(g) ==
  /\ status[g] \in TerminalStatuses
  /\ snapshot[g]
  /\ \A h \in Gen : Exists(h) /\ conv[h] = conv[g] => h <= g

\* Mutant: SELECT without FOR UPDATE.
NobodyWaits(u) == TRUE

\* SELECT ... FROM users ... FOR UPDATE would not wait.
LockFree(u) ==
  \A r \in Request :
    req[r].pc = "selected" => UserOfScope(req[r].scope) # u

\* Mutant: the key is looked up in the first transaction only.
NotCheckedAgain(r) == FALSE

\* The idempotency check that is repeated under the lock.
AlreadyRecorded(r) == record[<<req[r].scope, req[r].key>>] # NoOne

MayProceed(r, d) ==
  /\ ~AlreadyRecorded(r)
  /\ req[r].scope \in Gen => RetryAllowed(req[r].scope)
  /\ \A g \in NewestActive(UserOfScope(req[r].scope)) : Stale(g, d)

-----------------------------------------------------------------------------
(* Writing the rows.                                                       *)

\* The rows of S become "result unknown", last known alive a[g] ticks ago.
Reconcile(S, a) ==
  /\ status' = [g \in Gen |-> IF g \in S THEN "reconciling" ELSE status[g]]
  /\ age' = [g \in Gen |-> IF g \in S THEN a[g] ELSE age[g]]
  /\ lease' = [g \in Gen |-> IF g \in S THEN 0 ELSE lease[g]]

JustNow == [g \in Gen |-> 0]
LastAlive == [g \in Gen |-> ReclaimedAge(g)]

\* heartbeat_at is read again: the row waits for the reconciliation timeout,
\* or it has no owner whose lease could speak for it.
AgeMatters(g) ==
  \/ status[g] \in {"cancel_requested", "reconciling"}
  \/ Finishable(g) /\ owner[g] = NoOne

IdleReq == [pc |-> "idle", inst |-> NoOne, scope |-> NoOne, key |-> NoOne,
            closes |-> {}]

\* An active row of a release that recorded no owner: its status, snapshot and
\* stream, which may still be running in a process of that release.
LegacyRowStates ==
  {w \in [status : FinishableStatuses, snapshot : BOOLEAN,
          stream : {"retrieving", "streaming", "ended"}] :
     /\ w.status = "queued" => ~w.snapshot /\ w.stream # "streaming"
     /\ w.status = "running" => w.snapshot
     /\ w.stream = "retrieving" => ~w.snapshot}

NoRows ==
  /\ status = [g \in Gen |-> "absent"]
  /\ conv = [g \in Gen |-> NoOne]
  /\ age = [g \in Gen |-> 0]
  /\ snapshot = [g \in Gen |-> FALSE]
  /\ stream = [g \in Gen |-> "none"]

OneLegacyRow ==
  \E w \in LegacyRowStates, c \in LegacyIn, a \in 0 .. LegacyGrace :
    /\ status = [g \in Gen |-> IF g = 1 THEN w.status ELSE "absent"]
    /\ conv = [g \in Gen |-> IF g = 1 THEN c ELSE NoOne]
    /\ age = [g \in Gen |-> IF g = 1 THEN a ELSE 0]
    /\ snapshot = [g \in Gen |-> g = 1 /\ w.snapshot]
    /\ stream = [g \in Gen |-> IF g = 1 THEN w.stream ELSE "none"]

Init ==
  /\ inst = [i \in Instance |-> "new"]
  /\ deadFor = [i \in Instance |-> 0]
  /\ NoRows \/ OneLegacyRow
  /\ owner = [g \in Gen |-> NoOne]
  /\ lease = [g \in Gen |-> 0]
  /\ record = [p \in Scope \X Key |-> NoOne]
  /\ cut = [g \in Gen |-> FALSE]
  /\ told = [g \in Gen |-> "none"]
  /\ req = [r \in Request |-> IdleReq]

-----------------------------------------------------------------------------
(* Time.                                                                   *)

\* A second passes, on the database clock.
Tick ==
  /\ lease' = [g \in Gen |->
       IF Finishable(g) /\ owner[g] # NoOne /\ lease[g] > -MaxAge
         THEN lease[g] - 1 ELSE lease[g]]
  /\ age' = [g \in Gen |->
       IF AgeMatters(g) /\ age[g] < MaxAge THEN age[g] + 1 ELSE age[g]]
  /\ deadFor' = [i \in Instance |->
       IF /\ inst[i] = "dead" /\ deadFor[i] < Lease + MaxAge
          /\ \E g \in Gen : Active(g) /\ owner[g] = i
         THEN deadFor[i] + 1 ELSE deadFor[i]]
  /\ UNCHANGED <<inst, status, conv, owner, snapshot, record, streamVars, req>>

-----------------------------------------------------------------------------
(* Instances.                                                              *)

\* Startup: reclaim every expired row of every user, then serve.  A database
\* error skips the reclaim, not the start.
StartInstance(i) ==
  /\ inst[i] = "new"
  /\ inst' = [inst EXCEPT ![i] = "up"]
  /\ \/ Reconcile({g \in Gen : Reclaimable(g)}, LastAlive)
     \/ UNCHANGED <<status, age, lease>>
  /\ UNCHANGED <<deadFor, conv, owner, snapshot, record, streamVars, req>>

\* Bound: the last incarnation goes on; in the cluster there is always another.
Replaced(i) == \E j \in Instance \ {i} : inst[j] \in {"new", "up"}

\* The end of the lifespan: the heartbeat stops and the rows this instance
\* still owns are handed over, unless the database refuses.
Shutdown(i) ==
  /\ inst[i] = "up" /\ Replaced(i)
  /\ inst' = [inst EXCEPT ![i] = "stopping"]
  /\ \/ Reconcile(OwnFinishable(i), JustNow)
     \/ UNCHANGED <<status, age, lease>>
  /\ UNCHANGED <<deadFor, conv, owner, snapshot, record, streamVars, req>>

\* The process is gone, killed or at the end of a shutdown, with its threads
\* and its open transactions.
Crash(i) ==
  /\ inst[i] \in {"up", "stopping"}
  /\ Replaced(i)
  /\ inst' = [inst EXCEPT ![i] = "dead"]
  /\ stream' = [g \in Gen |->
       IF owner[g] = i /\ stream[g] \in InFlight THEN "ended" ELSE stream[g]]
  /\ cut' = [g \in Gen |-> owner[g] # i /\ cut[g]]
  /\ req' = [r \in Request |-> IF req[r].inst = i THEN IdleReq ELSE req[r]]
  /\ UNCHANGED <<deadFor, rowVars, told>>

\* Mutant: the beat extends leases and ignores the statuses it gets back.
BeatOnlyExtends(i, g) == FALSE

\* A status that the beat returns and answers with a cancel of the upstream.
BeatCancels(i, g) ==
  g \in OwnFinishable(i) /\ status[g] = "cancel_requested" /\ stream[g] = "streaming"

\* One beat of the lease keeper: every row of the instance that its streams
\* can still finish gets a new lease, and a cancel that came in through
\* another instance reaches the upstream.  A beat that fails is no step.
Heartbeat(i) ==
  /\ inst[i] = "up"
  /\ lease' = [g \in Gen |-> IF g \in OwnFinishable(i) THEN Lease ELSE lease[g]]
  /\ cut' = [g \in Gen |-> cut[g] \/ BeatCancels(i, g)]
  /\ UNCHANGED <<instVars, status, conv, owner, age, snapshot, record, stream,
                 told, req>>

-----------------------------------------------------------------------------
(* Accepting a completion or a retry.                                      *)

\* Transaction 1: under the user's row lock, nothing is recorded for the key.
Submit(r, i, s, k) ==
  /\ req[r].pc = "idle" /\ inst[i] = "up"
  /\ s \in Gen => Exists(s)
  /\ LockFree(UserOfScope(s))
  /\ record[<<s, k>>] = NoOne
  /\ req' = [req EXCEPT ![r] = [pc |-> "checked", inst |-> i, scope |-> s,
                                key |-> k, closes |-> {}]]
  /\ UNCHANGED <<instVars, rowVars, streamVars>>

\* Transaction 2: the user's expired rows are reclaimed and that is kept
\* whatever the third transaction decides.
ReclaimForUser(r) ==
  /\ req[r].pc = "checked"
  /\ Reconcile({g \in RowsOf(UserOfScope(req[r].scope)) : Reclaimable(g)},
               LastAlive)
  /\ req' = [req EXCEPT ![r].pc = "reclaimed"]
  /\ UNCHANGED <<instVars, conv, owner, snapshot, record, streamVars>>

\* Transaction 3 refuses: a replay after all, 409, or a retry not allowed.
Reject(r, d) ==
  /\ req[r].pc = "reclaimed" /\ LockFree(UserOfScope(req[r].scope))
  /\ ~MayProceed(r, d)
  /\ req' = [req EXCEPT ![r] = IdleReq]
  /\ UNCHANGED <<instVars, rowVars, streamVars>>

\* Transaction 3, first half: the user's row lock is taken and everything the
\* decision needs is read.  The lock is held until Commit or Abort.
Select(r, d) ==
  /\ req[r].pc = "reclaimed" /\ LockFree(UserOfScope(req[r].scope))
  /\ MayProceed(r, d)
  /\ req' = [req EXCEPT ![r].pc = "selected",
                        ![r].closes = NewestActive(UserOfScope(req[r].scope))]
  /\ UNCHANGED <<instVars, rowVars, streamVars>>

\* Transaction 3, second half: the row that was found stale is failed by id,
\* whatever it is by now, and the new row g goes in with its owner, its lease
\* and its idempotency record.  A retry starts with its original's input.
CommitRow(r, g) ==
  LET q == req[r]
      isRetry == q.scope \in Gen
      Put(f, x) == [h \in Gen |-> IF h = g THEN x ELSE f[h]]
      Drop(f) == [h \in Gen |-> IF h \in q.closes \cup {g} THEN 0 ELSE f[h]]
  IN /\ q.pc = "selected"
     /\ ~Exists(g) /\ \A h \in Gen : h < g => Exists(h)
     /\ record[<<q.scope, q.key>>] = NoOne    \* primary key
     /\ status' = [h \in Gen |->
          CASE h = g -> IF isRetry THEN "running" ELSE "queued"
            [] h \in q.closes \ {g} -> "failed"
            [] OTHER -> status[h]]
     /\ conv' = Put(conv, ConvOf(q.scope))
     /\ owner' = Put(owner, q.inst)
     /\ lease' = [Drop(lease) EXCEPT ![g] = Lease]
     /\ age' = Drop(age)
     /\ snapshot' = Put(snapshot, isRetry /\ snapshot[q.scope])
     /\ record' = [record EXCEPT ![<<q.scope, q.key>>] = g]
     /\ stream' = Put(stream, "handoff")
     /\ req' = [req EXCEPT ![r] = IdleReq]
     /\ UNCHANGED <<instVars, cut, told>>

Commit(r) == \E g \in Gen : CommitRow(r, g)

\* A transaction fails (no active version, timeout, database error): it rolls
\* back and the request ends.
Abort(r) ==
  /\ req[r].pc # "idle"
  /\ req' = [req EXCEPT ![r] = IdleReq]
  /\ UNCHANGED <<instVars, rowVars, streamVars>>

-----------------------------------------------------------------------------
(* The stream of a generation, in the process that accepted it.            *)

\* The response asks for the first event; a retry needs no retrieval.  An
\* instance at the end of its lifespan starts no response any more.
StartStream(g) ==
  /\ stream[g] = "handoff" /\ inst[owner[g]] = "up"
  /\ stream' = [stream EXCEPT ![g] =
                  IF snapshot[g] THEN "streaming" ELSE "retrieving"]
  /\ UNCHANGED <<instVars, rowVars, cut, told, req>>

\* Mutant: mark_generation_running for every row that is not over.
RunsAnyway(g) == Finishable(g)

\* The guard of mark_generation_running.
MayRun(g) == status[g] = "queued"

\* mark_generation_running, and the upstream is asked.  The row moves only if
\* no cancel came first; the stream goes on in both cases.
MarkRunning(g) ==
  /\ stream[g] = "retrieving"
  /\ stream' = [stream EXCEPT ![g] = "streaming"]
  /\ IF MayRun(g)
       THEN /\ status' = [status EXCEPT ![g] = "running"]
            /\ snapshot' = [snapshot EXCEPT ![g] = TRUE]
            /\ age' = [age EXCEPT ![g] = 0]
            /\ lease' = [lease EXCEPT ![g] = IF owner[g] = NoOne THEN 0 ELSE Lease]
       ELSE UNCHANGED <<status, snapshot, age, lease>>
  /\ UNCHANGED <<instVars, conv, owner, record, cut, told, req>>

\* Mutant: finish_generation without its WHERE guard.
FinishedUnguarded(g, s) == IF status[g] = "cancel_requested" THEN "cancelled" ELSE s

\* Mutant: finish_generation without its CASE on a requested cancel.
FinishedUncancelled(g, s) == IF Finishable(g) THEN s ELSE status[g]

\* What finish_generation leaves in the row: a cancel wins over s, and a row
\* that is not ours to finish any more stays as it is.
FinishedStatus(g, s) ==
  IF status[g] = "cancel_requested" THEN "cancelled"
  ELSE IF Finishable(g) THEN s ELSE status[g]

\* Mutant: the event is made from what the stream meant to write.
EventOfIntent(g, s) == s

\* The terminal event is made from the row that finish_generation returned.
TerminalEvent(g, s) ==
  IF FinishedStatus(g, s) \in {"completed", "cancelled"}
    THEN FinishedStatus(g, s) ELSE "failed"

\* The stream comes to its end: retrieval failed, the upstream ended or
\* failed, a deadline passed.  The row is written before the event is sent,
\* and nothing that happens to the client after it changes the row.
Finish(g, s) ==
  /\ \/ stream[g] = "retrieving" /\ s = "failed"
     \/ stream[g] = "streaming" /\ s \in {"completed", "failed"}
  /\ status' = [status EXCEPT ![g] = FinishedStatus(g, s)]
  /\ lease' = [lease EXCEPT ![g] = 0]
  /\ age' = [age EXCEPT ![g] = IF Finishable(g) THEN 0 ELSE age[g]]
  /\ told' = [told EXCEPT ![g] = TerminalEvent(g, s)]
  /\ stream' = [stream EXCEPT ![g] = "ended"]
  /\ cut' = [cut EXCEPT ![g] = FALSE]
  /\ UNCHANGED <<instVars, conv, owner, snapshot, record, req>>

\* The client goes away while the generator runs: GeneratorExit at a yield or
\* ClientGone while waiting, and the result counts as unknown.
Disconnect(g) ==
  /\ stream[g] \in {"retrieving", "streaming"}
  /\ Reconcile({h \in {g} : Finishable(h)}, JustNow)
  /\ stream' = [stream EXCEPT ![g] = "ended"]
  /\ cut' = [cut EXCEPT ![g] = FALSE]
  /\ UNCHANGED <<instVars, conv, owner, snapshot, record, told, req>>

\* The stream ends and nothing records it: the route fails between the commit
\* and the response, a generator is closed before its first event, or the
\* database refuses the last write.
LoseStream(g) ==
  /\ Lossy
  /\ stream[g] \in {"handoff", "retrieving", "streaming"}
  /\ stream' = [stream EXCEPT ![g] = "ended"]
  /\ cut' = [cut EXCEPT ![g] = FALSE]
  /\ UNCHANGED <<instVars, rowVars, told, req>>

\* POST .../cancel, on any instance.  Only the instance that streams can stop
\* the upstream at once, and only once the upstream was asked.
Cancel(i, g) ==
  /\ inst[i] = "up" /\ Finishable(g)
  /\ status' = [status EXCEPT ![g] = "cancel_requested"]
  /\ age' = [age EXCEPT ![g] = IF status[g] = "cancel_requested" THEN age[g] ELSE 0]
  /\ cut' = [cut EXCEPT ![g] =
               \/ cut[g]
               \/ owner[g] = i /\ stream[g] = "streaming"]
  /\ UNCHANGED <<instVars, conv, owner, lease, snapshot, record, stream, told, req>>

-----------------------------------------------------------------------------
Skew == -ClockSkew .. ClockSkew

Next ==
  \/ Tick
  \/ \E i \in Instance : StartInstance(i) \/ Shutdown(i) \/ Crash(i) \/ Heartbeat(i)
  \/ \E r \in Request :
       \/ \E i \in Instance, s \in Scope, k \in Key : Submit(r, i, s, k)
       \/ ReclaimForUser(r) \/ Commit(r) \/ Abort(r)
       \/ \E d \in Skew : Select(r, d) \/ Reject(r, d)
  \/ \E g \in Gen :
       \/ StartStream(g) \/ MarkRunning(g)
       \/ \E s \in {"completed", "failed"} : Finish(g, s)
       \/ Disconnect(g) \/ LoseStream(g)
       \/ \E i \in Instance : Cancel(i, g)

Spec == Init /\ [][Next]_vars

-----------------------------------------------------------------------------
(* Safety.                                                                 *)

\* The state spaces of all variables; the distances stay within their bounds,
\* an existing row has a conversation, and a pending request is complete and
\* names existing rows only.
InstTypeOK ==
  /\ inst \in [Instance -> {"new", "up", "stopping", "dead"}]
  /\ deadFor \in [Instance -> 0 .. (Lease + MaxAge)]

RowTypeOK ==
  /\ status \in [Gen -> Statuses]
  /\ conv \in [Gen -> Conversation \cup {NoOne}]
  /\ owner \in [Gen -> Instance \cup {NoOne}]
  /\ lease \in [Gen -> (-MaxAge) .. Lease]
  /\ age \in [Gen -> 0 .. MaxAge]
  /\ snapshot \in [Gen -> BOOLEAN]
  /\ record \in [Scope \X Key -> Gen \cup {NoOne}]
  /\ \A g \in Gen : Exists(g) => conv[g] \in Conversation

StreamTypeOK ==
  /\ stream \in [Gen -> InFlight \cup {"none", "ended"}]
  /\ cut \in [Gen -> BOOLEAN]
  /\ told \in [Gen -> TerminalStatuses \cup {"none"}]

ReqTypeOK ==
  /\ req \in [Request -> [pc : {"idle", "checked", "reclaimed", "selected"},
                           inst : Instance \cup {NoOne},
                           scope : Scope \cup {NoOne},
                           key : Key \cup {NoOne},
                           closes : SUBSET Gen]]
  /\ \A r \in Request : req[r].pc # "idle" =>
       /\ req[r].inst \in Instance /\ req[r].scope \in Scope /\ req[r].key \in Key
       /\ req[r].scope \in Gen => Exists(req[r].scope)
       /\ \A g \in req[r].closes : Exists(g)

TypeOK == InstTypeOK /\ RowTypeOK /\ StreamTypeOK /\ ReqTypeOK

\* A user has at most one active generation, over all personas, conversations
\* and instances.  Nothing in the schema enforces it: the user's row lock does.
SlotExclusive ==
  \A g, h \in Gen :
    Active(g) /\ Active(h) /\ UserOf[conv[g]] = UserOf[conv[h]] => g = h

\* One submission, named by its target and its Idempotency-Key, makes one
\* generation: every accepted row answers the replays of exactly one submission,
\* and a transaction that is about to insert a row finds its key still free, so
\* that a race of two equal requests ends in a replay and never in an error.
OneGenerationPerKey ==
  /\ \A g \in Gen : Exists(g) /\ owner[g] # NoOne =>
       \E p \in Scope \X Key : \A q \in Scope \X Key : record[q] = g <=> q = p
  /\ \A r \in Request :
       req[r].pc = "selected" => record[<<req[r].scope, req[r].key>>] = NoOne

\* A generation that answered, or still can, has the input it ran on stored, so
\* that it can be retried; also when a retry of a retry copied that input.
AnswerHasInput ==
  \A g \in Gen : status[g] \in {"running", "completed"} => snapshot[g]

\* What the terminal event says is in the row before it is sent and stays true
\* of it.  Two answers are weaker than the row: a cancelled row may be failed
\* later by the user's next request, and "failed" is also what a client hears
\* of a row that another process took over and left unresolved.
ToldIsRecorded ==
  \A g \in Gen :
    /\ told[g] = "completed" => status[g] = "completed"
    /\ told[g] = "cancelled" => status[g] \in {"cancelled", "failed"}
    /\ told[g] = "failed" => status[g] \in {"failed", "reconciling"}

\* After a crash the slot is held for one lease and one reconciliation timeout
\* at most: the clock of the timeout starts at the end of the lease, however
\* late the row is reclaimed and by whom.
Capped(n) == IF n < MaxAge THEN n ELSE MaxAge

CrashCostBounded ==
  \A g \in Gen : owner[g] # NoOne /\ inst[owner[g]] = "dead" =>
    /\ Finishable(g) => -lease[g] >= Capped(deadFor[owner[g]] - Lease)
    /\ status[g] = "reconciling" => age[g] >= Capped(deadFor[owner[g]] - Lease)

\* What a retry was allowed on when its transaction read it still holds when
\* it commits: a finished latest attempt whose input is stored.
RetryStillAllowed ==
  \A r \in Request :
    req[r].pc = "selected" /\ req[r].scope \in Gen => RetryAllowed(req[r].scope)

-----------------------------------------------------------------------------
(* Action properties.                                                      *)

\* A row whose result is unknown is left alone by everybody but the request that
\* finds it stale.  It may have been taken from an owner that was only late, and
\* whose stream goes on: neither the beats of that owner, nor the end of its
\* retrieval or its stream, nor its client, its shutdown or a cancel bring the row
\* back, finish it, or start its timeout anew (chat/repository.py:795-880, 969-1045).
UnknownLeftAlone ==
  [][\A g \in Gen : status[g] = "reconciling" =>
       \/ status'[g] = "reconciling" /\ age'[g] >= age[g]
       \/ /\ status'[g] = "failed"
          /\ \E r \in Request : req[r].pc = "selected" /\ g \in req[r].closes]_vars

\* A cancel that was recorded is never forgotten: the row goes nowhere but to
\* cancelled, to unknown, or to failed once it has been stuck too long.
CancelNotLost ==
  [][\A g \in Gen : status[g] = "cancel_requested" =>
       status'[g] \in {"cancel_requested", "cancelled", "reconciling", "failed"}]_vars

\* A result is final.  The exception is the code's: a cancelled row that was
\* found stale before it was finished is failed by the request that found it.
TerminalStays ==
  [][\A g \in Gen : status[g] \in TerminalStatuses =>
       \/ status'[g] = status[g]
       \/ /\ status[g] = "cancelled" /\ status'[g] = "failed"
          /\ \E r \in Request : req[r].pc = "selected" /\ g \in req[r].closes]_vars

-----------------------------------------------------------------------------
(* What documents and comments of the repository say and the code does not *)
(* do.  No run lists them; TLC refutes each on the instance that README    *)
(* section 6 names.                                                        *)

\* The first result of a generation stands.
TerminalIsFinal ==
  [][\A g \in Gen : status[g] \in TerminalStatuses => status'[g] = status[g]]_vars

\* A row is reconciling only once its generator is gone.
ReconcilingIsOver ==
  \A g \in Gen : status[g] = "reconciling" => stream[g] = "ended"

\* The client is told what is stored.
ClientSeesRow == \A g \in Gen : told[g] # "none" => told[g] = status[g]

\* The timeout of an unresolved row is judged on the database clock.
JudgedByDatabaseClock ==
  [][\A r \in Request : req[r].pc = "reclaimed" /\ req'[r].pc = "selected" =>
       \A g \in req'[r].closes : age[g] > ReconTimeout]_vars

\* The input that a retry needs is stored before the stream starts.
InputBeforeStream == \A g \in Gen : stream[g] = "streaming" => snapshot[g]

\* Only a failed or cancelled attempt is retried.
OnlyFailuresRetried ==
  \A r \in Request : req[r].pc = "selected" /\ req[r].scope \in Gen =>
    status[req[r].scope] \in {"failed", "cancelled"}

-----------------------------------------------------------------------------
(* The abstract slot.                                                      *)

SlotPhase ==
  [g \in Gen |->
    CASE status[g] = "absent" -> "none"
      [] status[g] \in {"queued", "running"} -> "live"
      [] status[g] = "cancel_requested" -> "stopping"
      [] status[g] = "reconciling" -> "unknown"
      [] OTHER -> status[g]]

SlotUser == [g \in Gen |-> IF Exists(g) THEN UserOf[conv[g]] ELSE NoOne]

Slot == INSTANCE GenerationSlot
  WITH Answer <- Gen, NoUser <- NoOne, phase <- SlotPhase, user <- SlotUser

\* The rows of all instances together behave as one slot per user.
SlotRefined == Slot!Spec

-----------------------------------------------------------------------------
(* Liveness.                                                               *)

\* What the liveness properties assume: the clock runs and instances start; a
\* stream that was handed to its response is started or lost with it, a client
\* reads its stream or goes away, and the deadlines end the wait for the upstream;
\* the user keeps asking, and a transaction that is tried again and again does not
\* fail each time.  A stream that is lost takes no more steps: nothing here says
\* that a generation is ever streamed, or that its end is ever written.
StreamStep(g) ==
  \/ StartStream(g) \/ MarkRunning(g)
  \/ \E s \in {"completed", "failed"} : Finish(g, s)

Ask(r) == \E i \in Instance, c \in Conversation, k \in Key : Submit(r, i, c, k)
AsksNewQuestion(r) == req[r].scope \in Conversation
Decide(r) == \E d \in Skew : Select(r, d) \/ Reject(r, d)

SlotFairness ==
  /\ WF_vars(Tick)
  /\ \A i \in Instance : WF_vars(StartInstance(i))
  /\ \A g \in Gen : WF_vars(StreamStep(g))
  /\ \A r \in Request :
       /\ WF_vars(ReclaimForUser(r) \/ Decide(r) \/ Commit(r) \/ Abort(r))
       /\ SF_vars(Ask(r))
       /\ SF_vars(AsksNewQuestion(r) /\ ReclaimForUser(r))
       /\ SF_vars(AsksNewQuestion(r) /\ Decide(r))
       /\ SF_vars(AsksNewQuestion(r) /\ Commit(r))

\* The keeper beats, and a process that stops is gone after a while.  Nothing
\* is assumed of streams: a cancelled one may wait for its upstream for ever.
CancelFairness ==
  \A i \in Instance : WF_vars(Heartbeat(i)) /\ WF_vars(inst[i] = "stopping" /\ Crash(i))

LiveSpec == Spec /\ SlotFairness
CancelSpec == Spec /\ CancelFairness

\* Nobody will finish the row: its stream ended unrecorded in a process that lives
\* on and whose beats keep the lease (main.py:1374, sse_stream.py:102).
Stranded(g) ==
  /\ status[g] \in {"queued", "running"} /\ stream[g] = "ended"
  /\ owner[g] # NoOne /\ inst[owner[g]] = "up"

\* A user who keeps asking gets the slot back after disconnects, crashes, late
\* takeovers, cancels and rows of an older release, and also after a stream that
\* was lost, as soon as its row is cancelled or its process stops.  The one row
\* that may hold the slot is a stranded one.  (A generation can be opened after g:
\* the ids are bounded here, not in the code.)
SlotFreed ==
  \A g \in Gen : g < MaxGen => (Active(g) ~> (~Active(g) \/ Stranded(g)))

\* A failure blocks the user's slot for ever in no case (chat/service.py:280-284).
\* Also a document's statement: a lost stream refutes it, see README section 6.
SlotAlwaysFreed ==
  \A g \in Gen : g < MaxGen => (Active(g) ~> ~Active(g))

\* A cancel reaches the upstream although another instance took the request and
\* although it came before the upstream was asked; or the wait is over anyway.
CancelReaches ==
  \A g \in Gen :
    (status[g] = "cancel_requested" /\ owner[g] # NoOne /\ stream[g] = "streaming")
      ~> (cut[g] \/ stream[g] # "streaming" \/ status[g] # "cancel_requested")

=============================================================================

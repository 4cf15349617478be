# Verification of persona-gateway

TLA+ specifications, TLC runs and TLAPS proofs for the Gateway of Persona
Runtime (`src/python-backend`): a FastAPI service in front of PostgreSQL, an
embedding service and a vLLM server. Paths below are relative to
`src/python-backend/src/persona_minimal_api/` unless they start with `src/`.

Contents: [inventory](#1-the-system), [plan](#2-plan), [the
models](#3-what-is-modelled), [runs](#4-what-the-runs-check),
[proofs](#5-what-is-proved), [disagreements found](#6-where-code-and-documents-disagree),
[limits](#7-what-is-not-covered).

## 1. The system

| part | state | operations | hard because |
|---|---|---|---|
| **generation slot and lease** (`chat/repository.py`, `chat/lease.py`) | rows of `generations` (status, owner, lease, heartbeat, input snapshot), `chat_idempotency_records` | accept a completion, accept a retry, mark running, finish, mark reconciling, cancel, reclaim (startup, per request), extend leases, hand over at shutdown | several Gateway processes act on the same rows; three transactions per accept; crashes; leases; timeouts; no constraint in the schema that a user has one active row |
| **generation stream** (`chat/service.py`, `chat/sse_stream.py`, `chat/sse.py`) | a generator, its worker thread and queue, the `client_gone` event | retrieve, build the prompt, stream, finish; or end by a disconnect, a deadline, an error | the row must be written before the client is told; the client, another instance and the user (cancel) interfere |
| **upstream clients** (`chat/vllm_client.py`, `chat/fake_inference.py`) | attempts per generation with a cancelled flag and a response | start, cancel, read tokens with idle and first-token limits | cancel races registration, request and response |
| **conversations** (`chat/repository.py`) | `conversations`, `user_messages` | create (idempotent), list, history | idempotency record read before the lock |
| **personas and material** (`repository.py`) | `personas` with draft and active pointers, `material_versions` (revision, status, indexed revision), `material_sources`, `idempotency_records` | create, start a draft, patch, apply, activate, discard, delete | optimistic revisions, row locks on user and persona, an advisory lock, several versions per persona |
| **indexing** (`indexing/*`) | the advisory lock and pool connection of a run, `material_chunks` | chunk, embed, replace the chunks and mark ready, or mark failed | runs in the background of a request, while the draft is edited; crashes leave `processing` |
| **retrieval and prompt** (`retrieval/*`) | none | search chunks of a version, fit history and chunks into a budget | boundaries of the budget |
| **accounts and sessions** (`auth/*`) | credentials with failure count and lockout, sessions | sign up, log in, authenticate, log out | concurrent attempts, expiry and revocation between check and use |
| **routes, errors, cursors** (`main.py`, `cursor.py`) | the lifespan of the process | translate requests and results; startup cleanup and reclaim, hand-over at shutdown | steps between the committed row and its response |
| **metrics, build info, config** | counters, settings | none that feeds back | the lease must be long against the heartbeat (`config.py`, `generation_lease_is_safe`) |
| **schema** (`src/python-backend/migrations`) | keys, checks, foreign keys | none at run time | foreign keys take locks |
| **embedding service** (`src/embedding-service`) | a model loaded in the background | embed, readiness | none that the Gateway depends on beyond an error |

How they interact. The route commits a generation row (slot and lease), reads
the persona, and hands a generator to the response. The generator retrieves
(embedding service, chunks), marks the row running, asks the upstream from a
thread, and finishes the row before it sends the terminal event. A heartbeat
thread per process extends the leases of the rows of that process and learns
from the returned statuses of cancels that other processes took. Startup, and
each accept, turn rows with an expired lease into `reconciling`; an accept that
finds a row unresolved for more than 300 s fails it and takes the slot. There is
no background sweep. Persona deletion is refused while a generation is active.

What makes the core correct: one active generation per user; one generation per
submission; a row is taken from a process only after its lease; a recorded
cancel is never lost; what a client is told is in the row; a retry has its
input; after a crash the slot comes back, in bounded time; a cancel reaches the
upstream. The list of hazards with their lines is in `PROJECT.json`.

## 2. Plan

In order of importance; all but the last entry exist.

1. `GenerationLifecycle`, implementing the abstract `GenerationSlot`: rows,
   instances, leases, accept paths, streams. One proof module.
2. `MaterialVersions`, implementing the abstract `AppliedMaterial`: drafts,
   indexing runs, application, deletion, and the searches of answers, which tie
   it to the generations. One proof module.
3. `AnswerStream`: the threads behind one answer, where `GenerationLifecycle` has
   one step. One proof module.
4. `LeaseHeartbeat`: the heartbeat in time, where `GenerationLifecycle` lets it
   happen or not. One proof module.
5. `PersonaRequests`, implementing the abstract `SerialRequests`: statements, row
   locks and idempotency records of the owner's requests, where `MaterialVersions`
   has one transaction. One proof module.
6. `Accounts`: logins under the credential's lock, lock-out, sessions. One proof
   module.
7. `Listings`, `Chunker`, `PromptBudget`: paging under concurrent writes, and two
   pure algorithms, step by step. A proof module for `Listings` and for
   `PromptBudget`.
8. Left: the order of a conversation's history when transactions wait for each
   other; the readiness of the embedding service; a proof about `Chunker`.

The modules overlap at the seams only, each time at another grain: a step of one
is a sequence of steps of the other. No composition of all is checked, since
they share little more than the locks they name.

## 3. What is modelled

`PROJECT.json` maps every definition to the lines it stands for.

### GenerationLifecycle

Instances are process incarnations (`instance_id` is new at every start).
`status`, `conv`, `owner`, `snapshot` and `record` are columns; a generation's
number is its order of creation. A timestamp is kept as a distance from the
database's `now()`: `lease[g]` is `lease_expires_at - now()`, `age[g]` is `now()
- heartbeat_at`. `Tick` moves all of them at once, so there is no absolute clock
to bound; both distances saturate (`MaxAge`) where no comparison of the code can
change any more, and are set to 0 when the code never reads them again.
`stream[g]` is where the generator of `g` is (accepted but not started,
retrieving, streaming, ended), `cut[g]` whether its upstream was told to stop,
`told[g]` what the terminal event said.

| action | code |
|---|---|
| `StartInstance`, `Shutdown`, `Crash` | the lifespan in `main.py` with `reclaim_expired_generations` and `release_own_generations`; the end of a process |
| `Heartbeat` | `GenerationLeaseKeeper.beat_once` with `extend_own_leases` |
| `Submit`, `ReclaimForUser`, `Reject`, `Select`, `Commit` | `create_generation_queued` and `create_retry_generation`: the early replay lookup, the separately committed reclaim, and the main transaction. The latter is two actions because the active row is read without a lock and written later; between them the user's row lock (`LockFree`) is held |
| `Abort` | any error of the three transactions |
| `StartStream`, `MarkRunning`, `Finish`, `Disconnect` | `stream_generation`, `_run_generation`, `mark_generation_running`, `finish_generation`, `mark_generation_reconciling` |
| `LoseStream` | a stream that ends and is not recorded (`main.py` between commit and response, a generator closed before its first `next`, a database error on the last write). Only if `Lossy` |
| `Cancel` | `request_cancel` and the route's call of the upstream client |

Answers that change nothing (replays, a cancel of a finished row) are
stuttering. The statement-level guards are kept (`WHERE status = 'queued'`,
`WHERE status = ANY(finishable)`, the CASE on `cancel_requested`), with one
operator for each so that a run can also check what happens without it. A row
written by a release without ownership may exist at the start, in a conversation
of `LegacyIn`, with a stream that may still run.

Abstractions: texts, citations, metrics and responses are absent; the schema is
the current one, so the statements for a database without lease columns do not
occur; a request with a used key and another body is answered where a replay
is; `created_at` order is commit order; deletion of a persona with its
generations is in `MaterialVersions`.

### GenerationSlot

What the rows of all instances promise together, without process, lease, lock
or clock: per user one slot; an answer in it is live, asked to stop, or of
unknown outcome; an answer that was asked to stop never counts as completed; a
user who opens a new answer gives up those that are unresolved. `SlotRefined`
says that `GenerationLifecycle` implements it, under the mapping `SlotPhase`,
`SlotUser`.

### MaterialVersions and AppliedMaterial

Rows of `personas` (`live`, `draft`, `active`) and `material_versions` (`status`,
`rev`, `indexed`, `sources`, `chunks`), the processes, and what is not stored:
the advisory lock of each persona (`locked`), the runs, the searches. A run holds
a database session until its end, so it takes a connection of the pool, and its
lock goes with the session. A session whose lock could not be given back goes to
the pool with it (`kept`): it can lock again, the others find the persona busy.

| action | code |
|---|---|
| `CreateDraft`, `PatchDraft`, `DiscardDraft`, `ActivateDraft`, `DeletePersona` | the methods of `repository.py`, each one transaction under the persona's row lock; `Busy` is `_persona_is_busy` |
| `StartIndexing`, `LoadSources`, `Embed`, `Commit`, `MarkFailed`, `EndRun` | `start_indexing` and `run_indexing`, each transaction an action: sources are read after the revision was taken, chunks are replaced in any case, the label only if the revision is still that of the run |
| `StartIndexingFails` | `start_indexing` that fails after it took the lock, and whose `pg_advisory_unlock_all` fails too (where that succeeds nothing has changed) |
| `StatementFails`, `MarkFailedFails`, `LoseSession` | a statement that fails, the guard that fails too, a connection that breaks with the lock it holds; the unlock at the end may fail as well (`EndRun`), all if `DbFails` |
| `FreeKept` | the pool closes a session that kept a lock, or a refused start unlocks all of it |
| `Crash`, `Start` | the end of a process, and `fail_interrupted` at the next start, which marks the versions of every process |
| `AcceptQuestion`, `LoadIndexedRevision`, `LoadIndexedVersion`, `SearchBody`, `SearchSpeech`, `GiveUp`, `FinishSearch` | an answer's accept and the reads of its retrieval, without a common snapshot; the debug route; a row that is given up or deleted meanwhile |

`AppliedMaterial` is what the owner is promised: one draft becomes, as a whole,
what answers are drawn from, and nothing else changes that. `PromiseKept` maps a
draft's sources to `written` and the **chunks** of the applied version to
`served`, so that it fails if the two differ when a draft is applied.

### PersonaRequests and SerialRequests

One owner's requests to create and delete personas, drafts and conversations,
statement by statement: lookup of the idempotency record, row lock on the user,
row lock on the persona, judgement, insert. A client sends any of them at any
time with any key. The row locks include the `KEY SHARE` that a foreign key takes
on the user, which is what makes waiting in a circle possible; `WaitsFor` is the
wait-for relation, and the victim PostgreSQL picks is rolled back (`RollBack`).

`SerialRequests` is what the owner may count on: no locks, no transactions, no
lost answers; each request that succeeds is one step that checks and does all of
it, once for its key, and only that step adds to the answers. `RequestsAtOnce`
says that `PersonaRequests` implements it. The mapping is the identity, since what
a transaction writes is written at its commit: the property is that everything the
request read on the way is still so at that instant, and that a replay repeats an
answer (the id or the code of it; a draft is shown as it is now).

### Accounts

Logins in steps (start of the transaction, row lock, verification, commit), with
the `now()` of the start; sessions read in one transaction and touched or revoked
in another. `checks` is the history of answers that tell a password is wrong.

### AnswerStream

One answer with every thread that has a part in it: the response that drives the
generator (`CallNext`, `AwaitNext`, `CleanUp`, `Close`), the generator, the
worker with its queue, the vLLM client's reader, and the callers of `cancel()`.
Lines of the upstream are kinds, not texts. A deadline may pass at any time. The
database may fail the write of the end (`RecordDisconnect`, `Finish`); the generator
then tries once more (`SafetyNet`), and `saved` is `refused` when nothing was
written. Errors that nobody expected end in the same place.

### LeaseHeartbeat

The keeper's thread in discrete time: the wait, the wait for a connection, the
UPDATE, each bounded by its setting, and up to `MaxFailures` failed beats in a row;
rows that are stamped by transactions that started earlier; cancels recorded
elsewhere. `Gap` is the longest time from the `now()` of one good beat to the commit of
the next: two intervals and five waits if one may fail.

### Chunker, PromptBudget, Listings

`Chunker` reads a text line by line, so that every text up to the bound is a
behaviour; a sentence is its line and its length. `PromptBudget` drops piece
after piece until each block fits; a chunk or message is its length.
`Listings` has rows that are visible after their `created_at`, two owners, and a
reader with signed cursors.

### MC modules

Model values, sets too large for a `.cfg`, symmetry (in runs without liveness
only), and two views. `WhatMatters` of `MCPersonaRequests` leaves out the answer
of a finished request, the input of old answers and the name a draft gives: they
decide no later step and no property of one. `WhatMatters` of `MCAccounts`
identifies sessions that are over and that no request has read, and of the
history keeps the latest entries and their number modulo the threshold, which is
all that its properties look at. Two runs have an `ACTION_CONSTRAINT`:
`UntilLastId` of `slot_freed` ends a behaviour when the last id is in use (what
`SlotFreed` asks of the earlier ones has been decided by then: a generation is opened
only in a free slot, and a result is final), and `OneEditLater` of `material_search`
lets only the first version be edited twice (an edit during a run and one after it).

## 4. What the runs check

All of them pass. `CHECK_DEADLOCK FALSE` stands where the model stops although
the system would not (a bound is used up), or where the thing modelled ends (a
text, a prompt, an answer).

| run | properties | instance | why it is enough |
|---|---|---|---|
| `slot` | `TypeOK`, `SlotExclusive`, `OneGenerationPerKey`, `AnswerHasInput`, `RetryStillAllowed`, `ToldIsRecorded`, `TerminalStays` | 2 instances, 2 requests at once, 1 key, 2 conversations, 2 generations, lease 0, timeout 1, lost streams | races are between two requests, or a request and one stream, and need a generation to close and one to open; one key makes every same-scope pair a replay race; a retry is the second generation |
| `takeover` | `CrashCostBounded`, `UnknownLeftAlone`, `CancelNotLost`, `SlotRefined`, `CancelReaches` | 2 instances, 1 request, 1 conversation, 2 generations, lease 1, timeout 2, grace 1, a legacy row, lost streams, `CancelSpec` | before, at and after each limit; a reclaim under a stream that goes on; the timeout differs from the lease so that the wrong clock shows; cancel on either instance, before and after the upstream was asked |
| `slot_freed` | `SlotFreed` | 2 instances, 1 request, 2 conversations, 2 generations, lease 1, timeout 2, grace 1, skew 1, a legacy row, lost streams, `LiveSpec` | any active generation and a later one that needs its slot; the owner crashes, stops, is late, loses the stream, or is of an older release |
| `material` | `AppliedIsIndexed`, `LabelIsCurrent`, `NoRunOfDeleted`, `FrozenOnceApplied` | 1 persona, 2 processes, 2 runs, 2 versions, 3 revisions, 1 source, failing statements | two runs of two processes meet at one lock; a run of revision 1 ends after an edit and after the next run began; version 2 is a copy of version 1 |
| `material_search` | `AnswerFromOneMaterial`, `PromiseKept`, `IndexingEnds` | 1 persona, 1 process with a pool of 1, 2 runs, 1 search, 2 versions, 3 revisions, a text with and one without chunks, failing statements, `LiveSpec` | the search meets an application, an indexing run, a deletion between any two of its reads; a run needs the connection that another gives back |
| `personas` | `NothingRemains`, `NoStrayVersion`, `DeadlockIsOfDeletion`, `NotRevived`, `RequestsAtOnce` | 2 personas, 2 requests, 2 keys, 2 inputs, 2 ids, limit 1 | a persona that is deleted and another that takes its place; two requests with equal or different key and input. With a limit of 1 the part about equal names says nothing |
| `accounts` | `GuessesBounded`, `LockEarned`, `RevokedOnce` | 2 logins, 2 requests with a token, 2 sessions, threshold 2, lock-out 3, time to 4 | a login that began before the lock-out ends after it; time passes the lock-out once |
| `answer` | `OneAtATime`, `CompletedIsWhole`, `CancelNotMissed`, `EndRecorded`, `AnswerEnds` | 3 lines of 4 kinds, `ServeSpec` | a token before and after `[DONE]`; a bad line after a token; cancel by the user and by the deadline, and a failing last write, at every step |
| `lease` | `RenewedInTime`, `CancelHeard` | the default settings in units of 2 s: interval 5, timeout 1, lease 15; one failure, stamp 1, time to 26 | the settings that the comment in `config.py` is about; a row stamped under a beat that could not see it, a failed beat and the next good one fit, with a second failed beat behind it |
| `chunks` | `NothingLost`, `ChunkSizes` | texts of 6 lines, the limits of the code, sentences around each limit | merging needs three pieces and a section end |
| `prompt` | `KeptIsBest`, `PromptFits` | both modes and versions, up to 2 chunks of a kind and 4 messages, names that leave room for the profile, fill the block alone, and are too long for it | two exchanges, of which one must go; lengths with which a block just fits and just does not (a speech chunk of 558 characters fills the block of 600, one of 559 is dropped) |
| `listings` | `PagesAreTheList` | 2 users, 4 rows, pages of 1, 2 instants | ties of `created_at`, a row committed behind the cursor, a parent deleted between two pages |

What the less obvious ones say. `ToldIsRecorded` is about finishing before
telling. `TerminalStays`: a result is final except that a cancelled row found
stale earlier may still be failed by the request that found it. `UnknownLeftAlone`:
an owner that was late and lost its row goes on, and nothing it does touches the row.
`SlotFreed` has one exception, `Stranded`: the stream was lost in a process that lives
on (section 6). `RenewedInTime` bounds the age of a lease whatever its length; what
that means for the default lease is in section 6.
`CrashCostBounded` bounds the time a crash costs by one lease and one timeout,
however late and by whomever the row is reclaimed. `AppliedIsIndexed` and
`LabelIsCurrent` hold although chunks may be stored under an older label
(section 6). `RequestsAtOnce` is about every check that a request makes before it
writes, and about every key that is sent again. `DeadlockIsOfDeletion` says which requests can wait in
a circle, since some can. `GuessesBounded` bounds how many wrong answers a
burst of overlapping logins gets. `CancelNotMissed` is about a cancel that comes
between the registration of a request and its response.

Every property has a mutant of the code's operators in `PROJECT.json` under
which its run fails: without a row lock, without a second lookup, without a guard
in a WHERE clause, with a label written for any revision, with a cleanup that is
left out, with the wrong end of a list, and so on.

Modules have a `TypeOK` each; in the list it stands once, for the core. The others
are proved (section 5), except that of `Chunker`, which was found to hold on the
instance of its run. Proved and in no run's list are also `EventOrder` of
`AnswerStream`, `SeenSpaced` of `Accounts`, `BeatenHeld` of `LeaseHeartbeat` and `ChecksStillHold` of `PersonaRequests` (the limit, the names, one
result per key), which `RequestsAtOnce` took the place of.

Bounds: the sizes of the sets; `MaxGen`, `MaxVersion`, `MaxRevision`,
`MaxSources`, `MaxLines`, `Thing`, `MaxTime` and `MaxClock` as named in the
modules; `MaxAge` of `GenerationLifecycle` is where distances in time saturate,
`MaxAge` of `Accounts` the longest that a login takes; `Replaced` keeps the last
incarnation of a process alive (a cluster always starts another).

### Fairness

`LiveSpec` of `GenerationLifecycle` (for `SlotFreed`): the clock runs; a new
instance starts; a stream that was handed to its response goes on until it ends or is
lost, because the generator has deadlines for the upstream (60 s, 180 s) and a client
reads or disconnects; the user keeps asking new questions, and a transaction that is tried again and again
does not fail every time (strong fairness on the accept steps of a new question,
which failures and crashes interrupt). Nothing is assumed of heartbeats,
shutdowns or disconnects, and nothing keeps a stream from being lost (`LoseStream`) at
any point, also before it is handed over or started; after that it takes no step.

`CancelSpec` (for `CancelReaches`): the heartbeat thread beats, and a process at
the end of its lifespan ends. The stream itself is not assumed to move.

`LiveSpec` of `MaterialVersions` (for `IndexingEnds`): a background task goes on
as long as its process lives, since the embedding call and every statement have a
timeout, and a process that crashed is started again. A statement that runs into its
timeout is one that fails, so the run lets every statement, unlock and session fail
(`DbFails`). Nothing is assumed of requests, nor of the pool closing a session.

`ServeSpec` of `AnswerStream` (for `AnswerEnds`): the Gateway's own threads go
on, a generator that is exhausted ends its response, and the deadline passes.
Nothing is assumed of the model's server or of the worker that waits for it.

## 5. What is proved

TLAPS checks the following for every value of the constants that the named
assumptions allow. `LifecycleAssumption`: any sets of instances, users,
conversations, requests and keys, any number of generations, any lease, timeouts
and skew, with and without a legacy row and lost streams; ids are apart and the
grace for ownerless rows does not exceed the reconciliation timeout (240 s and
300 s in the code). `MaterialAssumption`: any number of personas, processes, runs,
searches, versions and revisions. `TimeAssumption` and
`generation_lease_is_safe`: any interval, timeout and lease that the settings
allow. `PromptAssumption`: any chunks, messages and names. `RequestsAssumption`:
any personas, ids, names, keys and requests, any limit; the ids of characters, of
what belongs to them and the answers that are no id are apart, as UUIDs and status
codes are. `AccountsAssumption`: any accounts, logins and sessions, any threshold,
lock-out and interval. `StreamAssumption`: any kinds of lines, any number of them.
`ListingsAssumption`: any users, any ids (ordered, of which only finitely many are
ever in use, which is proved), any length of a page.

| module | theorem | property | argument |
|---|---|---|---|
| `GenerationLifecycle_proofs` | `TypeCorrect` | `TypeOK` | inductive as it stands, one lemma per action |
| | `SlotExclusiveAlways` | `SlotExclusive` | `SlotInv` |
| | `ResultsStay` | `TerminalStays` | a step is quiet, a `Select`, or a `CommitRow` (`StepKinds`); only the last touches a settled row, and `SlotInv` says which |
| | `CancelKept` | `CancelNotLost` | `TypeOK` and `StepKinds` |
| | `OneGenerationPerKeyAlways`, `RetryAllowedAtCommit` | `OneGenerationPerKey`, `RetryStillAllowed` | `KeyInv` |
| | `AnswerHasInputAlways`, `ToldIsRecordedAlways` | `AnswerHasInput`, `ToldIsRecorded` | `StreamInv`, with `KeyInv` for what a commit starts from |
| | `UnknownIsLeftAlone` | `UnknownLeftAlone` | by action (`UnknownStep`): every other write needs a row that is not `reconciling`; the commit names the rows that its request found stale |
| | `CrashCostIsBounded` | `CrashCostBounded` | `CrashInv` |
| | `SlotImplemented` | `SlotRefined` | initial rows are a slot (`SlotStarts`); under `SlotInv` every step is a step of `GenerationSlot` or leaves `SlotPhase` and `SlotUser` alone (`SlotSimulates`) |
| `MaterialVersions_proofs` | `TypeCorrect`, `AppliedAlwaysIndexed`, `LabelAlwaysCurrent`, `RunsOfTheLiving`, `AppliedStaysFrozen` | `AppliedIsIndexed`, `LabelIsCurrent`, `NoRunOfDeleted`, `FrozenOnceApplied` | `IInv`, one lemma per action |
| | `AnswersFromOneMaterial` | `AnswerFromOneMaterial` | `FullInv`: `IInv` with `ReadersOk` and `SearchOk` |
| | `PromiseImplemented` | `PromiseKept` | under `IInv` every step is one of `AppliedMaterial` or changes neither `Written` nor `Served` |
| `LeaseHeartbeat_proofs` | `TypeCorrect`, `RenewedAlwaysInTime`, `CancelHeardInTime` | `RenewedInTime`, `CancelHeard` | `Due(r)`, `RenewalCovers` |
| | `BeatenNeverLost`, `SafeIfNoBeatFails` | `BeatenHeld`, `LeaseHeld` (no run lists them) | what the former means for a lease of at least `Gap`, and for the validator's rule when no beat fails |
| `PromptBudget_proofs` | `TypeCorrect`, `BestIsKept`, `EveryPromptFits`, `ExchangesStayWhole` | `KeptIsBest`, `PromptFits`, and `ExchangesWhole`, a part of it | `SpeechKept`, `BodyKept`, `HistoryKept`, and what each block's step leaves |
| `PersonaRequests_proofs` | `TypeCorrect`, `NothingRemainsAlways`, `NoStrayVersionAlways`, `ChecksAlwaysHold`, `DeadlocksAreOfDeletions` | `NothingRemains`, `NoStrayVersion`, `DeadlockIsOfDeletion`, and `ChecksStillHold`, which no run lists | `Inv`: what the holder of each row lock has read, and what is recorded of what |
| | `NeverRevived` | `NotRevived` | by action: what an answer names was read under a lock, in the same step, or found in a record that the deletion would have removed |
| | `RequestsTakeEffectAtOnce` | `RequestsAtOnce` | under `SerialInv` every step that writes is a step of `SerialRequests` (one lemma per action), every other one changes nothing it speaks of (`QuietSimulates`, `AnswerSimulates`) |
| `Accounts_proofs` | `TypeCorrect`, `GuessesAreBounded`, `LockIsEarned`, `RevokedStays`, `SeenIsSpaced` | `GuessesBounded`, `LockEarned`, `RevokedOnce`, and `SeenSpaced`, which no run lists | `Inv`; for sessions, what each request does to a row in one transaction (`SessionChanges`) |
| `AnswerStream_proofs` | `TypeCorrect`, `NeverClosedWhileRunning`, `CompletedAnswersAreWhole`, `CancelIsNeverMissed`, `EndsAreRecorded`, `EventsInOrder` | `OneAtATime`, `CompletedIsWhole`, `CancelNotMissed`, `EndRecorded`, and `EventOrder`, which no run lists | `Inv`, one lemma per conjunct |
| `Listings_proofs` | `TypeCorrect`, `PagesAreAlwaysTheList` | `PagesAreTheList` | `FoundIsSorted` (a page is the beginning of its list), then `Inv` |

Why the inductive invariants are what they are:

- `SlotInv`. The insert of a commit is safe because of what its transaction read
  earlier. `OneHolder` (the user's row lock has one holder), `ClosesAll` (what is
  active now is what the holder will close) and `ClosesUnresolved` (what it will
  close was unresolved and is at most cancelled since) carry that across the steps
  in between. The second is where the lock matters: no other step makes a row of
  that user active.
- `KeyInv` adds that recorded results exist (`RecordsExist`), so that a new row is
  nobody's replay; the key that was free under the lock stays free, and a latest
  attempt stays the latest, because other inserts of the user need the same lock.
- `StreamInv` adds `StreamsBacked`: what a generator in each place knows of its
  row.
- `CrashInv` adds that a dead process has no generator and no request left
  (`NoGhostStream`, `NoGhostRequest`), so that only reclaims move its rows, and
  that its clock starts at its death.
- `IInv` of `MaterialVersions` relates rows and runs: a run that can still write
  holds the lock of its persona (`RunsOk`, `LocksOk`), works for the draft, and
  carries that draft's sources unless the draft has a newer revision; and as long
  as it can write the draft is not ready (`WorkOk`). Without the last part a late
  run could write into a version that is applied. `SearchOk` adds that a version
  that an answer searches is no draft any more, so that nothing writes it.
- `Due(r)` of `LeaseHeartbeat` is, for each place the keeper can be in, the latest
  time at which a row will be beaten again, counting the failure that may still come;
  `RenewalCovers` says that it comes before the row's lease is `Gap` old (with a stamp
  on top for a row that no beat has reached). A beat that has taken its snapshot does
  not see a row that is being stamped, which is why new rows wait for a second one.
- `Inv` of `PersonaRequests` says for each place of a transaction what its request
  has read and may still rely on (`Stage`): under the user's row lock that the limit
  and the names it judged are still what is stored and that no record has its key;
  under a persona's row lock that its draft, its applied version and the records of
  drafts are as judged. `Locks` says that who has a row is at a place where it is
  needed; `Spares` and `Forward` are what the steps of all other requests leave
  alone. Conversations take no lock that would keep their record from appearing, and
  nothing of the kind is claimed of them. `Backed`: a record says what was answered,
  unless it went with its persona. It is what the half of
  `ChecksStillHold` that is about replays rests on.
- `SerialInv` adds to it what an implementation needs and an invariant did not:
  records and answers are the same thing, word for word, except for what went with a
  persona (`RecordsAnswered`), so that a replay adds nothing and a new record always
  adds something; and whoever is about to delete or to discard has no record of its
  key (`Undone`), because what it found before it took the persona's row can only be
  changed by one who has that row. Of a conversation this is not so, and its commit
  looks again: the primary key.
- `Inv` of `Accounts`: a login that verifies holds the row lock, so what it judges is
  what is stored, and is at most `MaxAge` old (`LoginOK`); the wrong passwords of an
  account are a whole number of lock-outs and those that count now (`CounterOK`); a
  lock-out runs from the password that caused it (`LockRuns`), and the first one that
  counts came after the last lock-out (`WindowLate`). The latter two meet in
  `Spaced`: of any `Threshold + 1` in a row, the first and the last are a lock-out
  apart, less the age of a login.
- `Inv` of `AnswerStream` counts: every token that the worker has taken off the
  reader's queue is in the answer or in the queue of pieces (`CountOK`), the lines
  that are left are the last ones the server sent (`QueueOK`), and a worker that
  ended without an exception has seen `[DONE]` or a cancel. A cancelled attempt may
  look like a whole one; that its row is not saved as completed rests on `CancelOK`
  (nobody sets the flag unasked, and not before the deadline while the generator
  waits) and on the order in `finish_generation`.
- `Inv` of `Listings` says of a walk that its cursor stands at the last row it was
  shown (`NextIsLast`), and that a row which stayed since the first page is shown or
  behind the cursor (`StillToCome`); rows never move, since neither `created_at` nor
  the parent of a row that was there changes (`RowsKept`). A row that becomes visible
  before the cursor is none of the steady ones.

## 6. Where code and documents disagree

Each of these statements of the repository is a definition in its module, most of
them under "What the documents say", and TLC refutes it with the instance of the
run that is named, when it takes the place of that run's properties (with the
view left out, where there is one, and the change of a constant in brackets). The
listed runs do not contain them: they say what does hold instead.

Generations and streams (`chat/`):

- `TerminalIsFinal` (`slot`; `repository.py:738`, `src/api/service-api-v1.md:257`):
  a settled `cancelled` can become `failed`, by the update of a request that had
  read the row while it was unresolved. `TerminalStays` holds.
- `SlotAlwaysFreed` (`slot_freed`; comment at `service.py:280-284`): the safety net of
  the generator does not cover a stream that is lost outside it: the route fails
  between the commit and the response (`main.py:1374`), or the response closes a
  generator that was never started (`sse_stream.py:102`). The heartbeat then keeps the
  slot taken as long as the process lives; a cancel by the user and 300 s free it.
  `SlotFreed` names this row as `Stranded`.
- `EndAlwaysRecorded` (`answer`; the same comment): the safety net writes to the same
  database. When that fails too, or when it fails the one write after a disconnect, the
  row stays active, with the same effect.
- `ReconcilingIsOver` (`slot`; comment at `repository.py:35`): `reconciling` does
  not imply that the generator left.
- `ClientSeesRow` (`slot`; `service.py:374` and `478`): a client may be told
  `failed` of a `reconciling` row.
- `JudgedByDatabaseClock` (`takeover` [`ClockSkew = 1`]; `repository.py:49` and
  `733`): the 300 s rule is judged by the clock of the process.
- `InputBeforeStream` (`slot`; `repository.py:795`, `service-api-v1.md:249`): after
  a cancel during retrieval the stream runs without a stored input, and cannot be
  retried.
- `OnlyFailuresRetried` (`slot`; `repository.py:1102`, `service-api-v1.md:261`):
  completed answers can be retried too.
- `FinishFindsRow` (`material_search`; `repository.py:820` and `846`): a row that
  was given up no longer keeps its persona from being deleted while the generator
  runs; the re-read then finds no row.
- `DeadlineFinds` (`answer`; `service.py:405`, `vllm_client.py:151`): a request is
  registered in the worker thread, so that a deadline that passes earlier cancels
  nothing.
- `LeaseHeld` (`lease`; `config.py:80-82` and `143`): the comment counts one interval,
  the failed one and one timeout (10 + 10 + 2 < 30). A beat waits for its connection
  and for its UPDATE, the lease counts from the `now()` of the last good one, and so
  the worst case is `Gap`, two intervals and five timeouts: 30 s, which the default
  lease covers exactly (`BeatenHeld` holds). A row that was just accepted is not seen
  by the beat that is under way and has the time of its transaction on top; its living
  owner loses it at the defaults. With the shortest lease that
  `generation_lease_is_safe` accepts, 22 s, older rows are lost too.
- `CancelHeardWithinBeat` (`lease`; `lease.py:10`): a cancel from another instance
  may take longer than the interval.

Material (`repository.py`, `indexing/`, `main.py`):

- `ChunksAreOfLabel` (`material`; `indexing/runner.py:47` and `137`): chunks and
  indexed revision are not always a pair; after an edit the chunks may be newer
  than the label. `LabelIsCurrent` holds: a label of the *current* revision is true.
- `FoundIsOfLabel` (`material_search`; `main.py:1127`): the debug route may return
  chunks of another revision than it names.
- `OutcomeRecorded` (`material`, `material_search`; `indexing/runner.py:3` and `51`):
  recording a failure can fail, and the version stays in `processing` until a process
  starts. `IndexingEnds` names this version as `Forsaken`.
- `KeptByNobody` (`material`, `material_search`; `indexing/runner.py:5`,
  `repository.py:1519`): when the unlock fails and the session lives (a timeout), the
  connection goes back to the pool with the lock. Until the pool closes it the persona
  is busy for every other connection.
- `ActivationReplays` (`material`; `repository.py:1451`, `service-api-v1.md:127`):
  a second activation with the same key is refused.
- `HeldWhileIndexed` (`material`; `repository.py:1399`, `service-api-v1.md:100`): a
  draft can be edited and, after a restart of any process, discarded while it is
  indexed.
- `PathDescends` (`chunks`; `indexing/chunker.py:103`): a heading below a deeper
  one is put under it: after `### X`, `## Y` has the path X > Y.
- `ProfileWhole` (`prompt`; `chat/service.py:73`, `repository.py:42`): in llm mode a
  profile of more than about 1,000 characters does not reach the prompt whole.
- `SettingsFit` (`prompt`; `retrieval/prompt.py:78`): the block limits are no limits for
  the instruction with the name; a name has no maximal length (`main.py:781`), so that
  a long one alone exceeds the block.

Requests of an owner:

- `ReplayAnswered` (`personas`; `chat/repository.py:350`,
  `service-api-v1.md:118`): the second of two equal conversation requests may end
  in a unique violation. `RequestsAtOnce` holds.
- `DraftReplayed` (`personas`; `repository.py:958` and `995`): the replay of a
  creation whose draft was discarded ends in 404.
- `NoDeadlock` (`personas`; `repository.py:1220`): the order of locks is broken by
  the row lock that a foreign key takes. `DeadlockIsOfDeletion` says where.
- `AppliedNameListed` (`personas`; `repository.py:1451`, `service-api-v1.md:63` and
  `148`): a name that is applied is neither listed nor checked for duplicates.
- `CursorMatchesParent` (`listings`; `cursor.py:86`, `service-api-v1.md:39`): the
  cursor of one list is accepted for another of the same owner.

## 7. What is not covered

Only model-checked: the liveness properties `SlotFreed`, `CancelReaches`,
`IndexingEnds` and `AnswerEnds`, because liveness under fairness is out of reach
of the prover; and `NothingLost` and `ChunkSizes` of `Chunker`, which are about folds
over the pieces of a section: what these compute for sections of any length needs
induction over data, which the prover cannot do either.

Not modelled:

- ranking (one SQL expression over vectors), the embedding service, which has no
  state the Gateway depends on, and the mock upstream, which cannot fail;
- registration beyond its unique name, password hashing, static tokens;
- validation of bodies and settings that looks at one value at a time, the mapping
  of errors to responses, single reads (`get_draft` reads a version and its
  sources in two statements; the next edit is judged by its revision);
- an upstream that never stops sending: the deadline is looked at only when no piece is
  waiting, and `MaxLines` bounds the lines of the model's server; `AnswerEnds` is about
  silence. In `AnswerStream` a generator that is closed before its first `next` ends
  without a record and `EndRecorded` does not speak of it (its client saw nothing); what
  becomes of its row is in `GenerationLifecycle`;
- the order of a conversation's history by `created_at` when transactions waited
  for each other: generations are numbered in commit order;
- statements for a schema without lease columns, the migrations, metrics and build
  information, the evaluation and smoke scripts.

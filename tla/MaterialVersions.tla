-------------------------- MODULE MaterialVersions --------------------------
(***************************************************************************)
(* The material of personas: the draft that is edited, the indexing runs   *)
(* that cut and embed it, the version that is applied, and the searches    *)
(* that read it (repository.py, indexing/runner.py, indexing/store.py,     *)
(* retrieval/search.py, and the lifespan of main.py).                      *)
(*                                                                         *)
(* A request is one transaction under the lock of the persona's row, so it *)
(* is one action.  An indexing run is the background task of one request   *)
(* and takes several: it reads the sources, calls the embedding service,   *)
(* and writes the chunks, each in a transaction of its own.                *)
(*                                                                         *)
(* Simplifications.                                                        *)
(*  - Only sources of the kinds that are indexed appear.  A source is its  *)
(*    row id, its text and the revision that wrote it (history); its       *)
(*    chunks are the source itself.  Settings are data of an edit.         *)
(*  - The limits of _guard_draft_limits count every text as one.           *)
(*  - An edit changes or adds at most one source and removes any.          *)
(*  - Idempotency records are the subject of PersonaRequests: here every   *)
(*    request is a new one.  Requests that are refused change nothing.     *)
(***************************************************************************)
EXTENDS Integers, FiniteSets

CONSTANTS
  Persona,
  Process,       \* Gateway processes; they crash and are started again
  Run,           \* background tasks that may run at the same time
  Reader,        \* searches: of an answer, or of the debug route
  Text,          \* texts of sources
  Barren,        \* the text that yields no chunk (headings alone)
  MaxVersion,    \* bound: material versions ever created
  MaxRevision,   \* bound: revisions of one version
  MaxSources,    \* the limits on a draft's size
  PoolSize,      \* max_size of the connection pool of a process
  DbFails,       \* may statements fail and sessions be cut?
  Nothing        \* no version, no run, no material

Version == 1 .. MaxVersion
Revision == 1 .. MaxRevision

ASSUME MaterialAssumption ==
  /\ MaxVersion \in Nat /\ MaxRevision \in Nat \ {0}
  /\ MaxSources \in Nat /\ PoolSize \in Nat \ {0}
  /\ DbFails \in BOOLEAN
  /\ Nothing \notin Nat /\ Nothing \notin Persona
  /\ Nothing \notin Run /\ Nothing \notin Process

\* The row of a source keeps its id; a new version's copies get new rows, that
\* is, their id together with the version.
SourceId == Version \X Revision
Source == [id : SourceId, text : Text, at : Revision]
Piece == [id : SourceId, text : Text]

RowStatuses == {"editing", "processing", "ready", "failed"}
Writing == {"queued", "loaded", "embedded"}    \* a run that may still commit

VARIABLES
  live,        \* personas.deleted_at IS NULL
  draft,       \* personas.draft_version_id
  active,      \* personas.active_version_id
  of,          \* material_versions.persona_id
  status,      \* material_versions.status, "unborn" before, "gone" after
  rev,         \* material_versions.revision
  indexed,     \* material_versions.indexed_revision, 0 for NULL
  sources,     \* rows of material_sources
  chunks,      \* rows of material_chunks
  up,          \* [Process -> is it running?]
  locked,      \* the run that holds the advisory lock of the persona
  kept,        \* the process whose pool has a session that never gave it back
  run,         \* [Run -> one background task]
  reader       \* [Reader -> one search]

personaVars == <<live, draft, active>>
versionVars == <<of, status, rev, indexed, sources, chunks>>
vars == <<live, draft, active, of, status, rev, indexed, sources, chunks,
          up, locked, kept, run, reader>>

RunRow ==
  [pc : Writing \cup {"idle", "failing", "ending"},
   on : Process \cup {Nothing}, persona : Persona \cup {Nothing},
   version : Version \cup {Nothing}, revision : 0 .. MaxRevision,
   loaded : SUBSET Source, session : BOOLEAN]

ReaderRow ==
  [pc : {"idle", "accepted", "loaded", "body", "found", "failed"},
   persona : Persona \cup {Nothing},
   version : Version \cup {Nothing}, label : 0 .. MaxRevision,
   body : SUBSET Source, speech : SUBSET Source, asked : SUBSET Source,
   row : {"none", "active", "over", "gone"}]

IdleRun ==
  [pc |-> "idle", on |-> Nothing, persona |-> Nothing, version |-> Nothing,
   revision |-> 0, loaded |-> {}, session |-> FALSE]

IdleReader ==
  [pc |-> "idle", persona |-> Nothing, version |-> Nothing,
   label |-> 0, body |-> {}, speech |-> {}, asked |-> {}, row |-> "none"]

-----------------------------------------------------------------------------
(* Reading the rows.                                                       *)

Exists(v) == v \in Version /\ status[v] \in RowStatuses
HasDraft(p) == live[p] /\ draft[p] # Nothing
Material(S) == {[id |-> s.id, text |-> s.text] : s \in S}
IdsOf(S) == {s.id : s \in S}
RunsOf(i) == {r \in Run : run[r].on = i}

\* material_chunks.source_id references material_sources: every chunk that is
\* written needs its source's row.
ForeignKeysHold(v, S) == Exists(v) /\ IdsOf(S) \subseteq IdsOf(sources[v])

Init ==
  /\ live = [p \in Persona |-> TRUE]
  /\ draft = [p \in Persona |-> Nothing]
  /\ active = [p \in Persona |-> Nothing]
  /\ of = [v \in Version |-> Nothing]
  /\ status = [v \in Version |-> "unborn"]
  /\ rev = [v \in Version |-> 0]
  /\ indexed = [v \in Version |-> 0]
  /\ sources = [v \in Version |-> {}]
  /\ chunks = [v \in Version |-> {}]
  /\ up = [i \in Process |-> FALSE]
  /\ locked = [p \in Persona |-> Nothing]
  /\ kept = [p \in Persona |-> Nothing]
  /\ run = [r \in Run |-> IdleRun]
  /\ reader = [a \in Reader |-> IdleReader]

-----------------------------------------------------------------------------
(* The requests of the owner.                                              *)

\* A copy of the applied version, or an empty draft.  Chunks are not copied.
CopyOf(v) == {[s EXCEPT !.at = 1] : s \in sources[v]}

CreateDraft(p) ==
  /\ live[p] /\ draft[p] = Nothing
  /\ \E v \in Version, base \in {Nothing, active[p]} :
       /\ status[v] = "unborn" /\ \A w \in 1 .. v - 1 : status[w] # "unborn"
       /\ draft' = [draft EXCEPT ![p] = v]
       /\ of' = [of EXCEPT ![v] = p]
       /\ status' = [status EXCEPT ![v] = "editing"]
       /\ rev' = [rev EXCEPT ![v] = 1]
       /\ sources' = [sources EXCEPT ![v] = IF base = Nothing THEN {} ELSE CopyOf(base)]
  /\ UNCHANGED <<live, active, indexed, chunks, up, locked, kept, run, reader>>

\* One edit: the sources removed, and the one changed or added, if any.
Upserts(v) ==
  {{}} \cup {{[id |-> i, text |-> t, at |-> rev[v] + 1]} :
               i \in IdsOf(sources[v]) \cup {<<v, rev[v] + 1>>}, t \in Text}

PatchDraft(p) ==
  LET v == draft[p] IN
  /\ HasDraft(p) /\ rev[v] < MaxRevision
  /\ \E removed \in SUBSET IdsOf(sources[v]), new \in Upserts(v) :
       /\ removed \cap IdsOf(new) = {}
       /\ sources' = [sources EXCEPT ![v] =
            {s \in @ : s.id \notin removed \cup IdsOf(new)} \cup new]
       /\ Cardinality(sources'[v]) <= MaxSources
       /\ chunks' = [chunks EXCEPT ![v] = {s \in @ : s.id \notin removed}]
  /\ rev' = [rev EXCEPT ![v] = @ + 1]
  /\ status' = [status EXCEPT ![v] = "editing"]
  /\ UNCHANGED <<personaVars, of, indexed, up, locked, kept, run, reader>>

DiscardDraft(p) ==
  LET v == draft[p] IN
  /\ HasDraft(p)
  /\ draft' = [draft EXCEPT ![p] = Nothing]
  /\ status' = [status EXCEPT ![v] = "gone"]
  /\ sources' = [sources EXCEPT ![v] = {}]
  /\ chunks' = [chunks EXCEPT ![v] = {}]
  /\ UNCHANGED <<live, active, of, rev, indexed, up, locked, kept, run, reader>>

\* What a request to activate revision r is answered.
Activation(p, r) ==
  LET v == draft[p] IN
  CASE ~live[p] -> "persona_not_found"
    [] live[p] /\ v = Nothing /\ active[p] = Nothing -> "draft_not_found"
    [] live[p] /\ v = Nothing /\ active[p] # Nothing -> "draft_not_started"
    [] HasDraft(p) /\ rev[v] # r -> "revision_mismatch"
    [] HasDraft(p) /\ rev[v] = r /\ ~(status[v] = "ready" /\ indexed[v] = r) ->
         "not_activatable"
    [] OTHER -> "activated"

ActivateDraft(p, r) ==
  /\ Activation(p, r) = "activated"
  /\ active' = [active EXCEPT ![p] = draft[p]]
  /\ draft' = [draft EXCEPT ![p] = Nothing]
  /\ UNCHANGED <<live, versionVars, up, locked, kept, run, reader>>

\* Mutant: the advisory lock is not looked at.
BusyByStatus(p) ==
  \/ \E v \in Version : of[v] = p /\ status[v] = "processing"
  \/ \E a \in Reader : reader[a].persona = p /\ reader[a].row = "active"

\* _reject_if_busy: an indexing run, a version in processing, an answer.  A lock
\* that a session kept need not be seen: the session may be the one that asks.
Busy(p) ==
  \/ locked[p] # Nothing
  \/ \E v \in Version : of[v] = p /\ status[v] = "processing"
  \/ \E a \in Reader : reader[a].persona = p /\ reader[a].row = "active"

\* The rows of finished answers go with the persona, also if the generator
\* that worked for such a row has not noticed.
DeletePersona(p) ==
  LET mine == {v \in Version : of[v] = p} IN
  /\ live[p] /\ ~Busy(p)
  /\ live' = [live EXCEPT ![p] = FALSE]
  /\ draft' = [draft EXCEPT ![p] = Nothing]
  /\ active' = [active EXCEPT ![p] = Nothing]
  /\ status' = [v \in Version |-> IF v \in mine THEN "gone" ELSE status[v]]
  /\ sources' = [v \in Version |-> IF v \in mine THEN {} ELSE sources[v]]
  /\ chunks' = [v \in Version |-> IF v \in mine THEN {} ELSE chunks[v]]
  /\ reader' = [a \in Reader |->
       IF reader[a].persona = p /\ reader[a].row # "none"
       THEN [reader[a] EXCEPT !.row = "gone"] ELSE reader[a]]
  /\ UNCHANGED <<of, rev, indexed, up, locked, kept, run>>

-----------------------------------------------------------------------------
(* Indexing.                                                               *)

\* Mutant: only the status keeps a second run out.
StartIndexingByStatus(i, p, r) ==
  LET v == draft[p] IN
  /\ up[i] /\ run[r].pc = "idle" /\ Cardinality(RunsOf(i)) < PoolSize
  /\ HasDraft(p)
  /\ status[v] # "processing"
  /\ sources[v] # {}
  /\ status' = [status EXCEPT ![v] = "processing"]
  /\ locked' = [locked EXCEPT ![p] = r]
  /\ run' = [run EXCEPT ![r] =
       [pc |-> "queued", on |-> i, persona |-> p, version |-> v,
        revision |-> rev[v], loaded |-> {}, session |-> TRUE]]
  /\ UNCHANGED <<personaVars, of, rev, indexed, sources, chunks, up, kept, reader>>

\* A connection of i can be had whose session gets the persona's lock: it is free,
\* or this session is the one that kept it (a session may lock twice).
LockFor(i, p) ==
  /\ up[i] /\ Cardinality(RunsOf(i)) < PoolSize
  /\ locked[p] = Nothing /\ kept[p] \in {Nothing, i}

\* start_indexing on process i; its connection, and with it the session that
\* holds the advisory lock, is handed to the background task r.
StartIndexing(i, p, r) ==
  LET v == draft[p] IN
  /\ run[r].pc = "idle" /\ HasDraft(p) /\ LockFor(i, p)
  /\ status[v] # "processing"
  /\ sources[v] # {}
  /\ status' = [status EXCEPT ![v] = "processing"]
  /\ locked' = [locked EXCEPT ![p] = r]
  /\ run' = [run EXCEPT ![r] =
       [pc |-> "queued", on |-> i, persona |-> p, version |-> v,
        revision |-> rev[v], loaded |-> {}, session |-> TRUE]]
  /\ UNCHANGED <<personaVars, of, rev, indexed, sources, chunks, up, kept, reader>>

\* It fails after it took the lock, and so does pg_advisory_unlock_all: the
\* connection goes back to the pool and its session keeps the lock.
StartIndexingFails(i, p) ==
  /\ DbFails /\ HasDraft(p) /\ LockFor(i, p)
  /\ kept' = [kept EXCEPT ![p] = i]
  /\ UNCHANGED <<personaVars, versionVars, up, locked, run, reader>>

Goto(r, pc) == run' = [run EXCEPT ![r].pc = pc]

\* The sources as they are now: the draft may have been edited since.
LoadSources(r) ==
  LET now == sources[run[r].version] IN
  /\ run[r].pc = "queued" /\ run[r].session
  /\ run' = [run EXCEPT
       ![r].pc = IF now = {} \/ \E s \in now : s.text = Barren
                 THEN "failing" ELSE "loaded",
       ![r].loaded = now]
  /\ UNCHANGED <<personaVars, versionVars, up, locked, kept, reader>>

Embed(r) ==
  /\ run[r].pc = "loaded"
  /\ Goto(r, "embedded") \/ Goto(r, "failing")
  /\ UNCHANGED <<personaVars, versionVars, up, locked, kept, reader>>

\* Mutant: the status is claimed for whatever revision the draft is at.
CommitAnyRevision(r) ==
  LET v == run[r].version IN
  /\ run[r].pc = "embedded" /\ run[r].session
  /\ ForeignKeysHold(v, run[r].loaded)
  /\ chunks' = [chunks EXCEPT ![v] = run[r].loaded]
  /\ indexed' = [indexed EXCEPT ![v] = rev[v]]
  /\ status' = [status EXCEPT ![v] = "ready"]
  /\ Goto(r, "ending")
  /\ UNCHANGED <<personaVars, of, rev, sources, up, locked, kept, reader>>

\* Mutant: old chunks are kept beside the new ones.
CommitAdds(r) ==
  LET v == run[r].version IN
  /\ run[r].pc = "embedded" /\ run[r].session
  /\ ForeignKeysHold(v, run[r].loaded)
  /\ chunks' = [chunks EXCEPT ![v] = @ \cup run[r].loaded]
  /\ indexed' = [indexed EXCEPT ![v] = run[r].revision]
  /\ status' = [status EXCEPT ![v] = IF rev[v] = run[r].revision THEN "ready" ELSE @]
  /\ Goto(r, "ending")
  /\ UNCHANGED <<personaVars, of, rev, sources, up, locked, kept, reader>>

\* replace_chunks and _mark_ready_in, in one transaction.
Commit(r) ==
  LET v == run[r].version IN
  /\ run[r].pc = "embedded" /\ run[r].session
  /\ ForeignKeysHold(v, run[r].loaded)
  /\ chunks' = [chunks EXCEPT ![v] = run[r].loaded]
  /\ indexed' = [indexed EXCEPT ![v] = run[r].revision]
  /\ status' = [status EXCEPT ![v] = IF rev[v] = run[r].revision THEN "ready" ELSE @]
  /\ Goto(r, "ending")
  /\ UNCHANGED <<personaVars, of, rev, sources, up, locked, kept, reader>>

\* A source was removed after it was read, the session is gone, or the
\* database refuses: what was written is rolled back.
StatementFails(r) ==
  /\ \/ run[r].pc = "embedded" /\ ~ForeignKeysHold(run[r].version, run[r].loaded)
     \/ run[r].pc \in {"queued", "embedded"} /\ ~run[r].session
     \/ run[r].pc \in {"queued", "embedded"} /\ DbFails
  /\ Goto(r, "failing")
  /\ UNCHANGED <<personaVars, versionVars, up, locked, kept, reader>>

MarkFailed(r) ==
  LET v == run[r].version IN
  /\ run[r].pc = "failing" /\ run[r].session
  /\ status' = IF Exists(v) /\ rev[v] = run[r].revision
               THEN [status EXCEPT ![v] = "failed"] ELSE status
  /\ Goto(r, "ending")
  /\ UNCHANGED <<personaVars, of, rev, indexed, sources, chunks, up, locked, kept, reader>>

\* Recording the failure fails as well, and run_indexing raises.
MarkFailedFails(r) ==
  /\ run[r].pc = "failing" /\ (DbFails \/ ~run[r].session)
  /\ Goto(r, "ending")
  /\ UNCHANGED <<personaVars, versionVars, up, locked, kept, reader>>

Unlocked(R) == [p \in Persona |-> IF locked[p] \in R THEN Nothing ELSE locked[p]]

\* finally: unlock and give the connection back.  The connection goes back also
\* if the unlock fails; a session that lives keeps the lock then.
EndRun(r) ==
  /\ run[r].pc = "ending"
  /\ \/ UNCHANGED kept
     \/ /\ DbFails /\ run[r].session
        /\ kept' = [kept EXCEPT ![run[r].persona] = run[r].on]
  /\ locked' = Unlocked({r})
  /\ run' = [run EXCEPT ![r] = IdleRun]
  /\ UNCHANGED <<personaVars, versionVars, up, reader>>

\* The connection is cut; the server ends its session and frees its lock, also
\* what the session had kept of it before.
LoseSession(r) ==
  /\ DbFails /\ run[r].session
  /\ run' = [run EXCEPT ![r].session = FALSE]
  /\ locked' = Unlocked({r})
  /\ kept' = [kept EXCEPT ![run[r].persona] = Nothing]
  /\ UNCHANGED <<personaVars, versionVars, up, reader>>

\* The pool closes the session that kept a lock, or start_indexing is refused on
\* it and unlocks all that it holds.
FreeKept(p) ==
  /\ kept[p] # Nothing /\ locked[p] = Nothing
  /\ kept' = [kept EXCEPT ![p] = Nothing]
  /\ UNCHANGED <<personaVars, versionVars, up, locked, run, reader>>

Crash(i) ==
  /\ up[i]
  /\ up' = [up EXCEPT ![i] = FALSE]
  /\ run' = [r \in Run |-> IF r \in RunsOf(i) THEN IdleRun ELSE run[r]]
  /\ locked' = Unlocked(RunsOf(i))
  /\ kept' = [p \in Persona |-> IF kept[p] = i THEN Nothing ELSE kept[p]]
  /\ UNCHANGED <<personaVars, versionVars, reader>>

\* Mutant: no cleanup when a process starts.
StartWithoutCleanup(i) ==
  /\ ~up[i]
  /\ up' = [up EXCEPT ![i] = TRUE]
  /\ UNCHANGED <<personaVars, versionVars, locked, kept, run, reader>>

\* The lifespan fails every version in processing, whoever works on it.
Start(i) ==
  /\ ~up[i]
  /\ up' = [up EXCEPT ![i] = TRUE]
  /\ status' = [v \in Version |->
       IF status[v] = "processing" THEN "failed" ELSE status[v]]
  /\ UNCHANGED <<personaVars, of, rev, indexed, sources, chunks, locked, kept, run, reader>>

-----------------------------------------------------------------------------
(* Searching.                                                              *)

\* The draft of p and what answers of p are drawn from, if it has them.
Written(p) == {Material(sources[v]) : v \in {draft[p]} \ {Nothing}}
Served(p) == {Material(chunks[v]) : v \in {active[p]} \ {Nothing}}

\* A question is accepted and answered from the version that is applied now.
AcceptQuestion(a, p) ==
  /\ reader[a].pc = "idle" /\ live[p] /\ active[p] # Nothing
  /\ reader' = [reader EXCEPT ![a] =
       [IdleReader EXCEPT !.pc = "accepted", !.persona = p,
                          !.version = active[p], !.asked = sources[active[p]],
                          !.row = "active"]]
  /\ UNCHANGED <<personaVars, versionVars, up, locked, kept, run>>

\* Mutant: the version is chosen again when the search begins.
LoadIndexedRevisionNow(a) ==
  LET v == active[reader[a].persona] IN
  /\ reader[a].pc = "accepted"
  /\ reader' = [reader EXCEPT ![a].pc = IF v = Nothing THEN "failed" ELSE "loaded",
                              ![a].version = v]
  /\ UNCHANGED <<personaVars, versionVars, up, locked, kept, run>>

LoadIndexedRevision(a) ==
  LET v == reader[a].version IN
  /\ reader[a].pc = "accepted"
  /\ reader' = [reader EXCEPT
       ![a].pc = IF live[reader[a].persona] /\ Exists(v) /\ indexed[v] # 0
                 THEN "loaded" ELSE "failed",
       ![a].label = indexed[v]]
  /\ UNCHANGED <<personaVars, versionVars, up, locked, kept, run>>

\* The debug route: the applied version or else the draft.
LoadIndexedVersion(a, p) ==
  LET v == IF active[p] # Nothing THEN active[p] ELSE draft[p] IN
  /\ reader[a].pc = "idle" /\ live[p] /\ Exists(v) /\ indexed[v] # 0
  /\ reader' = [reader EXCEPT ![a] =
       [IdleReader EXCEPT !.pc = "loaded", !.persona = p, !.version = v,
                          !.label = indexed[v]]]
  /\ UNCHANGED <<personaVars, versionVars, up, locked, kept, run>>

\* Two statements, each with a snapshot of its own: body, then speech.
SearchBody(a) ==
  /\ reader[a].pc = "loaded"
  /\ reader' = [reader EXCEPT ![a].pc = "body", ![a].body = chunks[reader[a].version]]
  /\ UNCHANGED <<personaVars, versionVars, up, locked, kept, run>>

SearchSpeech(a) ==
  /\ reader[a].pc = "body"
  /\ reader' = [reader EXCEPT ![a].pc = "found", ![a].speech = chunks[reader[a].version]]
  /\ UNCHANGED <<personaVars, versionVars, up, locked, kept, run>>

\* The row of the answer is closed by a later request while its generator is
\* still at work (see GenerationLifecycle).
GiveUp(a) ==
  /\ reader[a].row = "active"
  /\ reader' = [reader EXCEPT ![a].row = "over"]
  /\ UNCHANGED <<personaVars, versionVars, up, locked, kept, run>>

FinishSearch(a) ==
  /\ reader[a].pc \in {"found", "failed"}
  /\ reader' = [reader EXCEPT ![a] = IdleReader]
  /\ UNCHANGED <<personaVars, versionVars, up, locked, kept, run>>

-----------------------------------------------------------------------------
RunStep(r) ==
  \/ LoadSources(r) \/ Embed(r) \/ Commit(r) \/ StatementFails(r)
  \/ MarkFailed(r) \/ MarkFailedFails(r) \/ EndRun(r)

Request(p) ==
  \/ CreateDraft(p) \/ PatchDraft(p) \/ DiscardDraft(p) \/ DeletePersona(p)
  \/ \E r \in Revision : ActivateDraft(p, r)
  \/ \E i \in Process : StartIndexingFails(i, p) \/ \E r \in Run : StartIndexing(i, p, r)

Search(a) ==
  \/ \E p \in Persona : AcceptQuestion(a, p) \/ LoadIndexedVersion(a, p)
  \/ LoadIndexedRevision(a) \/ SearchBody(a) \/ SearchSpeech(a)
  \/ GiveUp(a) \/ FinishSearch(a)

Next ==
  \/ \E p \in Persona : Request(p) \/ FreeKept(p)
  \/ \E r \in Run : RunStep(r) \/ LoseSession(r)
  \/ \E i \in Process : Crash(i) \/ Start(i)
  \/ \E a \in Reader : Search(a)

Spec == Init /\ [][Next]_vars

\* A background task goes on as long as its process lives: the embedding call
\* and every statement have a timeout.  The orchestrator restarts a process.
Fairness ==
  /\ \A r \in Run : WF_vars(RunStep(r))
  /\ \A i \in Process : WF_vars(Start(i))

LiveSpec == Spec /\ Fairness

-----------------------------------------------------------------------------
(* Properties.                                                             *)

TypeOK ==
  /\ live \in [Persona -> BOOLEAN]
  /\ draft \in [Persona -> Version \cup {Nothing}]
  /\ active \in [Persona -> Version \cup {Nothing}]
  /\ of \in [Version -> Persona \cup {Nothing}]
  /\ status \in [Version -> RowStatuses \cup {"unborn", "gone"}]
  /\ rev \in [Version -> 0 .. MaxRevision]
  /\ indexed \in [Version -> 0 .. MaxRevision]
  /\ sources \in [Version -> SUBSET Source]
  /\ chunks \in [Version -> SUBSET Source]
  /\ up \in [Process -> BOOLEAN]
  /\ locked \in [Persona -> Run \cup {Nothing}]
  /\ kept \in [Persona -> Process \cup {Nothing}]
  /\ run \in [Run -> RunRow]
  /\ reader \in [Reader -> ReaderRow]

\* The searched chunks of an applied version are those of all its sources,
\* and of their last edit: nothing that was removed comes back, nothing is
\* missing (activate_draft, patch_draft and run_indexing in any order).
AppliedIsIndexed ==
  \A p \in Persona : active[p] # Nothing =>
    /\ chunks[active[p]] = sources[active[p]]
    /\ sources[active[p]] # {}

\* A version whose label is its own revision is indexed as it stands, although
\* sources are read later than the revision is taken and edits go on.
LabelIsCurrent ==
  \A v \in Version : Exists(v) /\ indexed[v] = rev[v] => chunks[v] = sources[v]

\* An answer is drawn from one material, the one applied when the question was
\* accepted, whatever is applied or indexed while it searches; unless its row
\* was given up first.
AnswerFromOneMaterial ==
  \A a \in Reader : reader[a].pc = "found" /\ reader[a].row = "active" =>
    reader[a].body = reader[a].asked /\ reader[a].speech = reader[a].asked

\* A run that can still write belongs to a persona that is still there: the
\* deletion never overtakes it.
NoRunOfDeleted ==
  \A r \in Run : run[r].pc \in Writing /\ run[r].session => live[run[r].persona]

\* A version never changes once it is applied, not even when another one is
\* applied later; it only goes with its persona.
FrozenOnceApplied ==
  [][\A v \in Version :
       Exists(v) /\ draft[of[v]] # v /\ live'[of[v]] =>
         /\ chunks'[v] = chunks[v] /\ sources'[v] = sources[v]
         /\ status'[v] = status[v] /\ indexed'[v] = indexed[v]]_vars

\* The draft and what is served behave as the owner is promised.
Promise == INSTANCE AppliedMaterial WITH
  written <- [p \in Persona |-> Written(p)],
  served <- [p \in Persona |-> Served(p)]

PromiseKept == Promise!Spec

\* Nobody will say what became of the version: its run is over and could not
\* record its end (runner.py:51), and no process is about to start.
Forsaken(v) ==
  /\ status[v] = "processing"
  /\ \A r \in Run : run[r].version # v
  /\ \A i \in Process : up[i]

\* Whatever statement fails, session is lost or process dies, a run ends and gives
\* its connection back, so that the pool is whole again.  A version leaves
\* processing when its run ends, unless the failure of the run could not be
\* recorded either; the next process that starts clears that too, and what the
\* dead have left.  (The lock may stay with the session: KeptByNobody.)
IndexingEnds ==
  /\ \A r \in Run : run[r].pc # "idle" ~> run[r].pc = "idle"
  /\ \A v \in Version : status[v] = "processing" ~>
       (status[v] # "processing" \/ Forsaken(v))
  /\ \A v \in Version, i \in Process :
       status[v] = "processing" /\ ~up[i] ~> status[v] # "processing"

-----------------------------------------------------------------------------
(* What the documents say and the code does not keep.                      *)

\* runner.py: chunks and indexed_revision are always a pair.
ChunksAreOfLabel ==
  \A v \in Version : Exists(v) => \A s \in chunks[v] : s.at <= indexed[v]

\* main.py: the chunks the debug route returns are of the revision it names.
FoundIsOfLabel ==
  \A a \in Reader : reader[a].pc = "found" /\ reader[a].row = "none" =>
    \A s \in reader[a].body \cup reader[a].speech : s.at <= reader[a].label

\* runner.py, repository.py: whatever happens, the advisory lock is freed.
KeptByNobody == \A p \in Persona : kept[p] = Nothing

\* runner.py: whatever happens, the outcome is recorded in the version.
OutcomeRecorded ==
  \A r \in Run :
    LET v == run[r].version IN
    run[r].pc = "ending" /\ Exists(v) /\ rev[v] = run[r].revision
      /\ (\A q \in Run \ {r} : run[q].version # v)
    => status[v] # "processing"

\* chat/repository.py: finish_generation can always re-read the stored row.
FinishFindsRow ==
  \A a \in Reader : reader[a].pc \in {"found", "failed"} => reader[a].row # "gone"

\* service-api-v1.md: an activation that is sent again gets the same success.
ActivationReplays ==
  [][\A p \in Persona, r \in Revision :
       ActivateDraft(p, r) => Activation(p, r)' = "activated"]_vars

\* service-api-v1.md: no edit while the draft is indexed, and no discarding.
HeldWhileIndexed ==
  [][\A r \in Run : run[r].pc # "idle" /\ run'[r].pc = run[r].pc =>
       \A v \in {run[r].version} :
         Exists(v) => Exists(v)' /\ rev'[v] = rev[v]]_vars

=============================================================================

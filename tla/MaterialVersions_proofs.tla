---------------------- MODULE MaterialVersions_proofs ----------------------
(***************************************************************************)
(* Proofs about MaterialVersions.  What makes a version safe to apply is a *)
(* relation between the rows and the runs that are still at work: a run    *)
(* that can write holds the lock of its persona, works for the draft, and  *)
(* carries that draft's sources unless the draft has a newer revision; and *)
(* as long as it can write, the draft is not ready.                        *)
(***************************************************************************)
EXTENDS MaterialVersions, TLAPS

InTime == Writing \cup {"failing"}      \* before the outcome is recorded

\* Rows as the tables' keys allow them.
RowsOk ==
  \A v \in Version :
    /\ status[v] = "unborn" => indexed[v] = 0
    /\ ~Exists(v) => sources[v] = {} /\ chunks[v] = {}
    /\ Exists(v) => of[v] \in Persona /\ live[of[v]] /\ 1 <= rev[v] /\ indexed[v] <= rev[v]

\* The pointers of a persona.
PointersOk ==
  \A p \in Persona :
    /\ draft[p] # Nothing => Exists(draft[p]) /\ of[draft[p]] = p
    /\ active[p] # Nothing => Exists(active[p]) /\ of[active[p]] = p
    /\ active[p] # Nothing => draft[p] # active[p]

\* What the statuses mean.
ReadyOk ==
  \A v \in Version : Exists(v) =>
    /\ status[v] = "ready" => indexed[v] = rev[v] /\ sources[v] # {}
    /\ draft[of[v]] # v => status[v] = "ready"

RunsOk ==
  \A r \in Run :
    /\ run[r].pc = "idle" => run[r] = IdleRun
    /\ run[r].pc # "idle" =>
         /\ run[r].version \in Version /\ run[r].persona \in Persona
         /\ of[run[r].version] = run[r].persona
         /\ status[run[r].version] # "unborn"
         /\ 1 <= run[r].revision /\ run[r].revision <= rev[run[r].version]
    /\ run[r].session => run[r].pc # "idle" /\ locked[run[r].persona] = r

LocksOk ==
  \A p \in Persona : locked[p] # Nothing =>
    run[locked[p]].session /\ run[locked[p]].persona = p

\* The work of a run that can still write.
WorkOk ==
  \A r \in Run :
    LET v == run[r].version IN
    /\ run[r].pc \in InTime /\ run[r].session =>
         /\ live[run[r].persona]
         /\ Exists(v) => draft[run[r].persona] = v /\ status[v] # "ready"
    /\ run[r].pc \in {"loaded", "embedded"} =>
         /\ run[r].loaded # {}
         /\ run[r].session /\ Exists(v) /\ rev[v] = run[r].revision
              => run[r].loaded = sources[v]

IInv ==
  /\ TypeOK /\ RowsOk /\ PointersOk /\ ReadyOk
  /\ RunsOk /\ LocksOk /\ WorkOk /\ LabelIsCurrent

\* A search knows its version.
ReadersOk ==
  \A a \in Reader :
    reader[a].pc \in {"accepted", "loaded", "body"} => reader[a].version \in Version

\* An answer that still counts reads a version that is not edited any more.
SearchOk ==
  \A a \in Reader : reader[a].row = "active" =>
    LET v == reader[a].version IN
    /\ reader[a].persona \in Persona /\ live[reader[a].persona]
    /\ v \in Version /\ Exists(v) /\ of[v] = reader[a].persona
    /\ draft[of[v]] # v
    /\ reader[a].asked = sources[v]
    /\ reader[a].pc \in {"body", "found"} => reader[a].body = reader[a].asked
    /\ reader[a].pc = "found" => reader[a].speech = reader[a].asked

FullInv == IInv /\ ReadersOk /\ SearchOk

\* What Goto does to the runs.
GoneTo(r, x) ==
  /\ run' \in [Run -> RunRow]
  /\ run'[r].pc = x /\ run'[r].on = run[r].on /\ run'[r].persona = run[r].persona
  /\ run'[r].version = run[r].version /\ run'[r].revision = run[r].revision
  /\ run'[r].loaded = run[r].loaded /\ run'[r].session = run[r].session
  /\ \A q \in Run \ {r} : run'[q] = run[q]

LEMMA GotoRow ==
  ASSUME TypeOK, NEW r \in Run, NEW x \in {"embedded", "failing", "ending"},
         Goto(r, x)
  PROVE  GoneTo(r, x)
<1>1. PICK row : row = [run[r] EXCEPT !.pc = x]
  OBVIOUS
<1>2. run[r] \in RunRow
  BY DEF TypeOK
<1>3. row \in RunRow /\ row.pc = x
  BY <1>1, <1>2 DEF RunRow, Writing
<1>4. /\ row.on = run[r].on /\ row.persona = run[r].persona
      /\ row.version = run[r].version /\ row.revision = run[r].revision
      /\ row.loaded = run[r].loaded /\ row.session = run[r].session
  BY <1>1, <1>2 DEF RunRow
<1>5. run' = [run EXCEPT ![r] = row]
  BY <1>1 DEF Goto
<1> QED
  BY <1>3, <1>4, <1>5 DEF TypeOK, GoneTo

LEMMA GoneIsReader ==
  ASSUME NEW x \in ReaderRow
  PROVE  [x EXCEPT !.row = "gone"] \in ReaderRow
BY DEF ReaderRow

LEMMA CutIsRun ==
  ASSUME NEW x \in RunRow
  PROVE  [x EXCEPT !.session = FALSE] \in RunRow
BY DEF RunRow

LEMMA CopiesAreSources ==
  ASSUME TypeOK, NEW w \in Version
  PROVE  CopyOf(w) \in SUBSET Source
<1>1. 1 \in Revision
  BY MaterialAssumption DEF Revision
<1> QED
  BY <1>1 DEF TypeOK, CopyOf, Source

LEMMA UpsertsAreSources ==
  ASSUME TypeOK, NEW v \in Version, rev[v] < MaxRevision, NEW new \in Upserts(v)
  PROVE  new \in SUBSET Source
<1>1. rev[v] + 1 \in Revision
  BY MaterialAssumption DEF TypeOK, Revision
<1>2. IdsOf(sources[v]) \cup {<<v, rev[v] + 1>>} \subseteq SourceId
  BY <1>1 DEF TypeOK, IdsOf, Source, SourceId
<1> QED
  BY <1>1, <1>2 DEF Upserts, Source

\* What the steps of a run and the end of a run leave alone.
LEMMA RowsStay ==
  ASSUME IInv, UNCHANGED <<personaVars, versionVars>>
  PROVE  RowsOk' /\ PointersOk' /\ ReadyOk' /\ LabelIsCurrent'
BY DEF IInv, RowsOk, PointersOk, ReadyOk, LabelIsCurrent, Exists, personaVars, versionVars

LEMMA TypesStay ==
  ASSUME TypeOK, UNCHANGED <<personaVars, versionVars>>,
         up' \in [Process -> BOOLEAN], locked' \in [Persona -> Run \cup {Nothing}],
         kept' \in [Persona -> Process \cup {Nothing}],
         run' \in [Run -> RunRow], reader' \in [Reader -> ReaderRow]
  PROVE  TypeOK'
BY DEF TypeOK, personaVars, versionVars

\* A request may give a version a newer revision, but no run loses its version.
LEMMA RunsStay ==
  ASSUME IInv, TypeOK', UNCHANGED <<locked, kept, run>>,
         \A v \in Version : status[v] # "unborn" =>
           of'[v] = of[v] /\ status'[v] # "unborn" /\ rev[v] <= rev'[v]
  PROVE  RunsOk' /\ LocksOk'
<1>1. LocksOk'
  BY DEF IInv, LocksOk
<1>2. ASSUME NEW r \in Run, run[r].pc # "idle"
      PROVE  run[r].revision <= rev'[run[r].version]
  <2>1. /\ run[r].version \in Version /\ run[r].revision <= rev[run[r].version]
        /\ rev[run[r].version] <= rev'[run[r].version]
    BY <1>2 DEF IInv, RunsOk
  <2>2. /\ run[r].revision \in 0 .. MaxRevision /\ rev[run[r].version] \in 0 .. MaxRevision
        /\ rev'[run[r].version] \in 0 .. MaxRevision
    BY <2>1 DEF IInv, TypeOK, RunRow
  <2> QED
    BY <2>1, <2>2, MaterialAssumption
<1>3. RunsOk'
  BY <1>2 DEF IInv, RunsOk
<1> QED
  BY <1>1, <1>3

\* A run that goes on keeps its version and its lock.
LEMMA RunGoes ==
  ASSUME IInv, NEW r \in Run, NEW x \in {"embedded", "failing", "ending"},
         run[r].pc # "idle", Goto(r, x), UNCHANGED <<of, rev, locked, kept>>,
         \A v \in Version : status[v] # "unborn" => status'[v] # "unborn"
  PROVE  RunsOk' /\ LocksOk'
<1>1. GoneTo(r, x)
  BY GotoRow DEF IInv
<1>2. RunsOk'
  BY <1>1 DEF IInv, RunsOk, GoneTo
<1>3. LocksOk'
  <2>1. \A q \in Run : run'[q].session = run[q].session /\ run'[q].persona = run[q].persona
    BY <1>1 DEF GoneTo
  <2>2. \A p \in Persona : locked[p] # Nothing => locked[p] \in Run
    BY DEF IInv, TypeOK
  <2> QED
    BY <2>1, <2>2 DEF IInv, LocksOk
<1> QED
  BY <1>2, <1>3

\* A run that goes on without touching a row.
LEMMA QuietRunGoes ==
  ASSUME IInv, NEW r \in Run, NEW x \in {"embedded", "failing", "ending"},
         Goto(r, x), run[r].pc # "idle",
         x = "embedded" => run[r].pc = "loaded",
         x = "failing" => run[r].pc \in InTime,
         UNCHANGED <<personaVars, versionVars, up, locked, kept, reader>>
  PROVE  IInv'
<1>1. GoneTo(r, x)
  BY GotoRow DEF IInv
<1>2. TypeOK'
  BY <1>1, TypesStay DEF IInv, TypeOK, GoneTo
<1>3. RowsOk' /\ PointersOk' /\ ReadyOk' /\ LabelIsCurrent'
  BY RowsStay
<1>4. RunsOk' /\ LocksOk'
  BY RunGoes DEF versionVars
<1>5. WorkOk'
  <2>1. UNCHANGED <<live, draft, status, rev, sources>>
    BY DEF personaVars, versionVars
  <2> QED
    BY <1>1, <2>1 DEF IInv, WorkOk, GoneTo, Exists, Writing, InTime
<1> QED
  BY <1>2, <1>3, <1>4, <1>5 DEF IInv

\* Runs that stop, at their end or with their process.
LEMMA RunsStop ==
  ASSUME IInv, NEW R \in SUBSET Run,
         run' = [q \in Run |-> IF q \in R THEN IdleRun ELSE run[q]],
         locked' = Unlocked(R), up' \in [Process -> BOOLEAN],
         kept' \in [Persona -> Process \cup {Nothing}],
         UNCHANGED <<personaVars, versionVars, reader>>
  PROVE  IInv'
<1>1. IdleRun \in RunRow /\ IdleRun.pc = "idle" /\ ~IdleRun.session
  BY MaterialAssumption DEF IdleRun, RunRow
<1>2. \A p \in Persona : locked'[p] = IF locked[p] \in R THEN Nothing ELSE locked[p]
  BY DEF Unlocked
<1>3. TypeOK'
  <2>1. run' \in [Run -> RunRow]
    BY <1>1 DEF IInv, TypeOK
  <2>2. locked' \in [Persona -> Run \cup {Nothing}]
    BY DEF IInv, TypeOK, Unlocked
  <2> QED
    BY <2>1, <2>2, TypesStay DEF IInv, TypeOK
<1>4. RowsOk' /\ PointersOk' /\ ReadyOk' /\ LabelIsCurrent'
  BY RowsStay
<1>5. /\ \A q \in R : run'[q] = IdleRun
      /\ \A q \in Run \ R : run'[q] = run[q]
      /\ UNCHANGED <<live, draft, of, status, rev, sources>>
  BY DEF personaVars, versionVars
<1>6. RunsOk'
  BY <1>1, <1>2, <1>5 DEF IInv, RunsOk
<1>7. LocksOk'
  <2>1. \A p \in Persona : locked'[p] # Nothing =>
          locked'[p] = locked[p] /\ locked[p] \in Run \ R
    BY <1>2 DEF IInv, TypeOK
  <2> QED
    BY <1>5, <2>1 DEF IInv, LocksOk
<1>8. WorkOk'
  BY <1>1, <1>5 DEF IInv, WorkOk, Exists, InTime, Writing
<1> QED
  BY <1>3, <1>4, <1>6, <1>7, <1>8 DEF IInv

LEMMA CreateDraftInv ==
  ASSUME IInv, NEW p \in Persona, CreateDraft(p)
  PROVE  IInv'
<1>1. PICK v \in Version, base \in {Nothing, active[p]} :
         /\ live[p] /\ draft[p] = Nothing /\ status[v] = "unborn"
         /\ draft' = [draft EXCEPT ![p] = v]
         /\ of' = [of EXCEPT ![v] = p]
         /\ status' = [status EXCEPT ![v] = "editing"]
         /\ rev' = [rev EXCEPT ![v] = 1]
         /\ sources' = [sources EXCEPT ![v] = IF base = Nothing THEN {} ELSE CopyOf(base)]
         /\ UNCHANGED <<live, active, indexed, chunks, up, locked, kept, run, reader>>
  BY DEF CreateDraft
<1>2. TypeOK'
  <2>1. \A w \in Version : CopyOf(w) \in SUBSET Source
    BY CopiesAreSources DEF IInv
  <2>2. active[p] \in Version \cup {Nothing}
    BY DEF IInv, TypeOK
  <2>3. sources' \in [Version -> SUBSET Source]
    BY <1>1, <2>1, <2>2 DEF IInv, TypeOK
  <2>4. rev' \in [Version -> 0 .. MaxRevision]
    BY <1>1, MaterialAssumption DEF IInv, TypeOK
  <2>5. /\ draft' \in [Persona -> Version \cup {Nothing}]
        /\ of' \in [Version -> Persona \cup {Nothing}]
        /\ status' \in [Version -> RowStatuses \cup {"unborn", "gone"}]
    BY <1>1 DEF IInv, TypeOK, RowStatuses
  <2> QED
    BY <1>1, <2>3, <2>4, <2>5 DEF IInv, TypeOK
<1>3. /\ draft'[p] = v /\ of'[v] = p /\ status'[v] = "editing" /\ rev'[v] = 1
      /\ indexed[v] = 0 /\ chunks[v] = {} /\ v # Nothing
      /\ \A q \in Persona \ {p} : draft'[q] = draft[q]
      /\ \A w \in Version \ {v} :
           /\ of'[w] = of[w] /\ status'[w] = status[w] /\ rev'[w] = rev[w]
           /\ sources'[w] = sources[w]
  <2>1. /\ draft'[p] = v /\ of'[v] = p /\ status'[v] = "editing" /\ rev'[v] = 1
        /\ \A q \in Persona \ {p} : draft'[q] = draft[q]
    BY <1>1 DEF IInv, TypeOK
  <2>2. \A w \in Version \ {v} :
          /\ of'[w] = of[w] /\ status'[w] = status[w] /\ rev'[w] = rev[w]
          /\ sources'[w] = sources[w]
    BY <1>1 DEF IInv, TypeOK
  <2>3. indexed[v] = 0 /\ chunks[v] = {}
    BY <1>1 DEF IInv, RowsOk, Exists, RowStatuses
  <2>4. v # Nothing
    BY MaterialAssumption DEF Version
  <2> QED
    BY <2>1, <2>2, <2>3, <2>4
<1>4. ~Exists(v) /\ Exists(v)' /\ \A w \in Version \ {v} : Exists(w)' <=> Exists(w)
  BY <1>1, <1>3 DEF Exists, RowStatuses
<1>5. RowsOk'
  BY <1>1, <1>3, <1>4 DEF IInv, RowsOk
<1>6. PointersOk'
  <2>1. \A q \in Persona : draft[q] # v /\ active[q] # v
    BY <1>3, <1>4 DEF IInv, PointersOk
  <2>2. \A q \in Persona :
          /\ draft[q] # Nothing => draft[q] \in Version
          /\ active[q] # Nothing => active[q] \in Version
    BY DEF IInv, TypeOK
  <2> QED
    BY <1>1, <1>3, <1>4, <2>1, <2>2 DEF IInv, PointersOk
<1>7. ReadyOk'
  <2>1. \A w \in Version \ {v} : Exists(w) =>
          of[w] \in Persona /\ (draft'[of[w]] # w => draft[of[w]] # w)
    BY <1>1, <1>3, MaterialAssumption DEF IInv, RowsOk, Version
  <2> QED
    BY <1>1, <1>3, <1>4, <2>1 DEF IInv, ReadyOk
<1>8. RunsOk' /\ LocksOk'
  <2>1. \A w \in Version : status[w] # "unborn" =>
          of'[w] = of[w] /\ status'[w] # "unborn" /\ rev[w] <= rev'[w]
    BY <1>1, <1>3 DEF IInv, TypeOK
  <2> QED
    BY <1>1, <1>2, <2>1, RunsStay
<1>9. WorkOk'
  <2>1. \A r \in Run : run[r].pc # "idle" =>
          run[r].version \in Version \ {v} /\ run[r].persona \in Persona
    BY <1>1 DEF IInv, RunsOk
  <2>2. \A r \in Run : run[r].version # Nothing /\ draft[run[r].persona] = run[r].version =>
          run[r].persona # p
    BY <1>1
  <2> QED
    BY <1>1, <1>3, <1>4, <2>1, <2>2, MaterialAssumption
       DEF IInv, WorkOk, InTime, Writing, Version
<1>10. LabelIsCurrent'
  BY <1>1, <1>3, <1>4 DEF IInv, LabelIsCurrent
<1> QED
  BY <1>2, <1>5, <1>6, <1>7, <1>8, <1>9, <1>10 DEF IInv

LEMMA PatchDraftInv ==
  ASSUME IInv, NEW p \in Persona, PatchDraft(p)
  PROVE  IInv'
<1>1. PICK v : v = draft[p]
  OBVIOUS
<1>2. /\ v \in Version /\ Exists(v) /\ of[v] = p /\ live[p]
      /\ rev[v] \in Nat /\ rev[v] < MaxRevision /\ indexed[v] <= rev[v]
  BY <1>1 DEF IInv, TypeOK, RowsOk, PointersOk, PatchDraft, HasDraft
<1>3. PICK S, C :
         /\ sources' = [sources EXCEPT ![v] = S] /\ S \in SUBSET Source
         /\ chunks' = [chunks EXCEPT ![v] = C] /\ C \in SUBSET Source
  <2>1. \A new \in Upserts(v) : new \in SUBSET Source
    BY <1>2, UpsertsAreSources DEF IInv
  <2>2. sources[v] \in SUBSET Source /\ chunks[v] \in SUBSET Source
    BY <1>2 DEF IInv, TypeOK
  <2>3. PICK removed \in SUBSET IdsOf(sources[v]), new \in Upserts(v) :
           /\ sources' = [sources EXCEPT ![v] =
                {s \in @ : s.id \notin removed \cup IdsOf(new)} \cup new]
           /\ chunks' = [chunks EXCEPT ![v] = {s \in @ : s.id \notin removed}]
    BY <1>1 DEF PatchDraft
  <2>4. PICK S : S = {s \in sources[v] : s.id \notin removed \cup IdsOf(new)} \cup new
    OBVIOUS
  <2>5. PICK C : C = {s \in chunks[v] : s.id \notin removed}
    OBVIOUS
  <2>6. S \in SUBSET Source /\ C \in SUBSET Source
    BY <2>1, <2>2, <2>4, <2>5
  <2>7. sources' = [sources EXCEPT ![v] = S] /\ chunks' = [chunks EXCEPT ![v] = C]
    BY <2>3, <2>4, <2>5
  <2> QED
    BY <2>6, <2>7
<1>4. /\ rev' = [rev EXCEPT ![v] = @ + 1]
      /\ status' = [status EXCEPT ![v] = "editing"]
      /\ UNCHANGED <<live, draft, active, of, indexed, up, locked, kept, run, reader>>
  BY <1>1 DEF PatchDraft, personaVars
<1>5. TypeOK'
  <2>1. rev' \in [Version -> 0 .. MaxRevision]
    BY <1>2, <1>4, MaterialAssumption DEF IInv, TypeOK
  <2>2. status' \in [Version -> RowStatuses \cup {"unborn", "gone"}]
    BY <1>4 DEF IInv, TypeOK, RowStatuses
  <2>3. sources' \in [Version -> SUBSET Source] /\ chunks' \in [Version -> SUBSET Source]
    BY <1>3 DEF IInv, TypeOK
  <2> QED
    BY <1>4, <2>1, <2>2, <2>3 DEF IInv, TypeOK
<1>6. /\ rev'[v] = rev[v] + 1 /\ status'[v] = "editing"
      /\ \A w \in Version \ {v} :
           /\ rev'[w] = rev[w] /\ status'[w] = status[w]
           /\ sources'[w] = sources[w] /\ chunks'[w] = chunks[w]
  BY <1>2, <1>3, <1>4 DEF IInv, TypeOK
<1>7. \A w \in Version : Exists(w)' <=> Exists(w)
  BY <1>2, <1>6 DEF Exists, RowStatuses
<1>8. RowsOk'
  <2>1. 1 <= rev'[v] /\ indexed[v] <= rev'[v] /\ status'[v] # "unborn"
    BY <1>2, <1>6, MaterialAssumption DEF IInv, TypeOK
  <2> QED
    BY <1>2, <1>4, <1>6, <1>7, <2>1 DEF IInv, RowsOk
<1>9. PointersOk'
  BY <1>4, <1>7 DEF IInv, TypeOK, PointersOk
<1>10. ReadyOk'
  BY <1>1, <1>2, <1>4, <1>6, <1>7 DEF IInv, ReadyOk
<1>11. RunsOk' /\ LocksOk'
  <2>1. \A w \in Version : status[w] # "unborn" =>
          of'[w] = of[w] /\ status'[w] # "unborn" /\ rev[w] <= rev'[w]
    BY <1>2, <1>4, <1>6 DEF IInv, TypeOK
  <2> QED
    BY <1>4, <1>5, <2>1, RunsStay
\* What a run has read is older than the draft now.
<1>12. WorkOk'
  <2>1. \A r \in Run : run[r].pc # "idle" => run[r].version \in Version
    BY DEF IInv, RunsOk
  <2>2. ASSUME NEW r \in Run, run[r].pc # "idle", run[r].version = v
        PROVE  run[r].revision # rev'[v]
    <3>1. run[r].revision <= rev[v] /\ run[r].revision \in Nat
      BY <2>2, MaterialAssumption DEF IInv, TypeOK, RunsOk, RunRow
    <3> QED
      BY <1>2, <1>6, <3>1
  <2> QED
    BY <1>4, <1>6, <1>7, <2>1, <2>2 DEF IInv, WorkOk, InTime, Writing
<1>13. LabelIsCurrent'
  <2>1. indexed[v] # rev'[v]
    BY <1>2, <1>6, MaterialAssumption DEF IInv, TypeOK
  <2> QED
    BY <1>4, <1>6, <1>7, <2>1 DEF IInv, LabelIsCurrent
<1> QED
  BY <1>5, <1>8, <1>9, <1>10, <1>11, <1>12, <1>13 DEF IInv

LEMMA DiscardDraftInv ==
  ASSUME IInv, NEW p \in Persona, DiscardDraft(p)
  PROVE  IInv'
<1>1. PICK v : v = draft[p]
  OBVIOUS
<1>2. /\ draft' = [draft EXCEPT ![p] = Nothing]
      /\ status' = [status EXCEPT ![v] = "gone"]
      /\ sources' = [sources EXCEPT ![v] = {}]
      /\ chunks' = [chunks EXCEPT ![v] = {}]
      /\ UNCHANGED <<live, active, of, rev, indexed, up, locked, kept, run, reader>>
  BY <1>1 DEF DiscardDraft
<1>3. v \in Version /\ Exists(v) /\ of[v] = p /\ v # Nothing
  BY <1>1 DEF IInv, TypeOK, PointersOk, DiscardDraft, HasDraft
<1>4. TypeOK'
  BY <1>2 DEF IInv, TypeOK
<1>5. /\ draft'[p] = Nothing /\ status'[v] = "gone" /\ sources'[v] = {} /\ chunks'[v] = {}
      /\ \A q \in Persona \ {p} : draft'[q] = draft[q]
      /\ \A w \in Version \ {v} :
           /\ status'[w] = status[w]
           /\ sources'[w] = sources[w] /\ chunks'[w] = chunks[w]
  BY <1>2, <1>3 DEF IInv, TypeOK
<1>6. ~Exists(v)' /\ \A w \in Version \ {v} : Exists(w)' <=> Exists(w)
  BY <1>5 DEF Exists, RowStatuses
<1>7. RowsOk'
  BY <1>2, <1>5, <1>6 DEF IInv, RowsOk
<1>8. PointersOk'
  <2>1. \A q \in Persona \ {p} : draft[q] # v /\ active[q] # v
    BY <1>3 DEF IInv, PointersOk
  <2>2. active[p] # v
    BY <1>1, <1>3 DEF IInv, PointersOk
  <2>3. \A q \in Persona :
          /\ draft[q] # Nothing => draft[q] \in Version
          /\ active[q] # Nothing => active[q] \in Version
    BY DEF IInv, TypeOK
  <2> QED
    BY <1>2, <1>5, <1>6, <2>1, <2>2, <2>3 DEF IInv, PointersOk
<1>9. ReadyOk'
  <2>1. \A w \in Version \ {v} : Exists(w) =>
          of[w] \in Persona /\ (draft'[of[w]] # w => draft[of[w]] # w)
    BY <1>1, <1>5 DEF IInv, RowsOk
  <2> QED
    BY <1>2, <1>5, <1>6, <2>1 DEF IInv, ReadyOk
<1>10. RunsOk' /\ LocksOk'
  <2>1. \A w \in Version : status[w] # "unborn" =>
          of'[w] = of[w] /\ status'[w] # "unborn" /\ rev[w] <= rev'[w]
    BY <1>2, <1>5 DEF IInv, TypeOK
  <2> QED
    BY <1>2, <1>4, <2>1, RunsStay
<1>11. WorkOk'
  <2>1. \A r \in Run : run[r].pc # "idle" =>
          run[r].version \in Version /\ run[r].persona \in Persona
    BY DEF IInv, RunsOk
  <2> QED
    BY <1>1, <1>2, <1>5, <1>6, <2>1 DEF IInv, WorkOk, InTime, Writing
<1>12. LabelIsCurrent'
  BY <1>2, <1>5, <1>6 DEF IInv, LabelIsCurrent
<1> QED
  BY <1>4, <1>7, <1>8, <1>9, <1>10, <1>11, <1>12 DEF IInv

LEMMA ActivateDraftInv ==
  ASSUME IInv, NEW p \in Persona, NEW n \in Revision, ActivateDraft(p, n)
  PROVE  IInv'
<1>1. PICK v : v = draft[p]
  OBVIOUS
<1>2. /\ HasDraft(p) /\ status[v] = "ready"
      /\ active' = [active EXCEPT ![p] = v]
      /\ draft' = [draft EXCEPT ![p] = Nothing]
      /\ UNCHANGED <<live, of, status, rev, indexed, sources, chunks, up, locked, kept, run, reader>>
  BY <1>1 DEF ActivateDraft, Activation, HasDraft, versionVars
<1>3. v \in Version /\ Exists(v) /\ of[v] = p /\ v # Nothing
  BY <1>1, <1>2 DEF IInv, TypeOK, PointersOk, HasDraft
<1>4. TypeOK'
  BY <1>2, <1>3 DEF IInv, TypeOK
<1>5. /\ draft'[p] = Nothing /\ active'[p] = v
      /\ \A q \in Persona \ {p} : draft'[q] = draft[q] /\ active'[q] = active[q]
  BY <1>2 DEF IInv, TypeOK
<1>6. \A w : Exists(w)' <=> Exists(w)
  BY <1>2 DEF Exists
<1>7. RowsOk'
  BY <1>2, <1>6 DEF IInv, RowsOk
<1>8. PointersOk'
  BY <1>2, <1>3, <1>5, <1>6 DEF IInv, PointersOk
<1>9. ReadyOk'
  <2>1. \A w \in Version \ {v} : Exists(w) =>
          of[w] \in Persona /\ (draft'[of[w]] # w => draft[of[w]] # w)
    BY <1>1, <1>5 DEF IInv, RowsOk
  <2> QED
    BY <1>2, <1>6, <2>1 DEF IInv, ReadyOk
<1>10. RunsOk' /\ LocksOk'
  <2>1. \A w \in Version : rev[w] <= rev'[w]
    BY <1>2 DEF IInv, TypeOK
  <2> QED
    BY <1>2, <1>4, <2>1, RunsStay
\* No run that can write works for a version that is ready.
<1>11. WorkOk'
  <2>1. \A r \in Run : run[r].pc # "idle" => run[r].persona \in Persona
    BY DEF IInv, RunsOk
  <2> QED
    BY <1>1, <1>2, <1>5, <1>6, <2>1 DEF IInv, WorkOk, InTime, Writing
<1>12. LabelIsCurrent'
  BY <1>2, <1>6 DEF IInv, LabelIsCurrent
<1> QED
  BY <1>4, <1>7, <1>8, <1>9, <1>10, <1>11, <1>12 DEF IInv

LEMMA DeletePersonaInv ==
  ASSUME IInv, NEW p \in Persona, DeletePersona(p)
  PROVE  IInv'
<1>1. PICK mine : mine = {v \in Version : of[v] = p}
  OBVIOUS
<1>2. /\ locked[p] = Nothing
      /\ live' = [live EXCEPT ![p] = FALSE]
      /\ draft' = [draft EXCEPT ![p] = Nothing]
      /\ active' = [active EXCEPT ![p] = Nothing]
      /\ status' = [v \in Version |-> IF v \in mine THEN "gone" ELSE status[v]]
      /\ sources' = [v \in Version |-> IF v \in mine THEN {} ELSE sources[v]]
      /\ chunks' = [v \in Version |-> IF v \in mine THEN {} ELSE chunks[v]]
      /\ UNCHANGED <<of, rev, indexed, up, locked, kept, run>>
  BY <1>1 DEF DeletePersona, Busy
<1>3. TypeOK'
  <2>1. reader' \in [Reader -> ReaderRow]
    BY GoneIsReader DEF IInv, TypeOK, DeletePersona
  <2>2. status' \in [Version -> RowStatuses \cup {"unborn", "gone"}]
    BY <1>2 DEF IInv, TypeOK
  <2>3. sources' \in [Version -> SUBSET Source] /\ chunks' \in [Version -> SUBSET Source]
    BY <1>2 DEF IInv, TypeOK
  <2> QED
    BY <1>2, <2>1, <2>2, <2>3 DEF IInv, TypeOK
<1>4. /\ ~live'[p] /\ draft'[p] = Nothing /\ active'[p] = Nothing
      /\ \A q \in Persona \ {p} :
           live'[q] = live[q] /\ draft'[q] = draft[q] /\ active'[q] = active[q]
      /\ \A w \in Version \cap mine : status'[w] = "gone" /\ sources'[w] = {} /\ chunks'[w] = {}
      /\ \A w \in Version \ mine :
           /\ of[w] # p /\ status'[w] = status[w]
           /\ sources'[w] = sources[w] /\ chunks'[w] = chunks[w]
  BY <1>1, <1>2 DEF IInv, TypeOK
<1>5. \A w \in Version : Exists(w)' <=> Exists(w) /\ w \notin mine
  BY <1>4 DEF Exists, RowStatuses
<1>6. RowsOk'
  BY <1>1, <1>2, <1>4, <1>5 DEF IInv, RowsOk
<1>7. PointersOk'
  <2>1. \A q \in Persona \ {p} :
          /\ draft[q] # Nothing => draft[q] \in Version \ mine
          /\ active[q] # Nothing => active[q] \in Version \ mine
    BY <1>1 DEF IInv, TypeOK, PointersOk
  <2> QED
    BY <1>2, <1>4, <1>5, <2>1 DEF IInv, PointersOk
<1>8. ReadyOk'
  <2>1. \A w \in Version \ mine : Exists(w) => of[w] \in Persona \ {p}
    BY <1>1 DEF IInv, RowsOk
  <2> QED
    BY <1>2, <1>4, <1>5, <2>1 DEF IInv, ReadyOk
<1>9. RunsOk' /\ LocksOk'
  <2>1. \A w \in Version : status[w] # "unborn" =>
          of'[w] = of[w] /\ status'[w] # "unborn" /\ rev[w] <= rev'[w]
    BY <1>2, <1>4 DEF IInv, TypeOK
  <2> QED
    BY <1>2, <1>3, <2>1, RunsStay
\* A run with a session holds the lock: it is not a run of the one deleted.
<1>10. WorkOk'
  <2>1. \A r \in Run : run[r].pc # "idle" =>
          run[r].version \in Version /\ run[r].persona \in Persona
    BY DEF IInv, RunsOk
  <2>2. \A r \in Run : run[r].session => run[r].persona # p
    BY <1>2, MaterialAssumption DEF IInv, RunsOk
  <2> QED
    BY <1>2, <1>4, <1>5, <2>1, <2>2 DEF IInv, WorkOk, InTime, Writing
<1>11. LabelIsCurrent'
  BY <1>2, <1>4, <1>5 DEF IInv, LabelIsCurrent
<1> QED
  BY <1>3, <1>6, <1>7, <1>8, <1>9, <1>10, <1>11 DEF IInv

LEMMA StartIndexingInv ==
  ASSUME IInv, NEW i \in Process, NEW p \in Persona, NEW r \in Run, StartIndexing(i, p, r)
  PROVE  IInv'
<1>1. PICK v : v = draft[p]
  OBVIOUS
<1>2. PICK new :
         new = [pc |-> "queued", on |-> i, persona |-> p, version |-> v,
                revision |-> rev[v], loaded |-> {}, session |-> TRUE]
  OBVIOUS
<1>3. /\ run[r].pc = "idle" /\ HasDraft(p) /\ locked[p] = Nothing
      /\ status' = [status EXCEPT ![v] = "processing"]
      /\ locked' = [locked EXCEPT ![p] = r]
      /\ run' = [run EXCEPT ![r] = new]
      /\ UNCHANGED <<live, draft, active, of, rev, indexed, sources, chunks, up, kept,
                     reader>>
  BY <1>1, <1>2 DEF StartIndexing, LockFor, personaVars
<1>4. /\ v \in Version /\ Exists(v) /\ of[v] = p /\ live[p]
      /\ 1 <= rev[v] /\ rev[v] \in 0 .. MaxRevision
  BY <1>1, <1>3 DEF IInv, TypeOK, RowsOk, PointersOk, HasDraft
<1>5. /\ new \in RunRow /\ new.pc = "queued" /\ new.persona = p /\ new.version = v
      /\ new.revision = rev[v] /\ new.session
  BY <1>2, <1>4 DEF RunRow, Writing
<1>6. TypeOK'
  <2>1. run' \in [Run -> RunRow]
    BY <1>3, <1>5 DEF IInv, TypeOK
  <2>2. status' \in [Version -> RowStatuses \cup {"unborn", "gone"}]
    BY <1>3 DEF IInv, TypeOK, RowStatuses
  <2>3. locked' \in [Persona -> Run \cup {Nothing}]
    BY <1>3 DEF IInv, TypeOK
  <2> QED
    BY <1>3, <2>1, <2>2, <2>3 DEF IInv, TypeOK
<1>7. /\ status'[v] = "processing" /\ locked'[p] = r /\ run'[r] = new
      /\ \A w \in Version \ {v} : status'[w] = status[w]
      /\ \A q \in Persona \ {p} : locked'[q] = locked[q]
      /\ \A q \in Run \ {r} : run'[q] = run[q]
  BY <1>3, <1>4 DEF IInv, TypeOK
<1>8. \A w \in Version : Exists(w)' <=> Exists(w)
  BY <1>4, <1>7 DEF Exists, RowStatuses
<1>9. RowsOk'
  BY <1>3, <1>4, <1>7, <1>8 DEF IInv, RowsOk
<1>10. PointersOk'
  BY <1>3, <1>8 DEF IInv, TypeOK, PointersOk
<1>11. ReadyOk'
  BY <1>1, <1>3, <1>4, <1>7, <1>8 DEF IInv, ReadyOk
<1>12. RunsOk'
  <2>1. \A q \in Run \ {r} : run[q].session =>
          run[q].persona \in Persona /\ run[q].persona # p
    BY <1>3, MaterialAssumption DEF IInv, RunsOk
  <2>2. \A w \in Version : status[w] # "unborn" => status'[w] # "unborn"
    BY <1>7
  <2>3. \A q \in Run \ {r} :
          /\ run'[q].pc = "idle" => run'[q] = IdleRun
          /\ run'[q].pc # "idle" =>
               /\ run'[q].version \in Version /\ run'[q].persona \in Persona
               /\ of'[run'[q].version] = run'[q].persona
               /\ status'[run'[q].version] # "unborn"
               /\ 1 <= run'[q].revision /\ run'[q].revision <= rev'[run'[q].version]
          /\ run'[q].session => run'[q].pc # "idle" /\ locked'[run'[q].persona] = q
    BY <1>3, <1>7, <2>1, <2>2 DEF IInv, RunsOk
  <2> QED
    BY <1>3, <1>4, <1>5, <1>7, <2>3 DEF RunsOk
<1>13. LocksOk'
  <2>1. ~run[r].session
    BY <1>3 DEF IInv, RunsOk
  <2>2. \A q \in Persona : locked[q] # Nothing => locked[q] \in Run \ {r}
    BY <2>1 DEF IInv, TypeOK, LocksOk
  <2> QED
    BY <1>5, <1>7, <2>2 DEF IInv, LocksOk
<1>14. WorkOk'
  <2>1. \A q \in Run : run[q].pc # "idle" => run[q].version \in Version
    BY DEF IInv, RunsOk
  <2> QED
    BY <1>1, <1>3, <1>4, <1>5, <1>7, <1>8, <2>1 DEF IInv, WorkOk, InTime, Writing
<1>15. LabelIsCurrent'
  BY <1>3, <1>8 DEF IInv, LabelIsCurrent
<1> QED
  BY <1>6, <1>9, <1>10, <1>11, <1>12, <1>13, <1>14, <1>15 DEF IInv

\* A step that touches only the locks that sessions kept.
LEMMA KeptInv ==
  ASSUME IInv, kept' \in [Persona -> Process \cup {Nothing}],
         UNCHANGED <<personaVars, versionVars, up, locked, run, reader>>
  PROVE  IInv'
<1>1. TypeOK'
  BY TypesStay DEF IInv, TypeOK
<1>2. RowsOk' /\ PointersOk' /\ ReadyOk' /\ LabelIsCurrent'
  BY RowsStay
<1>3. RunsOk' /\ LocksOk' /\ WorkOk'
  BY DEF IInv, RunsOk, LocksOk, WorkOk, Exists, personaVars, versionVars
<1> QED
  BY <1>1, <1>2, <1>3 DEF IInv

LEMMA StartIndexingFailsInv ==
  ASSUME IInv, NEW i \in Process, NEW p \in Persona, StartIndexingFails(i, p)
  PROVE  IInv'
BY KeptInv DEF StartIndexingFails, IInv, TypeOK

LEMMA FreeKeptInv ==
  ASSUME IInv, NEW p \in Persona, FreeKept(p)
  PROVE  IInv'
BY KeptInv DEF FreeKept, IInv, TypeOK

LEMMA LoadSourcesInv ==
  ASSUME IInv, NEW r \in Run, LoadSources(r)
  PROVE  IInv'
<1>1. /\ run[r].pc = "queued" /\ run[r].session
      /\ UNCHANGED <<personaVars, versionVars, up, locked, kept, reader>>
  BY DEF LoadSources
<1>2. sources[run[r].version] \in SUBSET Source
  BY <1>1 DEF IInv, TypeOK, RunsOk
<1>3. PICK x \in {"failing", "loaded"} :
         /\ run' = [run EXCEPT ![r].pc = x, ![r].loaded = sources[run[r].version]]
         /\ x = "loaded" => sources[run[r].version] # {}
  BY DEF LoadSources
<1>4. /\ run' \in [Run -> RunRow]
      /\ run'[r].pc = x /\ run'[r].loaded = sources[run[r].version]
      /\ run'[r].version = run[r].version /\ run'[r].persona = run[r].persona
      /\ run'[r].revision = run[r].revision /\ run'[r].session = run[r].session
      /\ \A q \in Run \ {r} : run'[q] = run[q]
  <2>1. PICK row : row = [run[r] EXCEPT !.pc = x, !.loaded = sources[run[r].version]]
    OBVIOUS
  <2>2. run[r] \in RunRow
    BY DEF IInv, TypeOK
  <2>3. /\ row \in RunRow /\ row.pc = x /\ row.loaded = sources[run[r].version]
        /\ row.version = run[r].version /\ row.persona = run[r].persona
        /\ row.revision = run[r].revision /\ row.session = run[r].session
    BY <1>2, <2>1, <2>2 DEF RunRow, Writing
  <2>4. run' = [run EXCEPT ![r] = row]
    BY <1>3, <2>1
  <2> QED
    BY <2>3, <2>4 DEF IInv, TypeOK
<1>5. UNCHANGED <<live, draft, of, status, rev, sources, locked, kept>>
  BY <1>1 DEF personaVars, versionVars
<1>6. TypeOK'
  BY <1>1, <1>4, TypesStay DEF IInv, TypeOK
<1>7. RowsOk' /\ PointersOk' /\ ReadyOk' /\ LabelIsCurrent'
  BY <1>1, RowsStay
<1>8. RunsOk'
  BY <1>1, <1>4, <1>5 DEF IInv, RunsOk
<1>9. LocksOk'
  <2>1. \A q \in Run : run'[q].session = run[q].session /\ run'[q].persona = run[q].persona
    BY <1>4
  <2>2. \A p \in Persona : locked[p] # Nothing => locked[p] \in Run
    BY DEF IInv, TypeOK
  <2> QED
    BY <1>5, <2>1, <2>2 DEF IInv, LocksOk
<1>10. WorkOk'
  BY <1>1, <1>3, <1>4, <1>5 DEF IInv, WorkOk, Exists, Writing, InTime
<1> QED
  BY <1>6, <1>7, <1>8, <1>9, <1>10 DEF IInv

LEMMA EmbedInv ==
  ASSUME IInv, NEW r \in Run, Embed(r)
  PROVE  IInv'
<1>1. PICK x \in {"embedded", "failing"} : Goto(r, x)
  BY DEF Embed
<1>2. run[r].pc = "loaded" /\ UNCHANGED <<personaVars, versionVars, up, locked, kept, reader>>
  BY DEF Embed
<1> QED
  BY <1>1, <1>2, QuietRunGoes DEF InTime, Writing

LEMMA CommitInv ==
  ASSUME IInv, NEW r \in Run, Commit(r)
  PROVE  IInv'
<1>1. PICK v : v = run[r].version
  OBVIOUS
<1>2. /\ run[r].pc = "embedded" /\ run[r].session /\ Exists(v) /\ v \in Version
      /\ chunks' = [chunks EXCEPT ![v] = run[r].loaded]
      /\ indexed' = [indexed EXCEPT ![v] = run[r].revision]
      /\ status' = [status EXCEPT ![v] = IF rev[v] = run[r].revision THEN "ready" ELSE @]
      /\ Goto(r, "ending")
      /\ UNCHANGED <<live, draft, active, of, rev, sources, up, locked, kept, reader>>
  BY <1>1 DEF Commit, ForeignKeysHold, Exists, personaVars
<1>3. GoneTo(r, "ending")
  BY <1>2, GotoRow DEF IInv
<1>4. TypeOK'
  <2>1. run[r].loaded \in SUBSET Source /\ run[r].revision \in 0 .. MaxRevision
    BY DEF IInv, TypeOK, RunRow
  <2>2. status' \in [Version -> RowStatuses \cup {"unborn", "gone"}]
    BY <1>2 DEF IInv, TypeOK, RowStatuses
  <2>3. run' \in [Run -> RunRow]
    BY <1>3 DEF GoneTo
  <2>4. /\ chunks' \in [Version -> SUBSET Source]
        /\ indexed' \in [Version -> 0 .. MaxRevision]
    BY <1>2, <2>1 DEF IInv, TypeOK
  <2> QED
    BY <1>2, <2>2, <2>3, <2>4 DEF IInv, TypeOK
<1>5. /\ chunks'[v] = run[r].loaded /\ indexed'[v] = run[r].revision
      /\ status'[v] = (IF rev[v] = run[r].revision THEN "ready" ELSE status[v])
      /\ \A w \in Version \ {v} :
           chunks'[w] = chunks[w] /\ indexed'[w] = indexed[w] /\ status'[w] = status[w]
  BY <1>2 DEF IInv, TypeOK
<1>6. \A w \in Version : Exists(w)' <=> Exists(w)
  BY <1>2, <1>5 DEF Exists, RowStatuses
\* The run wrote the draft's own sources, unless the draft was edited since.
<1>7. /\ run[r].revision <= rev[v] /\ of[v] = run[r].persona
      /\ draft[run[r].persona] = v /\ status[v] # "ready"
      /\ rev[v] = run[r].revision => run[r].loaded = sources[v] /\ sources[v] # {}
  BY <1>1, <1>2 DEF IInv, RunsOk, WorkOk, InTime, Writing
<1>8. RowsOk'
  <2>1. status'[v] # "unborn"
    BY <1>2, <1>5 DEF Exists, RowStatuses
  <2> QED
    BY <1>2, <1>5, <1>6, <1>7, <2>1 DEF IInv, RowsOk
<1>9. PointersOk'
  BY <1>2, <1>6 DEF IInv, TypeOK, PointersOk
<1>10. ReadyOk'
  BY <1>2, <1>5, <1>6, <1>7 DEF IInv, ReadyOk
<1>11. RunsOk' /\ LocksOk'
  <2>1. \A w \in Version : status[w] # "unborn" => status'[w] # "unborn"
    BY <1>5
  <2> QED
    BY <1>2, <2>1, RunGoes
<1>12. WorkOk'
  <2>1. \A q \in Run \ {r} : run[q].session => run[q].persona # run[r].persona
    BY <1>2 DEF IInv, RunsOk
  <2>2. \A q \in Run : run[q].pc # "idle" =>
          run[q].version \in Version /\ of[run[q].version] = run[q].persona
    BY DEF IInv, RunsOk
  <2>3. run'[r].pc = "ending" /\ \A q \in Run \ {r} : run'[q] = run[q]
    BY <1>3 DEF GoneTo
  <2> QED
    BY <1>2, <1>5, <1>6, <1>7, <2>1, <2>2, <2>3 DEF IInv, WorkOk, InTime, Writing
<1>13. LabelIsCurrent'
  BY <1>2, <1>5, <1>6, <1>7 DEF IInv, LabelIsCurrent
<1> QED
  BY <1>4, <1>8, <1>9, <1>10, <1>11, <1>12, <1>13 DEF IInv

LEMMA StatementFailsInv ==
  ASSUME IInv, NEW r \in Run, StatementFails(r)
  PROVE  IInv'
<1>1. /\ run[r].pc \in {"queued", "embedded"} /\ Goto(r, "failing")
      /\ UNCHANGED <<personaVars, versionVars, up, locked, kept, reader>>
  BY DEF StatementFails
<1> QED
  BY <1>1, QuietRunGoes DEF InTime, Writing

LEMMA MarkFailedInv ==
  ASSUME IInv, NEW r \in Run, MarkFailed(r)
  PROVE  IInv'
<1>1. PICK v : v = run[r].version
  OBVIOUS
<1>2. /\ run[r].pc = "failing" /\ run[r].session /\ Goto(r, "ending")
      /\ status' = IF Exists(v) /\ rev[v] = run[r].revision
                   THEN [status EXCEPT ![v] = "failed"] ELSE status
      /\ UNCHANGED <<live, draft, active, of, rev, indexed, sources, chunks, up, locked, kept, reader>>
  BY <1>1 DEF MarkFailed, personaVars
<1>3. GoneTo(r, "ending")
  BY <1>2, GotoRow DEF IInv
<1>4. TypeOK'
  <2>1. status' \in [Version -> RowStatuses \cup {"unborn", "gone"}]
    BY <1>2 DEF IInv, TypeOK, RowStatuses
  <2>2. run' \in [Run -> RunRow]
    BY <1>3 DEF GoneTo
  <2> QED
    BY <1>2, <2>1, <2>2 DEF IInv, TypeOK
<1>5. /\ Exists(v) => status'[v] \in {"failed", status[v]} /\ draft[of[v]] = v
      /\ \A w \in Version : w # v \/ ~Exists(v) => status'[w] = status[w]
  <2>1. Exists(v) => draft[of[v]] = v
    BY <1>1, <1>2 DEF IInv, RunsOk, WorkOk, InTime
  <2>2. Exists(v) => status'[v] \in {"failed", status[v]}
    BY <1>2 DEF IInv, TypeOK, Exists
  <2>3. \A w \in Version : w # v \/ ~Exists(v) => status'[w] = status[w]
    BY <1>2 DEF IInv, TypeOK
  <2> QED
    BY <2>1, <2>2, <2>3
<1>6. \A w \in Version : Exists(w)' <=> Exists(w)
  BY <1>5 DEF Exists, RowStatuses
<1>7. \A w \in Version : status'[w] \in {"failed", status[w]}
  BY <1>5
<1>8. RowsOk'
  <2>1. \A w \in Version : status'[w] = "unborn" => status[w] = "unborn"
    BY <1>7
  <2> QED
    BY <1>2, <1>6, <2>1 DEF IInv, RowsOk
<1>9. PointersOk'
  BY <1>2, <1>6 DEF IInv, TypeOK, PointersOk
<1>10. ReadyOk'
  BY <1>2, <1>5, <1>6, <1>7 DEF IInv, ReadyOk
<1>11. RunsOk' /\ LocksOk'
  <2>1. \A w \in Version : status[w] # "unborn" => status'[w] # "unborn"
    BY <1>7
  <2> QED
    BY <1>2, <2>1, RunGoes
<1>12. WorkOk'
  <2>1. \A q \in Run : run[q].pc # "idle" => run[q].version \in Version
    BY DEF IInv, RunsOk
  <2>2. run'[r].pc = "ending" /\ \A q \in Run \ {r} : run'[q] = run[q]
    BY <1>3 DEF GoneTo
  <2> QED
    BY <1>2, <1>6, <1>7, <2>1, <2>2 DEF IInv, WorkOk, InTime, Writing
<1>13. LabelIsCurrent'
  BY <1>2, <1>6 DEF IInv, LabelIsCurrent
<1> QED
  BY <1>4, <1>8, <1>9, <1>10, <1>11, <1>12, <1>13 DEF IInv

LEMMA MarkFailedFailsInv ==
  ASSUME IInv, NEW r \in Run, MarkFailedFails(r)
  PROVE  IInv'
<1>1. /\ run[r].pc = "failing" /\ Goto(r, "ending")
      /\ UNCHANGED <<personaVars, versionVars, up, locked, kept, reader>>
  BY DEF MarkFailedFails
<1> QED
  BY <1>1, QuietRunGoes

LEMMA EndRunInv ==
  ASSUME IInv, NEW r \in Run, EndRun(r)
  PROVE  IInv'
<1>1. /\ run' = [run EXCEPT ![r] = IdleRun] /\ locked' = Unlocked({r})
      /\ UNCHANGED <<personaVars, versionVars, up, reader>>
  BY DEF EndRun
<1>0. kept' \in [Persona -> Process \cup {Nothing}]
  BY DEF IInv, TypeOK, RunRow, EndRun
<1>2. run' = [q \in Run |-> IF q \in {r} THEN IdleRun ELSE run[q]]
  BY <1>1 DEF IInv, TypeOK
<1>3. up' \in [Process -> BOOLEAN]
  BY <1>1 DEF IInv, TypeOK
<1> QED
  BY <1>0, <1>1, <1>2, <1>3, RunsStop

LEMMA LoseSessionInv ==
  ASSUME IInv, NEW r \in Run, LoseSession(r)
  PROVE  IInv'
<1>1. /\ run[r].session /\ run' = [run EXCEPT ![r].session = FALSE]
      /\ locked' = Unlocked({r})
      /\ UNCHANGED <<personaVars, versionVars, up, reader>>
  BY DEF LoseSession
<1>2. /\ run' \in [Run -> RunRow]
      /\ ~run'[r].session /\ run'[r].pc = run[r].pc /\ run'[r].version = run[r].version
      /\ run'[r].persona = run[r].persona /\ run'[r].revision = run[r].revision
      /\ run'[r].loaded = run[r].loaded
      /\ \A q \in Run \ {r} : run'[q] = run[q]
  <2>1. PICK row : row = [run[r] EXCEPT !.session = FALSE]
    OBVIOUS
  <2>2. run[r] \in RunRow
    BY DEF IInv, TypeOK
  <2>3. row \in RunRow
    BY <2>1, <2>2, CutIsRun
  <2>4. /\ ~row.session /\ row.pc = run[r].pc /\ row.version = run[r].version
        /\ row.persona = run[r].persona /\ row.revision = run[r].revision
        /\ row.loaded = run[r].loaded
    BY <2>1, <2>2 DEF RunRow
  <2>5. run' = [run EXCEPT ![r] = row]
    BY <1>1, <2>1
  <2> QED
    BY <2>3, <2>4, <2>5 DEF IInv, TypeOK
<1>3. \A p \in Persona : locked'[p] = IF locked[p] = r THEN Nothing ELSE locked[p]
  BY <1>1 DEF Unlocked
<1>4. run[r].pc # "idle"
  BY <1>1 DEF IInv, RunsOk
<1>5. UNCHANGED <<live, draft, of, status, rev, sources>>
  BY <1>1 DEF personaVars, versionVars
<1>6. TypeOK'
  <2>1. locked' \in [Persona -> Run \cup {Nothing}]
    BY <1>1 DEF IInv, TypeOK, Unlocked
  <2>2. kept' \in [Persona -> Process \cup {Nothing}]
    BY DEF IInv, TypeOK, LoseSession
  <2> QED
    BY <1>1, <1>2, <2>1, <2>2, TypesStay DEF IInv, TypeOK
<1>7. RowsOk' /\ PointersOk' /\ ReadyOk' /\ LabelIsCurrent'
  BY <1>1, RowsStay
<1>8. RunsOk'
  <2>1. \A q \in Run \ {r} : run[q].session => locked'[run[q].persona] = q
    BY <1>3 DEF IInv, RunsOk
  <2> QED
    BY <1>2, <1>4, <1>5, <2>1 DEF IInv, RunsOk
<1>9. LocksOk'
  <2>1. \A p \in Persona : locked'[p] # Nothing =>
          locked'[p] = locked[p] /\ locked[p] \in Run \ {r}
    BY <1>3 DEF IInv, TypeOK
  <2> QED
    BY <1>2, <2>1 DEF IInv, LocksOk
<1>10. WorkOk'
  BY <1>2, <1>5 DEF IInv, WorkOk, Exists, InTime, Writing
<1> QED
  BY <1>6, <1>7, <1>8, <1>9, <1>10 DEF IInv

LEMMA CrashInv ==
  ASSUME IInv, NEW i \in Process, Crash(i)
  PROVE  IInv'
<1>1. RunsOf(i) \in SUBSET Run
  BY DEF RunsOf
<1>2. up' \in [Process -> BOOLEAN] /\ kept' \in [Persona -> Process \cup {Nothing}]
  BY DEF IInv, TypeOK, Crash
<1> QED
  BY <1>1, <1>2, RunsStop DEF Crash

LEMMA StartInv ==
  ASSUME IInv, NEW i \in Process, Start(i)
  PROVE  IInv'
<1>1. /\ status' = [v \in Version |-> IF status[v] = "processing" THEN "failed" ELSE status[v]]
      /\ up' = [up EXCEPT ![i] = TRUE]
      /\ UNCHANGED <<live, draft, active, of, rev, indexed, sources, chunks, locked, kept, run, reader>>
  BY DEF Start, personaVars
<1>2. \A v \in Version :
        /\ status'[v] = "unborn" <=> status[v] = "unborn"
        /\ status'[v] = "ready" <=> status[v] = "ready"
        /\ Exists(v)' <=> Exists(v)
  BY <1>1 DEF Exists, RowStatuses
<1>3. TypeOK'
  <2>1. status' \in [Version -> RowStatuses \cup {"unborn", "gone"}]
    BY <1>1 DEF IInv, TypeOK, RowStatuses
  <2> QED
    BY <1>1, <2>1 DEF IInv, TypeOK
<1>4. RowsOk'
  BY <1>1, <1>2 DEF IInv, RowsOk
<1>5. PointersOk'
  BY <1>1, <1>2 DEF IInv, TypeOK, PointersOk
<1>6. ReadyOk'
  BY <1>1, <1>2 DEF IInv, ReadyOk
<1>7. RunsOk' /\ LocksOk'
  <2>1. \A v \in Version : rev[v] <= rev'[v]
    BY <1>1 DEF IInv, TypeOK
  <2> QED
    BY <1>1, <1>2, <1>3, <2>1, RunsStay
<1>8. WorkOk'
  <2>1. \A r \in Run : run[r].pc # "idle" => run[r].version \in Version
    BY DEF IInv, RunsOk
  <2> QED
    BY <1>1, <1>2, <2>1 DEF IInv, WorkOk, InTime, Writing
<1>9. LabelIsCurrent'
  BY <1>1, <1>2 DEF IInv, LabelIsCurrent
<1> QED
  BY <1>3, <1>4, <1>5, <1>6, <1>7, <1>8, <1>9 DEF IInv

LEMMA InitInv ==
  ASSUME Init
  PROVE  FullInv
<1>1. TypeOK
  BY MaterialAssumption DEF Init, TypeOK, IdleRun, IdleReader, RunRow, ReaderRow
<1>2. RowsOk /\ PointersOk /\ ReadyOk /\ LabelIsCurrent
  BY MaterialAssumption DEF Init, RowsOk, PointersOk, ReadyOk, LabelIsCurrent, Exists,
     RowStatuses
<1>3. RunsOk /\ LocksOk /\ WorkOk
  BY DEF Init, RunsOk, LocksOk, WorkOk, IdleRun, InTime, Writing
<1>4. ReadersOk /\ SearchOk
  BY DEF Init, ReadersOk, SearchOk, IdleReader
<1> QED
  BY <1>1, <1>2, <1>3, <1>4 DEF IInv, FullInv

\* A step that touches no row, no lock and no run.
LEMMA QuietInv ==
  ASSUME IInv, reader' \in [Reader -> ReaderRow],
         UNCHANGED <<personaVars, versionVars, up, locked, kept, run>>
  PROVE  IInv'
<1>1. TypeOK'
  BY DEF IInv, TypeOK, personaVars, versionVars
<1>2. RowsOk' /\ PointersOk' /\ ReadyOk' /\ LabelIsCurrent'
  BY DEF IInv, RowsOk, PointersOk, ReadyOk, LabelIsCurrent, Exists, personaVars, versionVars
<1>3. RunsOk' /\ LocksOk' /\ WorkOk'
  BY DEF IInv, RunsOk, LocksOk, WorkOk, Exists, personaVars, versionVars
<1> QED
  BY <1>1, <1>2, <1>3 DEF IInv

\* What searching does to the searches.
LEMMA SearchRow ==
  ASSUME IInv, ReadersOk, NEW a \in Reader, Search(a)
  PROVE  /\ reader' \in [Reader -> ReaderRow]
         /\ ReadersOk'
         /\ UNCHANGED <<personaVars, versionVars, up, locked, kept, run>>
<1> DEFINE Fine == /\ reader' \in [Reader -> ReaderRow]
                  /\ ReadersOk'
                  /\ UNCHANGED <<personaVars, versionVars, up, locked, kept, run>>
<1>1. reader \in [Reader -> ReaderRow] /\ IdleReader \in ReaderRow
  BY MaterialAssumption DEF IInv, TypeOK, IdleReader, ReaderRow
<1>2. ASSUME NEW x \in ReaderRow, reader' = [reader EXCEPT ![a] = x],
             x.pc \in {"accepted", "loaded", "body"} => x.version \in Version
      PROVE  reader' \in [Reader -> ReaderRow] /\ ReadersOk'
  BY <1>1, <1>2 DEF ReadersOk
<1>3. ASSUME NEW p \in Persona, AcceptQuestion(a, p)
      PROVE  Fine
  <2> DEFINE x == [IdleReader EXCEPT !.pc = "accepted", !.persona = p,
                     !.version = active[p], !.asked = sources[active[p]], !.row = "active"]
  <2>1. active[p] \in Version /\ sources[active[p]] \in SUBSET Source
    BY <1>3 DEF IInv, TypeOK, AcceptQuestion
  <2>2. x \in ReaderRow /\ x.version \in Version
    BY <1>1, <2>1 DEF ReaderRow
  <2> QED
    BY <1>2, <1>3, <2>2 DEF AcceptQuestion
<1>4. ASSUME NEW p \in Persona, LoadIndexedVersion(a, p)
      PROVE  Fine
  <2>1. PICK v \in Version :
          /\ indexed[v] \in 0 .. MaxRevision
          /\ reader' = [reader EXCEPT ![a] =
               [IdleReader EXCEPT !.pc = "loaded", !.persona = p, !.version = v,
                                  !.label = indexed[v]]]
    <3> DEFINE w == IF active[p] # Nothing THEN active[p] ELSE draft[p]
    <3>1. w \in Version
      BY <1>4 DEF LoadIndexedVersion, Exists
    <3>2. indexed[w] \in 0 .. MaxRevision
      BY <3>1 DEF IInv, TypeOK
    <3>3. reader' = [reader EXCEPT ![a] =
            [IdleReader EXCEPT !.pc = "loaded", !.persona = p, !.version = w,
                               !.label = indexed[w]]]
      BY <1>4 DEF LoadIndexedVersion
    <3> QED
      BY <3>1, <3>2, <3>3
  <2> DEFINE x == [IdleReader EXCEPT !.pc = "loaded", !.persona = p, !.version = v,
                                     !.label = indexed[v]]
  <2>2. x \in ReaderRow /\ x.version \in Version
    BY <1>1, <2>1 DEF ReaderRow
  <2> QED
    BY <1>2, <1>4, <2>1, <2>2 DEF LoadIndexedVersion
<1>5. ASSUME LoadIndexedRevision(a)
      PROVE  Fine
  <2>1. reader[a].version \in Version /\ indexed[reader[a].version] \in 0 .. MaxRevision
    BY <1>5 DEF IInv, TypeOK, ReadersOk, LoadIndexedRevision
  <2>2. PICK pc \in {"loaded", "failed"} :
          reader' = [reader EXCEPT ![a] =
            [@ EXCEPT !.pc = pc, !.label = indexed[reader[a].version]]]
    BY <1>5, <1>1 DEF LoadIndexedRevision
  <2> DEFINE x == [reader[a] EXCEPT !.pc = pc, !.label = indexed[reader[a].version]]
  <2>3. x \in ReaderRow /\ x.version \in Version
    BY <1>1, <2>1 DEF ReaderRow
  <2> QED
    BY <1>2, <1>5, <2>2, <2>3 DEF LoadIndexedRevision
<1>6. ASSUME SearchBody(a)
      PROVE  Fine
  <2>1. reader[a].version \in Version /\ chunks[reader[a].version] \in SUBSET Source
    BY <1>6 DEF IInv, TypeOK, ReadersOk, SearchBody
  <2> DEFINE x == [reader[a] EXCEPT !.pc = "body", !.body = chunks[reader[a].version]]
  <2>2. x \in ReaderRow /\ x.version \in Version
    BY <1>1, <2>1 DEF ReaderRow
  <2>3. reader' = [reader EXCEPT ![a] = x]
    BY <1>1, <1>6 DEF SearchBody, ReaderRow
  <2> QED
    BY <1>2, <1>6, <2>2, <2>3 DEF SearchBody
<1>7. ASSUME SearchSpeech(a)
      PROVE  Fine
  <2>1. reader[a].version \in Version /\ chunks[reader[a].version] \in SUBSET Source
    BY <1>7 DEF IInv, TypeOK, ReadersOk, SearchSpeech
  <2> DEFINE x == [reader[a] EXCEPT !.pc = "found", !.speech = chunks[reader[a].version]]
  <2>2. x \in ReaderRow /\ x.pc = "found"
    BY <1>1, <2>1 DEF ReaderRow
  <2>3. reader' = [reader EXCEPT ![a] = x]
    BY <1>1, <1>7 DEF SearchSpeech, ReaderRow
  <2> QED
    BY <1>2, <1>7, <2>2, <2>3 DEF SearchSpeech
<1>8. ASSUME GiveUp(a)
      PROVE  Fine
  <2> DEFINE x == [reader[a] EXCEPT !.row = "over"]
  <2>1. x \in ReaderRow /\ x.pc = reader[a].pc /\ x.version = reader[a].version
    BY <1>1 DEF ReaderRow
  <2>2. reader' = [reader EXCEPT ![a] = x]
    BY <1>1, <1>8 DEF GiveUp, ReaderRow
  <2> QED
    BY <1>2, <1>8, <2>1, <2>2 DEF GiveUp, ReadersOk
<1>9. ASSUME FinishSearch(a)
      PROVE  Fine
  BY <1>1, <1>2, <1>9 DEF FinishSearch, IdleReader
<1> QED
  BY <1>3, <1>4, <1>5, <1>6, <1>7, <1>8, <1>9 DEF Search

LEMMA NextInv ==
  ASSUME IInv, ReadersOk, [Next]_vars
  PROVE  IInv' /\ ReadersOk'
<1>1. CASE UNCHANGED vars
  <2>1. reader' \in [Reader -> ReaderRow] /\ ReadersOk'
    BY <1>1 DEF IInv, TypeOK, ReadersOk, vars
  <2> QED
    BY <1>1, <2>1, QuietInv DEF vars, personaVars, versionVars
<1>2. ASSUME NEW a \in Reader, Search(a)
      PROVE  IInv' /\ ReadersOk'
  BY <1>2, SearchRow, QuietInv
<1>3. ASSUME NEW p \in Persona, Request(p) \/ FreeKept(p)
      PROVE  IInv' /\ ReadersOk'
  <2>1. IInv'
    BY <1>3, CreateDraftInv, PatchDraftInv, DiscardDraftInv, DeletePersonaInv,
       ActivateDraftInv, StartIndexingInv, StartIndexingFailsInv, FreeKeptInv DEF Request
  <2>2. CASE DeletePersona(p)
    <3>1. \A a \in Reader : reader'[a].pc = reader[a].pc /\ reader'[a].version = reader[a].version
      BY <2>2 DEF IInv, TypeOK, ReaderRow, DeletePersona
    <3> QED
      BY <2>1, <3>1 DEF ReadersOk
  <2>3. CASE reader' = reader
    BY <2>1, <2>3 DEF ReadersOk
  <2> QED
    BY <1>3, <2>2, <2>3 DEF Request, CreateDraft, PatchDraft, DiscardDraft,
       ActivateDraft, StartIndexing, StartIndexingFails, FreeKept
<1>4. ASSUME NEW r \in Run, RunStep(r) \/ LoseSession(r)
      PROVE  IInv' /\ ReadersOk'
  <2>1. IInv'
    BY <1>4, LoadSourcesInv, EmbedInv, CommitInv, StatementFailsInv, MarkFailedInv,
       MarkFailedFailsInv, EndRunInv, LoseSessionInv DEF RunStep
  <2>2. reader' = reader
    BY <1>4 DEF RunStep, LoadSources, Embed, Commit, StatementFails, MarkFailed,
       MarkFailedFails, EndRun, LoseSession
  <2> QED
    BY <2>1, <2>2 DEF ReadersOk
<1>5. ASSUME NEW i \in Process, Crash(i) \/ Start(i)
      PROVE  IInv' /\ ReadersOk'
  <2>1. IInv'
    BY <1>5, CrashInv, StartInv
  <2>2. reader' = reader
    BY <1>5 DEF Crash, Start
  <2> QED
    BY <2>1, <2>2 DEF ReadersOk
<1> QED
  BY <1>1, <1>2, <1>3, <1>4, <1>5 DEF Next

-----------------------------------------------------------------------------
(* What is not the draft does not change.                                  *)

Kept(v) ==
  /\ chunks'[v] = chunks[v] /\ sources'[v] = sources[v]
  /\ status'[v] = status[v] /\ indexed'[v] = indexed[v]

\* Only the draft of a persona is written; a version that is not the draft of
\* its persona never becomes it again.
LEMMA StepFreezes ==
  ASSUME IInv, [Next]_vars,
         NEW v \in Version, Exists(v), draft[of[v]] # v, live'[of[v]]
  PROVE  Kept(v) /\ of'[v] = of[v] /\ draft'[of[v]] # v
<1> DEFINE Same == Kept(v) /\ of'[v] = of[v] /\ draft'[of[v]] # v
<1>0. of[v] \in Persona /\ status[v] = "ready" /\ v # Nothing
  BY MaterialAssumption DEF IInv, RowsOk, ReadyOk, Version
<1>1. CASE UNCHANGED <<personaVars, versionVars>>
  BY <1>1 DEF Kept, personaVars, versionVars
<1>2. ASSUME NEW p \in Persona, CreateDraft(p)
      PROVE  Same
  BY <1>0, <1>2 DEF IInv, TypeOK, CreateDraft, Kept
<1>3. ASSUME NEW p \in Persona, PatchDraft(p)
      PROVE  Same
  <2>1. v # draft[p]
    BY <1>3 DEF IInv, PointersOk, PatchDraft, HasDraft
  <2> QED
    BY <1>3, <2>1 DEF IInv, TypeOK, PatchDraft, Kept, personaVars
<1>4. ASSUME NEW p \in Persona, DiscardDraft(p)
      PROVE  Same
  <2>1. v # draft[p]
    BY <1>4 DEF IInv, PointersOk, DiscardDraft, HasDraft
  <2> QED
    BY <1>0, <1>4, <2>1 DEF IInv, TypeOK, DiscardDraft, Kept
<1>5. ASSUME NEW p \in Persona, NEW n \in Revision, ActivateDraft(p, n)
      PROVE  Same
  BY <1>0, <1>5 DEF IInv, TypeOK, ActivateDraft, Kept, versionVars
<1>6. ASSUME NEW p \in Persona, DeletePersona(p)
      PROVE  Same
  <2>1. of[v] # p
    BY <1>6 DEF IInv, TypeOK, DeletePersona
  <2> QED
    BY <1>0, <1>6, <2>1 DEF IInv, TypeOK, DeletePersona, Kept
<1>7. ASSUME NEW i \in Process, NEW p \in Persona, NEW r \in Run, StartIndexing(i, p, r)
      PROVE  Same
  <2>1. v # draft[p]
    BY <1>7 DEF IInv, PointersOk, StartIndexing, HasDraft
  <2> QED
    BY <1>7, <2>1 DEF IInv, TypeOK, StartIndexing, Kept, personaVars
<1>8. ASSUME NEW r \in Run, Commit(r)
      PROVE  Same
  <2>1. v # run[r].version
    BY <1>8 DEF IInv, RunsOk, WorkOk, Commit, InTime, Writing
  <2> QED
    BY <1>8, <2>1 DEF IInv, TypeOK, Commit, Kept, personaVars
<1>9. ASSUME NEW r \in Run, MarkFailed(r)
      PROVE  Same
  <2>1. v # run[r].version
    BY <1>9 DEF IInv, RunsOk, WorkOk, MarkFailed, InTime
  <2> QED
    BY <1>9, <2>1 DEF IInv, TypeOK, MarkFailed, Kept, personaVars
<1>10. ASSUME NEW i \in Process, Start(i)
       PROVE  Same
  BY <1>0, <1>10 DEF IInv, TypeOK, Start, Kept, personaVars
<1>11. ASSUME NEW r \in Run,
              \/ LoadSources(r) \/ Embed(r) \/ StatementFails(r)
              \/ MarkFailedFails(r) \/ EndRun(r) \/ LoseSession(r)
       PROVE  Same
  BY <1>1, <1>11 DEF LoadSources, Embed, StatementFails, MarkFailedFails, EndRun,
     LoseSession
<1>12. ASSUME NEW i \in Process, Crash(i)
       PROVE  Same
  BY <1>1, <1>12 DEF Crash
<1>15. ASSUME NEW p \in Persona,
              FreeKept(p) \/ \E i \in Process : StartIndexingFails(i, p)
       PROVE  Same
  BY <1>1, <1>15 DEF FreeKept, StartIndexingFails
<1>13. ASSUME NEW a \in Reader, Search(a)
       PROVE  Same
  BY <1>1, <1>13 DEF Search, AcceptQuestion, LoadIndexedVersion, LoadIndexedRevision,
     SearchBody, SearchSpeech, GiveUp, FinishSearch
<1>14. CASE UNCHANGED vars
  BY <1>1, <1>14 DEF vars, personaVars, versionVars
<1> QED
  BY <1>2, <1>3, <1>4, <1>5, <1>6, <1>7, <1>8, <1>9, <1>10, <1>11, <1>12, <1>13, <1>14,
     <1>15 DEF Next, Request, RunStep

-----------------------------------------------------------------------------
(* The theorems.                                                           *)

LEMMA InvAlways == Spec => [](IInv /\ ReadersOk)
<1>1. Init => IInv /\ ReadersOk
  BY InitInv DEF FullInv
<1>2. IInv /\ ReadersOk /\ [Next]_vars => (IInv /\ ReadersOk)'
  BY NextInv
<1> QED
  BY <1>1, <1>2, PTL DEF Spec

\* The rows, runs and searches have their types in every reachable state.
THEOREM TypeCorrect == Spec => []TypeOK
<1>1. IInv => TypeOK
  BY DEF IInv
<1> QED
  BY <1>1, InvAlways, PTL

\* Nothing of an applied version is missing from its chunks, and nothing that
\* was removed from it is left, however edits, runs and failures interleave.
THEOREM AppliedAlwaysIndexed == Spec => []AppliedIsIndexed
<1>1. IInv => AppliedIsIndexed
  BY MaterialAssumption DEF IInv, TypeOK, AppliedIsIndexed, PointersOk, ReadyOk,
     LabelIsCurrent
<1> QED
  BY <1>1, InvAlways, PTL

\* A label that names the current revision is the truth.
THEOREM LabelAlwaysCurrent == Spec => []LabelIsCurrent
<1>1. IInv => LabelIsCurrent
  BY DEF IInv
<1> QED
  BY <1>1, InvAlways, PTL

\* No run outlives its persona with the power to write.
THEOREM RunsOfTheLiving == Spec => []NoRunOfDeleted
<1>1. IInv => NoRunOfDeleted
  BY DEF IInv, NoRunOfDeleted, WorkOk, InTime
<1> QED
  BY <1>1, InvAlways, PTL

\* What was applied once stays as it is.
THEOREM AppliedStaysFrozen == Spec => FrozenOnceApplied
<1>1. IInv /\ [Next]_vars =>
        [\A v \in Version :
           Exists(v) /\ draft[of[v]] # v /\ live'[of[v]] =>
             /\ chunks'[v] = chunks[v] /\ sources'[v] = sources[v]
             /\ status'[v] = status[v] /\ indexed'[v] = indexed[v]]_vars
  BY StepFreezes DEF Kept
<1> QED
  BY <1>1, InvAlways, PTL DEF Spec, FrozenOnceApplied

-----------------------------------------------------------------------------
(* The searches.                                                           *)

\* What an answer that counts has seen is what it asked for.
SeenOk(a) ==
  LET v == reader[a].version IN
  /\ reader[a].persona \in Persona /\ live[reader[a].persona]
  /\ v \in Version /\ Exists(v) /\ of[v] = reader[a].persona
  /\ draft[of[v]] # v
  /\ reader[a].asked = sources[v]
  /\ reader[a].pc \in {"body", "found"} => reader[a].body = reader[a].asked
  /\ reader[a].pc = "found" => reader[a].speech = reader[a].asked

LEMMA SearchOkByReader == SearchOk <=> \A a \in Reader : reader[a].row = "active" => SeenOk(a)
BY DEF SearchOk, SeenOk

\* A step that leaves the search alone leaves what it has seen right.
LEMMA SeenStays ==
  ASSUME IInv, [Next]_vars, NEW a \in Reader, SeenOk(a),
         live'[reader[a].persona], reader'[a] = reader[a]
  PROVE  SeenOk(a)'
<1> DEFINE v == reader[a].version
<1>1. Kept(v) /\ of'[v] = of[v] /\ draft'[of[v]] # v
  BY StepFreezes DEF SeenOk
<1> QED
  BY <1>1 DEF SeenOk, Kept, Exists

LEMMA ChunksOfFrozen ==
  ASSUME IInv, NEW v \in Version, Exists(v), draft[of[v]] # v
  PROVE  chunks[v] = sources[v] /\ sources[v] # {}
BY DEF IInv, ReadyOk, LabelIsCurrent

LEMMA SearchOkNext ==
  ASSUME FullInv, [Next]_vars
  PROVE  SearchOk'
<1>0. reader \in [Reader -> ReaderRow] /\ IInv /\ ReadersOk
  BY DEF FullInv, IInv, TypeOK
<1>1. ASSUME NEW b \in Reader, Search(b)
      PROVE  SearchOk'
  <2>0. UNCHANGED <<personaVars, versionVars>>
    BY <1>0, <1>1, SearchRow
  <2>1. \A a \in Reader \ {b} : reader'[a] = reader[a]
    BY <1>0, <1>1 DEF Search, AcceptQuestion, LoadIndexedVersion, LoadIndexedRevision,
       SearchBody, SearchSpeech, GiveUp, FinishSearch
  <2>2. \A a \in Reader \ {b} : reader[a].row = "active" => SeenOk(a)'
    <3> TAKE a \in Reader \ {b}
    <3>1. HAVE reader[a].row = "active"
    <3>2. SeenOk(a)
      BY <3>1, SearchOkByReader DEF FullInv
    <3>3. live'[reader[a].persona]
      BY <2>0, <3>2 DEF SeenOk, personaVars
    <3> QED
      BY <1>0, <2>1, <3>2, <3>3, SeenStays
  <2>3. ASSUME NEW p \in Persona, AcceptQuestion(b, p)
        PROVE  SeenOk(b)'
    <3>1. active[p] \in Version /\ Exists(active[p]) /\ of[active[p]] = p /\ draft[p] # active[p]
      BY <1>0, <2>3 DEF IInv, TypeOK, PointersOk, AcceptQuestion
    <3>2. /\ reader'[b].pc = "accepted" /\ reader'[b].persona = p
          /\ reader'[b].version = active[p] /\ reader'[b].asked = sources[active[p]]
      BY <1>0, <2>3 DEF AcceptQuestion, IdleReader
    <3> QED
      BY <2>0, <2>3, <3>1, <3>2 DEF SeenOk, AcceptQuestion, Exists, personaVars, versionVars
  <2>4. ASSUME reader[b].row = "active",
               LoadIndexedRevision(b) \/ SearchBody(b) \/ SearchSpeech(b)
        PROVE  SeenOk(b)'
    <3> DEFINE v == reader[b].version
    <3>1. SeenOk(b)
      BY <2>4, SearchOkByReader DEF FullInv
    <3>2. chunks[v] = reader[b].asked
      BY <1>0, <3>1, ChunksOfFrozen DEF SeenOk
    <3>3. /\ reader'[b].version = v /\ reader'[b].persona = reader[b].persona
          /\ reader'[b].asked = reader[b].asked
      BY <1>0, <2>4 DEF LoadIndexedRevision, SearchBody, SearchSpeech, ReaderRow
    <3>4. CASE LoadIndexedRevision(b)
      <4>1. reader'[b].pc \in {"loaded", "failed"}
        BY <1>0, <3>4 DEF LoadIndexedRevision, ReaderRow
      <4> QED
        BY <2>0, <3>1, <3>3, <4>1 DEF SeenOk, Exists, personaVars, versionVars
    <3>5. CASE SearchBody(b)
      <4>1. reader'[b].pc = "body" /\ reader'[b].body = chunks[v]
        BY <1>0, <3>5 DEF SearchBody, ReaderRow
      <4> QED
        BY <2>0, <3>1, <3>2, <3>3, <4>1 DEF SeenOk, Exists, personaVars, versionVars
    <3>6. CASE SearchSpeech(b)
      <4>1. /\ reader[b].pc = "body" /\ reader'[b].body = reader[b].body
            /\ reader'[b].pc = "found" /\ reader'[b].speech = chunks[v]
        BY <1>0, <3>6 DEF SearchSpeech, ReaderRow
      <4> QED
        BY <2>0, <3>1, <3>2, <3>3, <4>1 DEF SeenOk, Exists, personaVars, versionVars
    <3> QED
      BY <2>4, <3>4, <3>5, <3>6
  <2>5. ASSUME NEW p \in Persona, LoadIndexedVersion(b, p) \/ GiveUp(b) \/ FinishSearch(b)
        PROVE  reader'[b].row # "active"
    <3>1. CASE GiveUp(b) \/ FinishSearch(b)
      BY <1>0, <3>1 DEF GiveUp, FinishSearch, IdleReader, ReaderRow
    <3>2. CASE LoadIndexedVersion(b, p)
      <4>1. PICK v, l : reader'[b] = [IdleReader EXCEPT !.pc = "loaded", !.persona = p,
                                                        !.version = v, !.label = l]
        BY <1>0, <3>2 DEF LoadIndexedVersion
      <4> QED
        BY <4>1 DEF IdleReader
    <3> QED
      BY <2>5, <3>1, <3>2
  <2>6. LoadIndexedRevision(b) \/ SearchBody(b) \/ SearchSpeech(b)
          => reader'[b].row = reader[b].row
    BY <1>0 DEF LoadIndexedRevision, SearchBody, SearchSpeech, ReaderRow
  <2>7. reader'[b].row = "active" => SeenOk(b)'
    <3>1. CASE \E p \in Persona : AcceptQuestion(b, p) \/ LoadIndexedVersion(b, p)
      BY <2>3, <2>5, <3>1
    <3>2. CASE LoadIndexedRevision(b) \/ SearchBody(b) \/ SearchSpeech(b)
      BY <2>4, <2>6, <3>2
    <3>3. CASE GiveUp(b) \/ FinishSearch(b)
      BY <1>0, <3>3 DEF GiveUp, FinishSearch, IdleReader, ReaderRow
    <3> QED
      BY <1>1, <3>1, <3>2, <3>3 DEF Search
  <2> QED
    BY <2>1, <2>2, <2>7 DEF SearchOk, SeenOk
<1>2. ASSUME NEW p \in Persona, DeletePersona(p)
      PROVE  SearchOk'
  <2>1. ASSUME NEW a \in Reader, reader'[a].row = "active"
        PROVE  SeenOk(a)'
    <3>1. reader'[a] = reader[a]
      BY <1>0, <1>2, <2>1 DEF DeletePersona, ReaderRow
    <3>2. SeenOk(a) /\ reader[a].persona # p
      BY <1>2, <2>1, <3>1, SearchOkByReader DEF FullInv, DeletePersona, Busy
    <3>3. live'[reader[a].persona]
      BY <1>0, <1>2, <3>2 DEF SeenOk, DeletePersona, IInv, TypeOK
    <3> QED
      BY <1>0, <3>1, <3>2, <3>3, SeenStays
  <2> QED
    BY <2>1 DEF SearchOk, SeenOk
<1>3. CASE reader' = reader /\ live' = live
  <2>1. ASSUME NEW a \in Reader, reader'[a].row = "active"
        PROVE  SeenOk(a)'
    <3>1. SeenOk(a)
      BY <1>3, <2>1, SearchOkByReader DEF FullInv
    <3>2. live'[reader[a].persona]
      BY <1>3, <3>1 DEF SeenOk
    <3> QED
      BY <1>0, <1>3, <3>1, <3>2, SeenStays
  <2> QED
    BY <2>1 DEF SearchOk, SeenOk
<1>4. ASSUME NEW p \in Persona, Request(p) \/ FreeKept(p), ~DeletePersona(p)
      PROVE  reader' = reader /\ live' = live
  BY <1>4 DEF Request, CreateDraft, PatchDraft, DiscardDraft, ActivateDraft,
     StartIndexing, StartIndexingFails, FreeKept, personaVars
<1>5. ASSUME NEW r \in Run, RunStep(r) \/ LoseSession(r)
      PROVE  reader' = reader /\ live' = live
  BY <1>5 DEF RunStep, LoadSources, Embed, Commit, StatementFails, MarkFailed,
     MarkFailedFails, EndRun, LoseSession, personaVars
<1>6. ASSUME NEW i \in Process, Crash(i) \/ Start(i)
      PROVE  reader' = reader /\ live' = live
  BY <1>6 DEF Crash, Start, personaVars
<1>7. CASE UNCHANGED vars
  BY <1>3, <1>7 DEF vars
<1> QED
  BY <1>1, <1>2, <1>3, <1>4, <1>5, <1>6, <1>7 DEF Next

\* An answer is drawn from the one material it was asked of.
THEOREM AnswersFromOneMaterial == Spec => []AnswerFromOneMaterial
<1>1. Init => FullInv
  BY InitInv
<1>2. FullInv /\ [Next]_vars => FullInv'
  BY NextInv, SearchOkNext DEF FullInv
<1>3. FullInv => AnswerFromOneMaterial
  BY DEF FullInv, SearchOk, AnswerFromOneMaterial
<1> QED
  BY <1>1, <1>2, <1>3, PTL DEF Spec

-----------------------------------------------------------------------------
(* The promise.                                                            *)

W == [p \in Persona |-> Written(p)]
S == [p \in Persona |-> Served(p)]

\* What is served changes only when a draft is activated or a persona deleted.
LEMMA ServedStays ==
  ASSUME IInv, [Next]_vars, NEW p \in Persona, active'[p] = active[p], live'[p]
  PROVE  Served(p)' = Served(p)
<1>1. CASE active[p] = Nothing
  BY <1>1 DEF Served
<1>2. CASE active[p] # Nothing
  <2>1. active[p] \in Version /\ Exists(active[p]) /\ of[active[p]] = p /\ draft[p] # active[p]
    BY <1>2 DEF IInv, TypeOK, PointersOk
  <2>2. chunks'[active[p]] = chunks[active[p]]
    BY <2>1, StepFreezes DEF Kept
  <2> QED
    BY <2>2 DEF Served, Material
<1> QED
  BY <1>1, <1>2

LEMMA WrittenStays ==
  ASSUME NEW p \in Persona, draft'[p] = draft[p],
         draft[p] # Nothing => sources'[draft[p]] = sources[draft[p]]
  PROVE  Written(p)' = Written(p)
BY DEF Written, Material

LEMMA CopyIsSame ==
  ASSUME NEW v \in Version, TypeOK
  PROVE  Material(CopyOf(v)) = Material(sources[v])
<1>1. sources[v] \subseteq Source
  BY DEF TypeOK
<1>2. \A s \in Source : [s EXCEPT !.at = 1].id = s.id /\ [s EXCEPT !.at = 1].text = s.text
  BY DEF Source
<1> DEFINE T == {[s EXCEPT !.at = 1] : s \in sources[v]}
           Cut(s) == [id |-> s.id, text |-> s.text]
<1>3. \A s \in sources[v] : Cut([s EXCEPT !.at = 1]) = Cut(s)
  BY <1>1, <1>2
<1> HIDE DEF Cut
<1>4. {Cut(s) : s \in T} = {Cut(s) : s \in sources[v]}
  BY <1>3
<1> QED
  BY <1>4 DEF Material, CopyOf, Cut

\* Outside the requests that are named here, nothing is promised to change.
LEMMA QuietPromise ==
  ASSUME IInv, [Next]_vars, live' = live, draft' = draft, active' = active, sources' = sources
  PROVE  UNCHANGED <<W, S>>
<1>1. \A p \in Persona : Written(p)' = Written(p)
  BY WrittenStays
<1>2. \A p \in Persona : active[p] # Nothing => live[p]
  BY DEF IInv, PointersOk, RowsOk, TypeOK
<1>3. \A p \in Persona : active[p] # Nothing => Served(p)' = Served(p)
  BY <1>2, ServedStays
<1>4. \A p \in Persona : active[p] = Nothing => Served(p)' = Served(p)
  BY DEF Served
<1> QED
  BY <1>1, <1>3, <1>4 DEF W, S

\* While no persona is deleted and none is activated, what is served stays.
LEMMA ServedAllStay ==
  ASSUME IInv, [Next]_vars, live' = live, active' = active
  PROVE  S' = S
<1>1. \A p \in Persona : active[p] # Nothing => live[p]
  BY DEF IInv, PointersOk, RowsOk, TypeOK
<1>2. \A p \in Persona : active[p] # Nothing => Served(p)' = Served(p)
  BY <1>1, ServedStays
<1>3. \A p \in Persona : active[p] = Nothing => Served(p)' = Served(p)
  BY DEF Served
<1> QED
  BY <1>2, <1>3 DEF S

LEMMA CreateBegins ==
  ASSUME IInv, NEW p \in Persona, CreateDraft(p)
  PROVE  Promise!Next
<1>0. TypeOK /\ [Next]_vars
  BY DEF IInv, Next, Request
<1>1. S' = S
  BY <1>0, ServedAllStay DEF CreateDraft
<1>2. PICK v \in Version, base \in {Nothing, active[p]} :
        /\ status[v] = "unborn"
        /\ draft' = [draft EXCEPT ![p] = v]
        /\ sources' = [sources EXCEPT ![v] = IF base = Nothing THEN {} ELSE CopyOf(base)]
  BY DEF CreateDraft
<1>3. v # Nothing
  BY MaterialAssumption DEF Version
<1>4. \A q \in Persona \ {p} : Written(q)' = Written(q)
  <2>1. \A q \in Persona \ {p} : draft'[q] = draft[q]
    BY <1>0, <1>2 DEF TypeOK
  <2>2. \A q \in Persona \ {p} : draft[q] # Nothing => draft[q] # v /\ draft[q] \in Version
    BY <1>2 DEF IInv, TypeOK, PointersOk, Exists, RowStatuses
  <2>3. \A w \in Version \ {v} : sources'[w] = sources[w]
    BY <1>0, <1>2 DEF TypeOK
  <2> QED
    BY <2>1, <2>2, <2>3, WrittenStays
<1>5. PICK m \in {{}} \cup Served(p) : Written(p)' = {m}
  <2>1. Written(p)' = {Material(sources'[v])}
    BY <1>0, <1>2, <1>3 DEF TypeOK, Written, Material
  <2>2. CASE base = Nothing
    <3>1. sources'[v] = {}
      BY <1>0, <1>2, <2>2 DEF TypeOK
    <3> QED
      BY <2>1, <3>1 DEF Material
  <2>3. CASE base # Nothing
    <3>1. base = active[p] /\ base \in Version /\ Exists(base) /\ of[base] = p /\ draft[p] # base
      BY <2>3 DEF IInv, TypeOK, PointersOk
    <3>2. sources'[v] = CopyOf(base)
      BY <1>0, <1>2, <2>3 DEF TypeOK
    <3>3. Material(sources'[v]) = Material(chunks[base])
      BY <1>0, <3>1, <3>2, CopyIsSame, ChunksOfFrozen
    <3>4. Material(chunks[base]) \in Served(p)
      BY <2>3, <3>1 DEF Served
    <3> QED
      BY <2>1, <3>3, <3>4
  <2> QED
    BY <2>2, <2>3
<1>6. Written(p) = {}
  BY DEF CreateDraft, Written
<1>7. W' = [W EXCEPT ![p] = {m}]
  BY <1>4, <1>5 DEF W
<1> QED
  BY <1>1, <1>5, <1>6, <1>7 DEF Promise!Next, Promise!Begin, W, S

LEMMA PatchEdits ==
  ASSUME IInv, IInv', NEW p \in Persona, PatchDraft(p)
  PROVE  Promise!Next
<1>0. TypeOK /\ TypeOK' /\ [Next]_vars
  BY DEF IInv, Next, Request
<1>1. S' = S
  BY <1>0, ServedAllStay DEF PatchDraft, personaVars
<1>2. draft[p] \in Version /\ draft[p] # Nothing /\ draft' = draft
  BY <1>0 DEF TypeOK, PatchDraft, HasDraft, personaVars
<1>3. \A q \in Persona \ {p} : Written(q)' = Written(q)
  <2>1. \A q \in Persona \ {p} : draft[q] # Nothing => draft[q] # draft[p] /\ draft[q] \in Version
    BY <1>2 DEF IInv, TypeOK, PointersOk
  <2>2. \A w \in Version \ {draft[p]} : sources'[w] = sources[w]
    BY <1>0 DEF TypeOK, PatchDraft
  <2> QED
    BY <1>2, <2>1, <2>2, WrittenStays
<1>4. Written(p)' = {Material(sources'[draft[p]])}
  BY <1>2 DEF Written, Material
<1>5. Material(sources'[draft[p]]) \subseteq Piece
  BY <1>0, <1>2 DEF TypeOK, Material, Source, Piece
<1>6. Written(p) # {}
  BY <1>2 DEF Written
<1>7. W' = [W EXCEPT ![p] = {Material(sources'[draft[p]])}]
  BY <1>3, <1>4 DEF W
<1> QED
  BY <1>1, <1>4, <1>5, <1>6, <1>7 DEF Promise!Next, Promise!Edit, W, S

LEMMA DiscardDrops ==
  ASSUME IInv, NEW p \in Persona, DiscardDraft(p)
  PROVE  Promise!Next
<1>0. TypeOK /\ [Next]_vars
  BY DEF IInv, Next, Request
<1>1. S' = S
  BY <1>0, ServedAllStay DEF DiscardDraft
<1>2. \A q \in Persona \ {p} : Written(q)' = Written(q)
  <2>1. \A q \in Persona \ {p} : draft[q] # Nothing => draft[q] # draft[p] /\ draft[q] \in Version
    BY DEF IInv, TypeOK, PointersOk, DiscardDraft, HasDraft
  <2>2. \A w \in Version \ {draft[p]} : sources'[w] = sources[w]
    BY <1>0 DEF TypeOK, DiscardDraft
  <2>3. \A q \in Persona \ {p} : draft'[q] = draft[q]
    BY <1>0 DEF TypeOK, DiscardDraft
  <2> QED
    BY <2>1, <2>2, <2>3, WrittenStays
<1>3. Written(p) # {} /\ Written(p)' = {}
  BY <1>0 DEF Written, DiscardDraft, HasDraft, TypeOK
<1>4. W' = [W EXCEPT ![p] = {}]
  BY <1>2, <1>3 DEF W
<1> QED
  BY <1>1, <1>3, <1>4 DEF Promise!Next, Promise!Drop, W, S

LEMMA ActivateApplies ==
  ASSUME IInv, NEW p \in Persona, NEW n \in Revision, ActivateDraft(p, n)
  PROVE  Promise!Next
<1>0. TypeOK /\ [Next]_vars
  BY DEF IInv, Next, Request
<1>1. HasDraft(p) /\ status[draft[p]] = "ready" /\ draft[p] \in Version /\ Exists(draft[p])
  BY DEF IInv, TypeOK, ActivateDraft, Activation, HasDraft, Exists, RowStatuses
<1>2. chunks[draft[p]] = sources[draft[p]] /\ sources[draft[p]] # {}
  BY <1>1 DEF IInv, ReadyOk, LabelIsCurrent
<1>3. \A q \in Persona \ {p} : Written(q)' = Written(q) /\ Served(q)' = Served(q)
  BY <1>0 DEF TypeOK, ActivateDraft, versionVars, Written, Served, Material
<1>4. Written(p)' = {} /\ Served(p)' = Written(p)
  BY <1>0, <1>1, <1>2 DEF TypeOK, ActivateDraft, versionVars, Written, Served, Material,
     HasDraft
<1>5. \E m \in Written(p) : m # {}
  <2>1. PICK s : s \in sources[draft[p]]
    BY <1>2
  <2>2. [id |-> s.id, text |-> s.text] \in Material(sources[draft[p]])
    BY <2>1 DEF Material
  <2>3. Material(sources[draft[p]]) \in Written(p)
    BY <1>1 DEF Written, HasDraft
  <2> QED
    BY <2>2, <2>3
<1>6. W' = [W EXCEPT ![p] = {}] /\ S' = [S EXCEPT ![p] = W[p]]
  BY <1>3, <1>4 DEF W, S
<1> QED
  BY <1>5, <1>6 DEF Promise!Next, Promise!Apply, W, S

LEMMA DeleteDeletes ==
  ASSUME IInv, NEW p \in Persona, DeletePersona(p)
  PROVE  Promise!Next
<1>0. TypeOK
  BY DEF IInv
<1>1. \A q \in Persona \ {p} : draft'[q] = draft[q] /\ active'[q] = active[q]
  BY <1>0 DEF TypeOK, DeletePersona
<1>2. \A q \in Persona \ {p} :
        /\ draft[q] # Nothing => sources'[draft[q]] = sources[draft[q]]
        /\ active[q] # Nothing => chunks'[active[q]] = chunks[active[q]]
  BY DEF IInv, TypeOK, PointersOk, DeletePersona
<1>3. \A q \in Persona \ {p} : Written(q)' = Written(q) /\ Served(q)' = Served(q)
  BY <1>1, <1>2 DEF Written, Served, Material
<1>4. Written(p)' = {} /\ Served(p)' = {}
  BY <1>0 DEF TypeOK, DeletePersona, Written, Served
<1>5. W' = [W EXCEPT ![p] = {}] /\ S' = [S EXCEPT ![p] = {}]
  BY <1>3, <1>4 DEF W, S
<1> QED
  BY <1>5 DEF Promise!Next, Promise!Delete, W, S

LEMMA PromiseSimulates ==
  ASSUME IInv, IInv', [Next]_vars
  PROVE  Promise!Next \/ UNCHANGED <<W, S>>
<1>1. ASSUME UNCHANGED <<personaVars, sources>>
      PROVE  UNCHANGED <<W, S>>
  BY <1>1, QuietPromise DEF personaVars
<1>2. ASSUME NEW p \in Persona, Request(p) \/ FreeKept(p)
      PROVE  Promise!Next \/ UNCHANGED <<W, S>>
  BY <1>1, <1>2, CreateBegins, PatchEdits, DiscardDrops, ActivateApplies, DeleteDeletes
     DEF Request, StartIndexing, StartIndexingFails, FreeKept, versionVars
<1>3. ASSUME NEW r \in Run, RunStep(r) \/ LoseSession(r)
      PROVE  UNCHANGED <<W, S>>
  BY <1>1, <1>3 DEF RunStep, LoadSources, Embed, Commit, StatementFails, MarkFailed,
     MarkFailedFails, EndRun, LoseSession, versionVars
<1>4. ASSUME NEW i \in Process, Crash(i) \/ Start(i)
      PROVE  UNCHANGED <<W, S>>
  BY <1>1, <1>4 DEF Crash, Start, versionVars
<1>5. ASSUME NEW a \in Reader, Search(a)
      PROVE  UNCHANGED <<W, S>>
  BY <1>1, <1>5 DEF Search, AcceptQuestion, LoadIndexedVersion, LoadIndexedRevision,
     SearchBody, SearchSpeech, GiveUp, FinishSearch, versionVars
<1>6. CASE UNCHANGED vars
  BY <1>1, <1>6 DEF vars, personaVars
<1> QED
  BY <1>2, <1>3, <1>4, <1>5, <1>6 DEF Next

\* The owner sees one draft that becomes, as a whole, what is served.
THEOREM PromiseImplemented == Spec => PromiseKept
<1>1. Init => Promise!Init
  BY DEF Init, Promise!Init, Written, Served
<1>2. IInv /\ IInv' /\ [Next]_vars => [Promise!Next]_<<W, S>>
  BY PromiseSimulates
<1>3. Promise!vars = <<W, S>>
  BY DEF Promise!vars, W, S
<1> QED
  BY <1>1, <1>2, <1>3, InvAlways, PTL DEF Spec, PromiseKept, Promise!Spec, Promise!vars,
     W, S

=============================================================================

--------------------- MODULE GenerationLifecycle_proofs ---------------------
(***************************************************************************)
(* What holds of GenerationLifecycle for every number of instances, users, *)
(* conversations, requests, keys and generations, and for every lease,     *)
(* timeout and clock skew: one active row per user, results that stay,     *)
(* what requests and streams rest on, takeover, and that all of it         *)
(* implements GenerationSlot.                                              *)
(***************************************************************************)
EXTENDS GenerationLifecycle, TLAPS

USE DEF Gen

-----------------------------------------------------------------------------
(* Type correctness.                                                       *)

LEMMA Bounds ==
  /\ MaxAge \in Nat /\ 0 < MaxAge /\ LegacyGrace \in 0 .. MaxAge
  /\ Lease \in Nat
BY LifecycleAssumption DEF MaxAge

LEMMA GenNumbers == Gen \subseteq Nat /\ NoOne \notin Gen
BY LifecycleAssumption

\* What Reconcile writes stays in range as long as the new distances are.
LEMMA ReconcileTyped ==
  ASSUME RowTypeOK, NEW S \in SUBSET Gen, NEW a, \A g \in S : Finishable(g) /\ a[g] \in 0 .. MaxAge,
         Reconcile(S, a), UNCHANGED <<conv, owner, snapshot, record>>
  PROVE  /\ RowTypeOK'
         /\ \A g \in S : status'[g] = "reconciling"
         /\ \A g \in Gen \ S : status'[g] = status[g]
<1>1. /\ status' \in [Gen -> Statuses]
      /\ \A g \in S : status'[g] = "reconciling"
      /\ \A g \in Gen \ S : status'[g] = status[g]
  BY DEF RowTypeOK, Reconcile, Statuses, ActiveStatuses
<1>2. lease' \in [Gen -> (-MaxAge) .. Lease] /\ age' \in [Gen -> 0 .. MaxAge]
  BY Bounds DEF RowTypeOK, Reconcile
<1> QED
  BY <1>1, <1>2 DEF RowTypeOK, Exists, Finishable, FinishableStatuses

LEMMA LastAliveTyped ==
  ASSUME RowTypeOK, NEW g \in Gen, Reclaimable(g)
  PROVE  LastAlive[g] \in 0 .. MaxAge
<1>1. lease[g] \in (-MaxAge) .. Lease /\ age[g] \in 0 .. MaxAge
  BY DEF RowTypeOK
<1>2. LastAlive[g] = ReclaimedAge(g)
  BY DEF LastAlive
<1>3. CASE owner[g] # NoOne
  BY <1>1, <1>2, <1>3, Bounds DEF Reclaimable, ReclaimedAge
<1>4. CASE owner[g] = NoOne
  BY <1>1, <1>2, <1>4, Bounds DEF ReclaimedAge
<1> QED
  BY <1>3, <1>4

LEMMA TypeInit == Init => TypeOK
<1> SUFFICES ASSUME Init PROVE TypeOK
  OBVIOUS
<1>1. 1 \in Gen /\ 0 \in (-MaxAge) .. Lease /\ 0 \in 0 .. MaxAge
  BY Bounds, LifecycleAssumption
<1>2. InstTypeOK
  BY Bounds DEF Init, InstTypeOK
<1>3. ReqTypeOK
  BY DEF Init, ReqTypeOK, IdleReq
<1>4. cut \in [Gen -> BOOLEAN] /\ told \in [Gen -> TerminalStatuses \cup {"none"}]
  BY DEF Init
<1>5. /\ owner \in [Gen -> Instance \cup {NoOne}]
      /\ lease \in [Gen -> (-MaxAge) .. Lease]
      /\ record \in [Scope \X Key -> Gen \cup {NoOne}]
  BY <1>1 DEF Init
<1>6. CASE NoRows
  BY <1>1, <1>2, <1>3, <1>4, <1>5, <1>6
     DEF NoRows, TypeOK, RowTypeOK, StreamTypeOK, Exists, Statuses
<1>7. CASE OneLegacyRow
  <2>1. PICK w \in LegacyRowStates, c \in LegacyIn, a \in 0 .. LegacyGrace :
          /\ status = [g \in Gen |-> IF g = 1 THEN w.status ELSE "absent"]
          /\ conv = [g \in Gen |-> IF g = 1 THEN c ELSE NoOne]
          /\ age = [g \in Gen |-> IF g = 1 THEN a ELSE 0]
          /\ snapshot = [g \in Gen |-> g = 1 /\ w.snapshot]
          /\ stream = [g \in Gen |-> IF g = 1 THEN w.stream ELSE "none"]
    BY <1>7 DEF OneLegacyRow
  <2>2. /\ w.status \in Statuses /\ w.snapshot \in BOOLEAN
        /\ w.stream \in InFlight \cup {"none", "ended"}
    BY DEF LegacyRowStates, FinishableStatuses, Statuses, ActiveStatuses, InFlight
  <2>3. a \in 0 .. MaxAge
    BY Bounds
  <2>4. RowTypeOK
    <3>1. status \in [Gen -> Statuses] /\ age \in [Gen -> 0 .. MaxAge]
      BY <1>1, <2>1, <2>2, <2>3 DEF Statuses
    <3>2. /\ conv \in [Gen -> Conversation \cup {NoOne}]
          /\ \A g \in Gen : Exists(g) => conv[g] \in Conversation
      BY <2>1, LifecycleAssumption DEF Exists
    <3>3. snapshot \in [Gen -> BOOLEAN]
      BY <2>1
    <3> QED
      BY <1>5, <3>1, <3>2, <3>3 DEF RowTypeOK
  <2>5. stream \in [Gen -> InFlight \cup {"none", "ended"}]
    BY <2>1, <2>2
  <2> QED
    BY <1>2, <1>3, <1>4, <2>4, <2>5 DEF TypeOK, StreamTypeOK
<1> QED
  BY <1>6, <1>7 DEF Init

\* Rows are never deleted.
RowsKept == \A g \in Gen : Exists(g) => Exists(g)'

LEMMA SameInst == InstTypeOK /\ UNCHANGED instVars => InstTypeOK'
BY DEF InstTypeOK, instVars

LEMMA SameRows == RowTypeOK /\ UNCHANGED rowVars => RowTypeOK' /\ RowsKept
BY DEF RowTypeOK, rowVars, Exists, RowsKept

LEMMA SameStreams == StreamTypeOK /\ UNCHANGED streamVars => StreamTypeOK'
BY DEF StreamTypeOK, streamVars

LEMMA SameReqs == ReqTypeOK /\ UNCHANGED req /\ RowsKept => ReqTypeOK'
BY DEF ReqTypeOK, RowsKept

LEMMA EndedReq ==
  ASSUME ReqTypeOK, RowsKept, NEW r \in Request, req' = [req EXCEPT ![r] = IdleReq]
  PROVE  ReqTypeOK'
BY DEF ReqTypeOK, RowsKept, IdleReq

LEMMA ReconcileKeeps ==
  ASSUME NEW S \in SUBSET Gen, NEW a, \A g \in S : Finishable(g), Reconcile(S, a)
  PROVE  RowsKept
BY DEF RowsKept, Exists, Reconcile

LEMMA TypeTick == TypeOK /\ Tick => TypeOK'
<1> SUFFICES ASSUME TypeOK, Tick PROVE TypeOK'
  OBVIOUS
<1>1. inst' = inst /\ deadFor' \in [Instance -> 0 .. (Lease + MaxAge)]
  BY Bounds DEF Tick, TypeOK, InstTypeOK
<1>2. lease' \in [Gen -> (-MaxAge) .. Lease]
  BY Bounds DEF Tick, TypeOK, RowTypeOK
<1>3. age' \in [Gen -> 0 .. MaxAge]
  BY Bounds DEF Tick, TypeOK, RowTypeOK
<1>4. RowTypeOK' /\ RowsKept
  BY <1>2, <1>3 DEF Tick, TypeOK, RowTypeOK, Exists, RowsKept
<1> QED
  BY <1>1, <1>4, SameStreams, SameReqs DEF Tick, TypeOK, InstTypeOK

LEMMA TypeStart == ASSUME TypeOK, NEW i \in Instance, StartInstance(i) PROVE TypeOK'
<1> DEFINE S == {g \in Gen : Reclaimable(g)}
<1>1. InstTypeOK'
  BY DEF StartInstance, TypeOK, InstTypeOK
<1>2. CASE Reconcile(S, LastAlive)
  <2>1. \A g \in S : Finishable(g) /\ LastAlive[g] \in 0 .. MaxAge
    BY LastAliveTyped DEF Reclaimable, TypeOK
  <2> QED
    BY <1>1, <1>2, <2>1, ReconcileTyped, ReconcileKeeps, SameStreams, SameReqs
       DEF StartInstance, TypeOK
<1>3. CASE UNCHANGED <<status, age, lease>>
  BY <1>1, <1>3, SameRows, SameStreams, SameReqs DEF StartInstance, TypeOK, rowVars
<1> QED
  BY <1>2, <1>3 DEF StartInstance

LEMMA TypeShutdown == ASSUME TypeOK, NEW i \in Instance, Shutdown(i) PROVE TypeOK'
<1>1. InstTypeOK'
  BY DEF Shutdown, TypeOK, InstTypeOK
<1>2. CASE Reconcile(OwnFinishable(i), JustNow)
  <2>1. \A g \in OwnFinishable(i) : g \in Gen /\ Finishable(g) /\ JustNow[g] \in 0 .. MaxAge
    BY Bounds DEF OwnFinishable, JustNow
  <2> QED
    BY <1>1, <1>2, <2>1, ReconcileTyped, ReconcileKeeps, SameStreams, SameReqs
       DEF Shutdown, TypeOK
<1>3. CASE UNCHANGED <<status, age, lease>>
  BY <1>1, <1>3, SameRows, SameStreams, SameReqs DEF Shutdown, TypeOK, rowVars
<1> QED
  BY <1>2, <1>3 DEF Shutdown

LEMMA TypeCrash == ASSUME TypeOK, NEW i \in Instance, Crash(i) PROVE TypeOK'
<1>1. InstTypeOK'
  BY DEF Crash, TypeOK, InstTypeOK
<1>2. StreamTypeOK'
  BY DEF Crash, TypeOK, StreamTypeOK
<1>3. RowTypeOK' /\ RowsKept
  BY SameRows DEF Crash, TypeOK
<1>4. ReqTypeOK'
  BY <1>3 DEF Crash, TypeOK, ReqTypeOK, RowsKept, IdleReq
<1> QED
  BY <1>1, <1>2, <1>3, <1>4 DEF TypeOK

LEMMA TypeHeartbeat == ASSUME TypeOK, NEW i \in Instance, Heartbeat(i) PROVE TypeOK'
<1>1. RowTypeOK' /\ RowsKept
  BY Bounds DEF Heartbeat, TypeOK, RowTypeOK, Exists, RowsKept
<1>2. StreamTypeOK'
  BY DEF Heartbeat, TypeOK, StreamTypeOK, BeatCancels
<1> QED
  BY <1>1, <1>2, SameInst, SameReqs DEF Heartbeat, TypeOK

LEMMA TypeSubmit ==
  ASSUME TypeOK, NEW r \in Request, NEW i \in Instance, NEW s \in Scope, NEW k \in Key,
         Submit(r, i, s, k)
  PROVE  TypeOK'
<1>1. RowTypeOK' /\ RowsKept
  BY SameRows DEF Submit, TypeOK
<1>2. ReqTypeOK'
  BY <1>1 DEF Submit, TypeOK, ReqTypeOK, RowsKept
<1> QED
  BY <1>1, <1>2, SameInst, SameStreams DEF Submit, TypeOK

LEMMA TypeReclaim == ASSUME TypeOK, NEW r \in Request, ReclaimForUser(r) PROVE TypeOK'
<1> DEFINE S == {g \in RowsOf(UserOfScope(req[r].scope)) : Reclaimable(g)}
<1>1. S \in SUBSET Gen
  BY DEF RowsOf
<1>2. \A g \in S : Finishable(g) /\ LastAlive[g] \in 0 .. MaxAge
  BY <1>1, LastAliveTyped DEF Reclaimable, TypeOK
<1>3. RowTypeOK' /\ RowsKept
  BY <1>1, <1>2, ReconcileTyped, ReconcileKeeps DEF ReclaimForUser, TypeOK
<1>4. ReqTypeOK'
  BY <1>3 DEF ReclaimForUser, TypeOK, ReqTypeOK, RowsKept
<1> QED
  BY <1>3, <1>4, SameInst, SameStreams DEF ReclaimForUser, TypeOK

LEMMA TypeReject ==
  ASSUME TypeOK, NEW r \in Request, NEW d \in Skew, Reject(r, d)
  PROVE  TypeOK'
BY SameInst, SameRows, SameStreams, EndedReq DEF Reject, TypeOK

LEMMA TypeSelect ==
  ASSUME TypeOK, NEW r \in Request, NEW d \in Skew, Select(r, d)
  PROVE  TypeOK'
<1>1. RowTypeOK' /\ RowsKept
  BY SameRows DEF Select, TypeOK
<1>2. /\ NewestActive(UserOfScope(req[r].scope)) \in SUBSET Gen
      /\ \A g \in NewestActive(UserOfScope(req[r].scope)) : Exists(g)
  BY DEF NewestActive, ActiveOf, RowsOf
<1>3. ReqTypeOK'
  <2>1. /\ \A q \in Request \ {r} : req'[q] = req[q]
        /\ req'[r].closes = NewestActive(UserOfScope(req[r].scope))
        /\ req'[r].inst = req[r].inst /\ req'[r].scope = req[r].scope
        /\ req'[r].key = req[r].key
        /\ req[r].pc # "idle"
    BY DEF Select, TypeOK, ReqTypeOK
  <2>2. req' \in [Request -> [pc : {"idle", "checked", "reclaimed", "selected"},
                             inst : Instance \cup {NoOne}, scope : Scope \cup {NoOne},
                             key : Key \cup {NoOne}, closes : SUBSET Gen]]
    <3>1. PICK row : row = [req[r] EXCEPT !.pc = "selected",
                                          !.closes = NewestActive(UserOfScope(req[r].scope))]
      OBVIOUS
    <3>2. req' = [req EXCEPT ![r] = row]
      BY <3>1 DEF Select
    <3>3. row \in [pc : {"idle", "checked", "reclaimed", "selected"},
                   inst : Instance \cup {NoOne}, scope : Scope \cup {NoOne},
                   key : Key \cup {NoOne}, closes : SUBSET Gen]
      <4>1. req[r] \in [pc : {"idle", "checked", "reclaimed", "selected"},
                        inst : Instance \cup {NoOne}, scope : Scope \cup {NoOne},
                        key : Key \cup {NoOne}, closes : SUBSET Gen]
        BY DEF TypeOK, ReqTypeOK
      <4> QED
        BY <1>2, <3>1, <4>1
    <3> QED
      BY <3>2, <3>3 DEF TypeOK, ReqTypeOK
  <2> QED
    BY <1>1, <1>2, <2>1, <2>2 DEF TypeOK, ReqTypeOK, RowsKept
<1> QED
  BY <1>1, <1>3, SameInst, SameStreams DEF Select, TypeOK

LEMMA TypeAbort == ASSUME TypeOK, NEW r \in Request, Abort(r) PROVE TypeOK'
BY SameInst, SameRows, SameStreams, EndedReq DEF Abort, TypeOK

LEMMA TypeCommit ==
  ASSUME TypeOK, NEW r \in Request, NEW g \in Gen, CommitRow(r, g)
  PROVE  TypeOK'
<1> DEFINE q == req[r]
<1>1. /\ q.inst \in Instance /\ q.scope \in Scope /\ q.key \in Key
      /\ q.scope \in Gen => Exists(q.scope)
  BY DEF CommitRow, TypeOK, ReqTypeOK
<1>2. ConvOf(q.scope) \in Conversation
  BY <1>1 DEF ConvOf, Scope, TypeOK, RowTypeOK
<1>3. status' \in [Gen -> Statuses]
  BY DEF CommitRow, TypeOK, RowTypeOK, Statuses, ActiveStatuses, TerminalStatuses
<1>4. conv' \in [Gen -> Conversation \cup {NoOne}] /\ conv'[g] \in Conversation
  BY <1>2 DEF CommitRow, TypeOK, RowTypeOK
<1>4a. \A h \in Gen \ {g} : conv'[h] = conv[h] /\ (Exists(h)' => Exists(h))
  BY DEF CommitRow, TypeOK, RowTypeOK, ReqTypeOK, Exists
<1>4b. \A h \in Gen : Exists(h)' => conv'[h] \in Conversation
  BY <1>4, <1>4a DEF TypeOK, RowTypeOK
<1>5. owner' \in [Gen -> Instance \cup {NoOne}]
  BY <1>1 DEF CommitRow, TypeOK, RowTypeOK
<1>6. lease' \in [Gen -> (-MaxAge) .. Lease] /\ age' \in [Gen -> 0 .. MaxAge]
  <2>1. /\ 0 \in (-MaxAge) .. Lease /\ Lease \in (-MaxAge) .. Lease /\ 0 \in 0 .. MaxAge
    BY Bounds
  <2>2. lease \in [Gen -> (-MaxAge) .. Lease] /\ age \in [Gen -> 0 .. MaxAge]
    BY DEF TypeOK, RowTypeOK
  <2> QED
    BY <2>1, <2>2 DEF CommitRow
<1>7. snapshot' \in [Gen -> BOOLEAN]
  BY DEF CommitRow, TypeOK, RowTypeOK
<1>8. record' \in [Scope \X Key -> Gen \cup {NoOne}]
  BY DEF CommitRow, TypeOK, RowTypeOK
<1>9. StreamTypeOK'
  BY DEF CommitRow, TypeOK, StreamTypeOK, InFlight
<1>10. RowsKept
  BY DEF CommitRow, RowsKept, Exists
<1>11. ReqTypeOK'
  BY <1>10, EndedReq DEF CommitRow, TypeOK
<1>12. InstTypeOK'
  BY SameInst DEF CommitRow, TypeOK
<1> QED
  BY <1>3, <1>4, <1>5, <1>6, <1>7, <1>8, <1>9, <1>11, <1>12, <1>4b
  DEF TypeOK, RowTypeOK

LEMMA TypeStartStream == ASSUME TypeOK, NEW g \in Gen, StartStream(g) PROVE TypeOK'
<1>1. StreamTypeOK'
  BY DEF StartStream, TypeOK, StreamTypeOK, InFlight
<1> QED
  BY <1>1, SameInst, SameRows, SameReqs DEF StartStream, TypeOK

LEMMA TypeMarkRunning == ASSUME TypeOK, NEW g \in Gen, MarkRunning(g) PROVE TypeOK'
<1>1. StreamTypeOK'
  BY DEF MarkRunning, TypeOK, StreamTypeOK, InFlight
<1>2. CASE MayRun(g)
  <2>1. lease' \in [Gen -> (-MaxAge) .. Lease] /\ age' \in [Gen -> 0 .. MaxAge]
    BY <1>2, Bounds DEF MarkRunning, TypeOK, RowTypeOK
  <2>2. status' \in [Gen -> Statuses] /\ snapshot' \in [Gen -> BOOLEAN]
    BY <1>2 DEF MarkRunning, TypeOK, RowTypeOK, Statuses, ActiveStatuses
  <2>3. RowsKept /\ \A h \in Gen : Exists(h)' => Exists(h)
    BY <1>2 DEF MarkRunning, MayRun, TypeOK, RowTypeOK, Exists, RowsKept
  <2>4. RowTypeOK'
    BY <2>1, <2>2, <2>3 DEF MarkRunning, TypeOK, RowTypeOK
  <2> QED
    BY <1>1, <2>3, <2>4, SameInst, SameReqs DEF MarkRunning, TypeOK
<1>3. CASE ~MayRun(g)
  BY <1>1, <1>3, SameInst, SameRows, SameReqs DEF MarkRunning, TypeOK, rowVars
<1> QED
  BY <1>2, <1>3

\* What finish_generation makes of a row.
LEMMA Finished ==
  ASSUME RowTypeOK, NEW g \in Gen, NEW s \in {"completed", "failed"}
  PROVE  /\ FinishedStatus(g, s) \in Statuses
         /\ Finishable(g) => FinishedStatus(g, s) \in TerminalStatuses
         /\ ~Finishable(g) => FinishedStatus(g, s) = status[g]
         /\ status[g] = "cancel_requested" => FinishedStatus(g, s) = "cancelled"
         /\ TerminalEvent(g, s) \in TerminalStatuses
<1>1. CASE status[g] = "cancel_requested"
  <2>1. FinishedStatus(g, s) = "cancelled"
    BY <1>1 DEF FinishedStatus
  <2> QED
    BY <1>1, <2>1 DEF TerminalEvent, Finishable, FinishableStatuses, Statuses, TerminalStatuses
<1>2. CASE Finishable(g) /\ status[g] # "cancel_requested"
  <2>1. FinishedStatus(g, s) = s
    BY <1>2 DEF FinishedStatus
  <2> QED
    BY <1>2, <2>1 DEF TerminalEvent, Finishable, FinishableStatuses, Statuses, TerminalStatuses
<1>3. CASE ~Finishable(g)
  <2>1. FinishedStatus(g, s) = status[g]
    BY <1>3 DEF FinishedStatus, Finishable, FinishableStatuses
  <2> QED
    BY <1>3, <2>1 DEF RowTypeOK, TerminalEvent, Finishable, FinishableStatuses, TerminalStatuses
<1> QED
  BY <1>1, <1>2, <1>3

LEMMA TypeFinish ==
  ASSUME TypeOK, NEW g \in Gen, NEW s \in {"completed", "failed"}, Finish(g, s)
  PROVE  TypeOK'
<1>1. /\ FinishedStatus(g, s) \in Statuses
      /\ Exists(g) => FinishedStatus(g, s) # "absent"
      /\ FinishedStatus(g, s) # "absent" => Exists(g)
      /\ TerminalEvent(g, s) \in TerminalStatuses
  BY Finished DEF TypeOK, Exists, Finishable, FinishableStatuses, TerminalStatuses
<1>2. StreamTypeOK'
  BY <1>1 DEF Finish, TypeOK, StreamTypeOK
<1>3. RowTypeOK' /\ RowsKept
  BY <1>1, Bounds DEF Finish, TypeOK, RowTypeOK, Exists, RowsKept
<1> QED
  BY <1>2, <1>3, SameInst, SameReqs DEF Finish, TypeOK

LEMMA TypeDisconnect == ASSUME TypeOK, NEW g \in Gen, Disconnect(g) PROVE TypeOK'
<1> DEFINE S == {h \in {g} : Finishable(h)}
<1>1. S \in SUBSET Gen /\ \A h \in S : Finishable(h) /\ JustNow[h] \in 0 .. MaxAge
  BY Bounds DEF JustNow
<1>2. RowTypeOK' /\ RowsKept
  BY <1>1, ReconcileTyped, ReconcileKeeps DEF Disconnect, TypeOK
<1>3. StreamTypeOK'
  BY DEF Disconnect, TypeOK, StreamTypeOK
<1> QED
  BY <1>2, <1>3, SameInst, SameReqs DEF Disconnect, TypeOK

LEMMA TypeLoseStream == ASSUME TypeOK, NEW g \in Gen, LoseStream(g) PROVE TypeOK'
<1>1. StreamTypeOK'
  BY DEF LoseStream, TypeOK, StreamTypeOK
<1> QED
  BY <1>1, SameInst, SameRows, SameReqs DEF LoseStream, TypeOK

LEMMA TypeCancel ==
  ASSUME TypeOK, NEW i \in Instance, NEW g \in Gen, Cancel(i, g)
  PROVE  TypeOK'
<1>1. StreamTypeOK'
  BY DEF Cancel, TypeOK, StreamTypeOK
<1>2. RowTypeOK' /\ RowsKept
  BY Bounds DEF Cancel, TypeOK, RowTypeOK, Exists, RowsKept, Finishable, FinishableStatuses,
     Statuses, ActiveStatuses
<1> QED
  BY <1>1, <1>2, SameInst, SameReqs DEF Cancel, TypeOK

LEMMA TypeStep == TypeOK /\ [Next]_vars => TypeOK'
<1>1. TypeOK /\ UNCHANGED vars => TypeOK'
  BY SameInst, SameRows, SameStreams, SameReqs
     DEF TypeOK, vars, instVars, rowVars, streamVars
<1>2. TypeOK /\ Next => TypeOK'
  BY TypeTick, TypeStart, TypeShutdown, TypeCrash, TypeHeartbeat, TypeSubmit, TypeReclaim,
     TypeReject, TypeSelect, TypeAbort, TypeCommit, TypeStartStream, TypeMarkRunning,
     TypeFinish, TypeDisconnect, TypeLoseStream, TypeCancel
     DEF Next, Commit
<1> QED
  BY <1>1, <1>2

\* Every variable stays in its state space, whatever the schedule.
THEOREM TypeCorrect == Spec => []TypeOK
BY TypeInit, TypeStep, PTL DEF Spec

-----------------------------------------------------------------------------
(* One active row per user.  SlotExclusive is not inductive: that the      *)
(* insert of Commit is safe rests on what Select read some steps before,   *)
(* and that still holds because the user's row lock keeps every other      *)
(* insert of the user away and no other step makes a row active.           *)

Selected(r) == req[r].pc = "selected"
LockedUser(r) == UserOfScope(req[r].scope)

\* A user's row lock has one holder.
OneHolder ==
  \A r1, r2 \in Request :
    Selected(r1) /\ Selected(r2) /\ LockedUser(r1) = LockedUser(r2) => r1 = r2

\* Whatever is active when the holder commits is what the holder closes.
ClosesAll ==
  \A r \in Request, g \in Gen :
    Selected(r) /\ Active(g) /\ UserOf[conv[g]] = LockedUser(r) => g \in req[r].closes

\* What it closes was found unresolved, and at most got cancelled since.
Unresolved(g) == status[g] \in {"cancel_requested", "reconciling", "cancelled"}

ClosesUnresolved ==
  \A r \in Request : Selected(r) =>
    \A g \in req[r].closes : Unresolved(g) /\ UserOf[conv[g]] = LockedUser(r)

SlotInv == TypeOK /\ OneHolder /\ ClosesAll /\ ClosesUnresolved /\ SlotExclusive

LEMMA SlotInit == Init => SlotInv
<1> SUFFICES ASSUME Init PROVE SlotInv
  OBVIOUS
<1>1. \A r \in Request : ~Selected(r)
  BY DEF Init, IdleReq, Selected
<1>2. \A g \in Gen : Active(g) => g = 1
  BY DEF Init, NoRows, OneLegacyRow, Active, ActiveStatuses
<1> QED
  BY <1>1, <1>2, TypeInit DEF SlotInv, OneHolder, ClosesAll, ClosesUnresolved, SlotExclusive

\* All that the steps other than Select and Commit do to the invariant.
QuietRows ==
  /\ conv' = conv
  /\ \A g \in Gen : Active(g)' => Active(g)
  /\ \A g \in Gen : Unresolved(g) => Unresolved(g)'
  /\ \A g \in Gen : status[g] \in TerminalStatuses => status'[g] = status[g]
  /\ \A g \in Gen : Exists(g) => Exists(g)'

QuietReqs == \A r \in Request : Selected(r)' => req'[r] = req[r]

LEMMA ReconcileQuiet ==
  ASSUME TypeOK, NEW S \in SUBSET Gen, NEW a, \A g \in S : Finishable(g), Reconcile(S, a),
         conv' = conv
  PROVE  QuietRows
BY DEF TypeOK, RowTypeOK, Reconcile, QuietRows, Active, ActiveStatuses, Unresolved, Exists,
       Finishable, FinishableStatuses, TerminalStatuses

LEMMA UnchangedQuiet == status' = status /\ conv' = conv => QuietRows
BY DEF QuietRows, Active, Unresolved, Exists

LEMMA InstanceQuiet ==
  ASSUME TypeOK, NEW i \in Instance,
         StartInstance(i) \/ Shutdown(i) \/ Crash(i) \/ Heartbeat(i)
  PROVE  QuietRows /\ QuietReqs
<1>1. CASE StartInstance(i)
  <2> DEFINE S == {g \in Gen : Reclaimable(g)}
  <2>1. \A g \in S : Finishable(g)
    BY DEF Reclaimable
  <2> QED
    BY <1>1, <2>1, ReconcileQuiet, UnchangedQuiet DEF StartInstance, QuietReqs
<1>2. CASE Shutdown(i)
  <2>1. OwnFinishable(i) \in SUBSET Gen /\ \A g \in OwnFinishable(i) : Finishable(g)
    BY DEF OwnFinishable
  <2> QED
    BY <1>2, <2>1, ReconcileQuiet, UnchangedQuiet DEF Shutdown, QuietReqs
<1>3. CASE Crash(i)
  <2>1. QuietReqs
    BY <1>3 DEF Crash, QuietReqs, Selected, IdleReq, TypeOK, ReqTypeOK
  <2> QED
    BY <1>3, <2>1, UnchangedQuiet DEF Crash, rowVars
<1>4. CASE Heartbeat(i)
  BY <1>4, UnchangedQuiet DEF Heartbeat, QuietReqs
<1> QED
  BY <1>1, <1>2, <1>3, <1>4

LEMMA RequestQuiet ==
  ASSUME TypeOK, NEW r \in Request,
         \/ \E i \in Instance, s \in Scope, k \in Key : Submit(r, i, s, k)
         \/ ReclaimForUser(r) \/ Abort(r) \/ \E d \in Skew : Reject(r, d)
  PROVE  QuietRows /\ QuietReqs
<1>1. ASSUME NEW i \in Instance, NEW s \in Scope, NEW k \in Key, Submit(r, i, s, k)
      PROVE  QuietRows /\ QuietReqs
  BY <1>1, UnchangedQuiet DEF Submit, rowVars, QuietReqs, Selected, TypeOK, ReqTypeOK
<1>2. CASE ReclaimForUser(r)
  <2> DEFINE S == {g \in RowsOf(UserOfScope(req[r].scope)) : Reclaimable(g)}
  <2>1. S \in SUBSET Gen /\ \A g \in S : Finishable(g)
    BY DEF Reclaimable, RowsOf
  <2>2. QuietReqs
    BY <1>2 DEF ReclaimForUser, QuietReqs, Selected, TypeOK, ReqTypeOK
  <2> QED
    BY <1>2, <2>1, <2>2, ReconcileQuiet DEF ReclaimForUser
<1>3. ASSUME UNCHANGED rowVars, req' = [req EXCEPT ![r] = IdleReq]
      PROVE  QuietRows /\ QuietReqs
  BY <1>3, UnchangedQuiet DEF rowVars, QuietReqs, Selected, IdleReq, TypeOK, ReqTypeOK
<1> QED
  BY <1>1, <1>2, <1>3 DEF Abort, Reject

LEMMA StreamQuiet ==
  ASSUME TypeOK, NEW g \in Gen,
         \/ StartStream(g) \/ MarkRunning(g) \/ Disconnect(g) \/ LoseStream(g)
         \/ \E s \in {"completed", "failed"} : Finish(g, s)
         \/ \E i \in Instance : Cancel(i, g)
  PROVE  QuietRows /\ QuietReqs
<1>1. CASE StartStream(g) \/ LoseStream(g)
  BY <1>1, UnchangedQuiet DEF StartStream, LoseStream, rowVars, QuietReqs
<1>2. CASE MarkRunning(g)
  BY <1>2 DEF MarkRunning, MayRun, TypeOK, RowTypeOK, QuietRows, QuietReqs, Active,
     ActiveStatuses, Unresolved, Exists, TerminalStatuses
<1>3. CASE Disconnect(g)
  <2> DEFINE S == {h \in {g} : Finishable(h)}
  <2>1. S \in SUBSET Gen /\ \A h \in S : Finishable(h)
    OBVIOUS
  <2> QED
    BY <1>3, <2>1, ReconcileQuiet DEF Disconnect, QuietReqs
<1>4. ASSUME NEW s \in {"completed", "failed"}, Finish(g, s)
      PROVE  QuietRows /\ QuietReqs
  <2>1. /\ FinishedStatus(g, s) \in ActiveStatuses => Active(g)
        /\ Unresolved(g) => FinishedStatus(g, s) \in {"reconciling", "cancelled"}
        /\ Exists(g) => FinishedStatus(g, s) # "absent"
        /\ status[g] \in TerminalStatuses => FinishedStatus(g, s) = status[g]
    BY Finished DEF TypeOK, Finishable, FinishableStatuses, Active, ActiveStatuses,
       TerminalStatuses, Unresolved, Exists
  <2> QED
    BY <1>4, <2>1 DEF Finish, TypeOK, RowTypeOK, QuietRows, QuietReqs, Active, Unresolved, Exists
<1>5. ASSUME NEW i \in Instance, Cancel(i, g)
      PROVE  QuietRows /\ QuietReqs
  BY <1>5 DEF Cancel, TypeOK, RowTypeOK, QuietRows, QuietReqs, Active, ActiveStatuses,
     Unresolved, Exists, Finishable, FinishableStatuses, TerminalStatuses
<1> QED
  BY <1>1, <1>2, <1>3, <1>4, <1>5

\* The user that a pending request names does not change under it.
LEMMA UserKept ==
  ASSUME TypeOK, NEW r \in Request, req'[r] = req[r], Selected(r),
         \A g \in Gen : Exists(g) => conv'[g] = conv[g]
  PROVE  LockedUser(r)' = LockedUser(r) /\ Selected(r)'
<1>1. req[r].scope \in Scope /\ (req[r].scope \in Gen => Exists(req[r].scope))
  BY DEF TypeOK, ReqTypeOK, Selected
<1> QED
  BY <1>1 DEF LockedUser, UserOfScope, ConvOf, Selected, Scope

LEMMA QuietStep == SlotInv /\ TypeOK' /\ QuietRows /\ QuietReqs => SlotInv'
<1> SUFFICES ASSUME SlotInv, TypeOK', QuietRows, QuietReqs PROVE SlotInv'
  OBVIOUS
<1>1. \A r \in Request : Selected(r)' =>
        /\ Selected(r) /\ LockedUser(r)' = LockedUser(r) /\ req'[r] = req[r]
  BY UserKept DEF QuietRows, QuietReqs, SlotInv, Selected
<1>2. OneHolder'
  BY <1>1 DEF SlotInv, OneHolder
<1>3. ClosesAll'
  BY <1>1 DEF SlotInv, ClosesAll, QuietRows
<1>4. ClosesUnresolved'
  <2> SUFFICES ASSUME NEW r \in Request, Selected(r)', NEW g \in (req[r].closes)'
               PROVE  Unresolved(g)' /\ (UserOf[conv[g]] = LockedUser(r))'
    BY DEF ClosesUnresolved
  <2>1. g \in req[r].closes /\ Selected(r) /\ LockedUser(r)' = LockedUser(r)
    BY <1>1
  <2>2. g \in Gen
    BY <2>1 DEF SlotInv, TypeOK, ReqTypeOK
  <2> QED
    BY <2>1, <2>2 DEF SlotInv, ClosesUnresolved, QuietRows
<1>5. SlotExclusive'
  BY DEF SlotInv, SlotExclusive, QuietRows
<1> QED
  BY <1>2, <1>3, <1>4, <1>5 DEF SlotInv

LEMMA SelectStep ==
  ASSUME SlotInv, TypeOK', NEW r \in Request, NEW d \in Skew, Select(r, d)
  PROVE  SlotInv'
<1> DEFINE u == LockedUser(r)
<1>1. UNCHANGED <<status, conv>>
  BY DEF Select, rowVars
<1>2. \A q \in Request \ {r} : req'[q] = req[q]
  BY DEF Select, SlotInv, TypeOK, ReqTypeOK
<1>3. /\ req'[r].pc = "selected" /\ req'[r].scope = req[r].scope
      /\ req'[r].closes = NewestActive(u)
  BY DEF Select, SlotInv, TypeOK, ReqTypeOK, LockedUser
<1>4. \A q \in Request : LockedUser(q)' = LockedUser(q)
  BY <1>1, <1>2, <1>3 DEF LockedUser, UserOfScope, ConvOf
<1>5. \A q \in Request : Selected(q) => LockedUser(q) # u
  BY DEF Select, LockFree, LockedUser, Selected
<1>6. \A q \in Request : Selected(q)' => q = r \/ Selected(q)
  BY <1>2 DEF Selected
<1>7. OneHolder'
  BY <1>4, <1>5, <1>6 DEF SlotInv, OneHolder
<1>8. \A g \in Gen : Active(g) /\ UserOf[conv[g]] = u => g \in NewestActive(u)
  <2> SUFFICES ASSUME NEW g \in Gen, Active(g), UserOf[conv[g]] = u
               PROVE  g \in NewestActive(u)
    OBVIOUS
  <2>1. ActiveOf(u) = {g}
    BY DEF SlotInv, SlotExclusive, ActiveOf, RowsOf, Active, ActiveStatuses, Exists
  <2> QED
    BY <2>1 DEF NewestActive
<1>9. ClosesAll'
  BY <1>1, <1>2, <1>3, <1>4, <1>6, <1>8 DEF SlotInv, ClosesAll, Active
<1>10. \A g \in NewestActive(u) : Unresolved(g) /\ UserOf[conv[g]] = u
  BY DEF Select, MayProceed, Stale, NewestActive, ActiveOf, RowsOf, Unresolved, LockedUser
<1>11. ClosesUnresolved'
  BY <1>1, <1>2, <1>3, <1>4, <1>6, <1>10 DEF SlotInv, ClosesUnresolved, Unresolved
<1>12. SlotExclusive'
  BY <1>1 DEF SlotInv, SlotExclusive, Active
<1> QED
  BY <1>7, <1>9, <1>11, <1>12 DEF SlotInv

LEMMA CommitStep ==
  ASSUME SlotInv, TypeOK', NEW r \in Request, NEW g \in Gen, CommitRow(r, g)
  PROVE  SlotInv'
<1> DEFINE u == LockedUser(r)
           q == req[r]
<1>1. /\ Selected(r) /\ ~Exists(g) /\ ~Active(g) /\ g \notin q.closes
      /\ q.scope \in Scope /\ (q.scope \in Gen => Exists(q.scope))
  BY DEF CommitRow, SlotInv, TypeOK, ReqTypeOK, Selected, Active, ActiveStatuses, Exists
<1>2. /\ status'[g] \in {"queued", "running"}
      /\ \A h \in q.closes : h \in Gen => status'[h] = "failed"
      /\ \A h \in Gen \ {g} : h \notin q.closes => status'[h] = status[h]
  BY <1>1 DEF CommitRow, SlotInv, TypeOK, RowTypeOK
<1>3. conv'[g] = ConvOf(q.scope) /\ \A h \in Gen \ {g} : conv'[h] = conv[h]
  BY DEF CommitRow
<1>4. UserOf[conv'[g]] = u
  BY <1>3 DEF LockedUser, UserOfScope
<1>5. \A p \in Request \ {r} : req'[p] = req[p]
  BY DEF CommitRow, SlotInv, TypeOK, ReqTypeOK
<1>6. ~Selected(r)'
  BY DEF CommitRow, SlotInv, TypeOK, ReqTypeOK, IdleReq, Selected
<1>7. \A p \in Request : Selected(p)' =>
        /\ p # r /\ Selected(p) /\ LockedUser(p)' = LockedUser(p) /\ req'[p] = req[p]
        /\ LockedUser(p) # u
  <2>1. \A h \in Gen : Exists(h) => conv'[h] = conv[h]
    BY <1>1, <1>3
  <2>2. \A p \in Request \ {r} : Selected(p)' => Selected(p)
    BY <1>5 DEF Selected
  <2> QED
    BY <1>1, <1>5, <1>6, <2>1, <2>2, UserKept DEF SlotInv, OneHolder
<1>8. OneHolder'
  BY <1>7 DEF SlotInv, OneHolder
<1>9. \A h \in Gen \ {g} : Active(h)' =>
        Active(h) /\ UserOf[conv[h]] # u /\ conv'[h] = conv[h]
  BY <1>1, <1>2, <1>3 DEF SlotInv, ClosesAll, Active, ActiveStatuses
<1>10. ClosesAll'
  BY <1>4, <1>7, <1>9 DEF SlotInv, ClosesAll
<1>11. ClosesUnresolved'
  <2> SUFFICES ASSUME NEW p \in Request, Selected(p)', NEW h \in (req[p].closes)'
               PROVE  Unresolved(h)' /\ (UserOf[conv[h]] = LockedUser(p))'
    BY DEF ClosesUnresolved
  <2>1. h \in req[p].closes /\ Selected(p) /\ LockedUser(p)' = LockedUser(p) /\ LockedUser(p) # u
    BY <1>7
  <2>2. h \in Gen /\ Exists(h)
    BY <2>1 DEF SlotInv, TypeOK, ReqTypeOK, Selected
  <2>3. Unresolved(h) /\ UserOf[conv[h]] = LockedUser(p)
    BY <2>1 DEF SlotInv, ClosesUnresolved
  <2>4. h # g /\ h \notin q.closes
    BY <1>1, <2>1, <2>2, <2>3 DEF SlotInv, ClosesUnresolved
  <2> QED
    BY <1>2, <1>3, <2>1, <2>2, <2>3, <2>4 DEF Unresolved
<1>12. SlotExclusive'
  BY <1>4, <1>9 DEF SlotInv, SlotExclusive
<1> QED
  BY <1>8, <1>10, <1>11, <1>12 DEF SlotInv

\* Every step is quiet, or takes the lock, or commits a new row.
LEMMA StepKinds ==
  ASSUME TypeOK, [Next]_vars
  PROVE  \/ QuietRows /\ QuietReqs
         \/ \E r \in Request, d \in Skew : Select(r, d)
         \/ \E r \in Request, g \in Gen : CommitRow(r, g)
<1>1. CASE UNCHANGED vars
  BY <1>1, UnchangedQuiet DEF vars, QuietReqs
<1>2. CASE Tick
  BY <1>2, UnchangedQuiet DEF Tick, QuietReqs
<1>3. CASE \E i \in Instance : StartInstance(i) \/ Shutdown(i) \/ Crash(i) \/ Heartbeat(i)
  BY <1>3, InstanceQuiet
<1>4. CASE \E r \in Request :
             \/ \E i \in Instance, s \in Scope, k \in Key : Submit(r, i, s, k)
             \/ ReclaimForUser(r) \/ Abort(r) \/ \E d \in Skew : Reject(r, d)
  BY <1>4, RequestQuiet
<1>5. CASE \E g \in Gen :
             \/ StartStream(g) \/ MarkRunning(g) \/ Disconnect(g) \/ LoseStream(g)
             \/ \E s \in {"completed", "failed"} : Finish(g, s)
             \/ \E i \in Instance : Cancel(i, g)
  BY <1>5, StreamQuiet
<1> QED
  BY <1>1, <1>2, <1>3, <1>4, <1>5 DEF Next, Commit

LEMMA SlotStep == SlotInv /\ [Next]_vars => SlotInv'
<1> SUFFICES ASSUME SlotInv, [Next]_vars PROVE SlotInv'
  OBVIOUS
<1>1. TypeOK /\ TypeOK'
  BY TypeStep DEF SlotInv
<1> QED
  BY <1>1, StepKinds, QuietStep, SelectStep, CommitStep

LEMMA SlotAlways == Spec => []SlotInv
BY SlotInit, SlotStep, PTL DEF Spec

\* For any number of instances, concurrent requests and conversations, a user
\* never has two active generations, although no constraint of the schema says
\* so and the row that Commit closes is not locked.
THEOREM SlotExclusiveAlways == Spec => []SlotExclusive
<1>1. SlotInv => SlotExclusive
  BY DEF SlotInv
<1> QED
  BY <1>1, SlotAlways, PTL

-----------------------------------------------------------------------------
(* What a step may do to a row that is settled, or asked to stop.          *)

\* What Commit does to a row that exists.
LEMMA CommitSettles ==
  ASSUME TypeOK, NEW r \in Request, NEW g \in Gen, CommitRow(r, g), NEW h \in Gen, Exists(h)
  PROVE  /\ req[r].pc = "selected"
         /\ h \in req[r].closes => status'[h] = "failed"
         /\ h \notin req[r].closes => status'[h] = status[h]
BY DEF CommitRow, Exists

\* For any number of instances and requests: a result, once recorded, stays,
\* except that a cancelled row may be failed by the one request that had found
\* it stale (finish_generation's WHERE guard, the UPDATE by id of the next accept).
THEOREM ResultsStay == Spec => TerminalStays
<1> DEFINE Stays(g) == status[g] \in TerminalStatuses =>
       \/ status'[g] = status[g]
       \/ /\ status[g] = "cancelled" /\ status'[g] = "failed"
          /\ \E r \in Request : req[r].pc = "selected" /\ g \in req[r].closes
<1>1. SlotInv /\ [Next]_vars => \A g \in Gen : Stays(g)
  <2> SUFFICES ASSUME SlotInv, [Next]_vars, NEW g \in Gen, status[g] \in TerminalStatuses
               PROVE  Stays(g)
    OBVIOUS
  <2>1. CASE QuietRows
    BY <2>1 DEF QuietRows
  <2>2. CASE \E r \in Request, d \in Skew : Select(r, d)
    BY <2>2 DEF Select, rowVars
  <2>3. ASSUME NEW r \in Request, NEW n \in Gen, CommitRow(r, n)
        PROVE  Stays(g)
    <3>1. Exists(g)
      BY DEF Exists, TerminalStatuses
    <3>2. CASE g \in req[r].closes
      <4>1. status[g] = "cancelled"
        BY <2>3, <3>1, <3>2, CommitSettles
           DEF SlotInv, ClosesUnresolved, Selected, Unresolved, TerminalStatuses
      <4> QED
        BY <2>3, <3>1, <3>2, <4>1, CommitSettles DEF SlotInv
    <3> QED
      BY <2>3, <3>1, <3>2, CommitSettles DEF SlotInv
  <2> QED
    BY <2>1, <2>2, <2>3, StepKinds DEF SlotInv
<1>2. [][\A g \in Gen : Stays(g)]_vars <=> TerminalStays
  BY PTL DEF TerminalStays
<1> QED
  BY <1>1, <1>2, SlotAlways, PTL DEF Spec

\* No step of any instance forgets that the user asked to stop: neither the end
\* of the retrieval, nor the end of the stream, nor a takeover.
THEOREM CancelKept == Spec => CancelNotLost
<1> DEFINE Kept(g) == status[g] = "cancel_requested" =>
       status'[g] \in {"cancel_requested", "cancelled", "reconciling", "failed"}
<1>1. TypeOK /\ [Next]_vars => \A g \in Gen : Kept(g)
  <2> SUFFICES ASSUME TypeOK, [Next]_vars, NEW g \in Gen, status[g] = "cancel_requested"
               PROVE  Kept(g)
    OBVIOUS
  <2>1. CASE QuietRows
    BY <2>1 DEF QuietRows, Unresolved
  <2>2. CASE \E r \in Request, d \in Skew : Select(r, d)
    BY <2>2 DEF Select, rowVars
  <2>3. ASSUME NEW r \in Request, NEW n \in Gen, CommitRow(r, n)
        PROVE  Kept(g)
    BY <2>3, CommitSettles DEF Exists
  <2> QED
    BY <2>1, <2>2, <2>3, StepKinds
<1>2. [][\A g \in Gen : Kept(g)]_vars <=> CancelNotLost
  BY PTL DEF CancelNotLost
<1> QED
  BY <1>1, <1>2, TypeCorrect, PTL DEF Spec

-----------------------------------------------------------------------------
(* Submissions and retries.                                                *)

\* Only Commit records a key, adds a row or names an owner; stored inputs stay.
Mild ==
  /\ record' = record /\ owner' = owner
  /\ \A g \in Gen : (Exists(g)' <=> Exists(g)) /\ (snapshot[g] => snapshot'[g])

LEMMA ReconcileMild ==
  ASSUME TypeOK, NEW S \in SUBSET Gen, NEW a, \A g \in S : Finishable(g), Reconcile(S, a),
         UNCHANGED <<record, owner, snapshot>>
  PROVE  Mild
BY DEF TypeOK, RowTypeOK, Reconcile, Mild, Exists, Finishable, FinishableStatuses

LEMMA UnchangedMild == UNCHANGED <<record, owner, snapshot, status>> => Mild
BY DEF Mild, Exists

LEMMA StepMild ==
  ASSUME TypeOK, [Next]_vars
  PROVE  Mild \/ \E r \in Request, g \in Gen : CommitRow(r, g)
<1>1. CASE UNCHANGED vars
  BY <1>1, UnchangedMild DEF vars
<1>2. CASE Tick
  BY <1>2, UnchangedMild DEF Tick
<1>3. ASSUME NEW i \in Instance, StartInstance(i) PROVE Mild
  <2> DEFINE S == {g \in Gen : Reclaimable(g)}
  <2>1. \A g \in S : Finishable(g)
    BY DEF Reclaimable
  <2> QED
    BY <1>3, <2>1, ReconcileMild, UnchangedMild DEF StartInstance
<1>4. ASSUME NEW i \in Instance, Shutdown(i) PROVE Mild
  <2>1. OwnFinishable(i) \in SUBSET Gen /\ \A g \in OwnFinishable(i) : Finishable(g)
    BY DEF OwnFinishable
  <2> QED
    BY <1>4, <2>1, ReconcileMild, UnchangedMild DEF Shutdown
<1>5. ASSUME NEW i \in Instance, Crash(i) \/ Heartbeat(i) PROVE Mild
  BY <1>5, UnchangedMild DEF Crash, Heartbeat, rowVars
<1>6. ASSUME NEW r \in Request, ReclaimForUser(r) PROVE Mild
  <2> DEFINE S == {g \in RowsOf(UserOfScope(req[r].scope)) : Reclaimable(g)}
  <2>1. S \in SUBSET Gen /\ \A g \in S : Finishable(g)
    BY DEF Reclaimable, RowsOf
  <2> QED
    BY <1>6, <2>1, ReconcileMild DEF ReclaimForUser
<1>7. ASSUME NEW r \in Request,
             \/ \E i \in Instance, s \in Scope, k \in Key : Submit(r, i, s, k)
             \/ Abort(r) \/ \E d \in Skew : Select(r, d) \/ Reject(r, d)
      PROVE  Mild
  BY <1>7, UnchangedMild DEF Submit, Abort, Select, Reject, rowVars
<1>8. ASSUME NEW g \in Gen, StartStream(g) \/ LoseStream(g) PROVE Mild
  BY <1>8, UnchangedMild DEF StartStream, LoseStream, rowVars
<1>9. ASSUME NEW g \in Gen, MarkRunning(g) PROVE Mild
  BY <1>9 DEF MarkRunning, MayRun, Mild, Exists, TypeOK, RowTypeOK
<1>10. ASSUME NEW g \in Gen, NEW s \in {"completed", "failed"}, Finish(g, s) PROVE Mild
  BY <1>10 DEF Finish, FinishedStatus, Finishable, FinishableStatuses, Mild, Exists,
     TypeOK, RowTypeOK
<1>11. ASSUME NEW g \in Gen, Disconnect(g) PROVE Mild
  <2> DEFINE S == {h \in {g} : Finishable(h)}
  <2>1. S \in SUBSET Gen /\ \A h \in S : Finishable(h)
    OBVIOUS
  <2> QED
    BY <1>11, <2>1, ReconcileMild DEF Disconnect
<1>12. ASSUME NEW g \in Gen, NEW i \in Instance, Cancel(i, g) PROVE Mild
  BY <1>12 DEF Cancel, Finishable, FinishableStatuses, Mild, Exists, TypeOK, RowTypeOK
<1> QED
  BY <1>1, <1>2, <1>3, <1>4, <1>5, <1>6, <1>7, <1>8, <1>9, <1>10, <1>11, <1>12
     DEF Next, Commit

\* A record names a row that exists, so that a new row is nobody's replay.
RecordsExist ==
  \A p \in Scope \X Key : record[p] # NoOne => Exists(record[p])

KeyInv == SlotInv /\ RecordsExist /\ OneGenerationPerKey /\ RetryStillAllowed

LEMMA KeyInit == Init => KeyInv
BY SlotInit DEF Init, KeyInv, RecordsExist, OneGenerationPerKey, RetryStillAllowed, IdleReq

\* Nothing that is not a Commit disturbs what a retry was allowed on.
LEMMA RetryKept ==
  ASSUME Mild, NEW s \in Gen, RetryAllowed(s), conv' = conv,
         status[s] \in TerminalStatuses => status'[s] = status[s]
  PROVE  /\ status'[s] \in TerminalStatuses /\ snapshot'[s]
         /\ \A h \in Gen : Exists(h)' /\ conv'[h] = conv'[s] => h <= s
BY DEF Mild, RetryAllowed

LEMMA MildKey ==
  ASSUME KeyInv, Mild, QuietRows, QuietReqs, SlotInv'
  PROVE  KeyInv'
<1>1. RecordsExist'
  <2> SUFFICES ASSUME NEW p \in Scope \X Key, record[p] # NoOne PROVE Exists(record[p])'
    BY DEF Mild, RecordsExist
  <2>1. record[p] \in Gen /\ Exists(record[p])
    BY DEF KeyInv, RecordsExist, SlotInv, TypeOK, RowTypeOK
  <2> QED
    BY <2>1 DEF Mild, Exists
<1>2. OneGenerationPerKey'
  BY DEF KeyInv, OneGenerationPerKey, Mild, QuietReqs, Selected
<1>3. RetryStillAllowed'
  <2> SUFFICES ASSUME NEW r \in Request, (Selected(r) /\ req[r].scope \in Gen)'
               PROVE  RetryAllowed(req[r].scope)'
    BY DEF RetryStillAllowed, Selected
  <2>1. req'[r] = req[r]
    BY DEF QuietReqs
  <2>2. req[r].scope \in Gen /\ RetryAllowed(req[r].scope)
    BY <2>1 DEF KeyInv, RetryStillAllowed, Selected
  <2>3. /\ status'[req[r].scope] \in TerminalStatuses /\ snapshot'[req[r].scope]
        /\ \A h \in Gen : Exists(h)' /\ conv'[h] = conv'[req[r].scope] => h <= req[r].scope
    BY <2>2, RetryKept DEF QuietRows
  <2> QED
    BY <2>1, <2>3 DEF RetryAllowed
<1> QED
  BY <1>1, <1>2, <1>3 DEF KeyInv

LEMMA SelectKey ==
  ASSUME KeyInv, NEW r \in Request, NEW d \in Skew, Select(r, d), SlotInv'
  PROVE  KeyInv'
<1>1. UNCHANGED <<status, conv, owner, snapshot, record>>
  BY DEF Select, rowVars
<1>2. /\ \A q \in Request \ {r} : req'[q] = req[q]
      /\ req'[r].scope = req[r].scope /\ req'[r].key = req[r].key
  BY DEF Select, KeyInv, SlotInv, TypeOK, ReqTypeOK
<1>3. /\ record[<<req[r].scope, req[r].key>>] = NoOne
      /\ req[r].scope \in Gen => RetryAllowed(req[r].scope)
  BY DEF Select, MayProceed, AlreadyRecorded
<1>4. OneGenerationPerKey'
  BY <1>1, <1>2, <1>3 DEF KeyInv, OneGenerationPerKey, Exists
<1>5. RetryStillAllowed'
  BY <1>1, <1>2, <1>3 DEF KeyInv, RetryStillAllowed, RetryAllowed, Exists
<1>6. RecordsExist'
  BY <1>1 DEF KeyInv, RecordsExist, Exists
<1> QED
  BY <1>4, <1>5, <1>6 DEF KeyInv

LEMMA CommitKey ==
  ASSUME KeyInv, NEW r \in Request, NEW g \in Gen, CommitRow(r, g), SlotInv'
  PROVE  KeyInv'
<1> DEFINE q == req[r]
           p == <<q.scope, q.key>>
<1>1. /\ Selected(r) /\ ~Exists(g) /\ record[p] = NoOne
      /\ q.scope \in Scope /\ q.key \in Key /\ p \in Scope \X Key
  BY DEF CommitRow, Selected, KeyInv, SlotInv, TypeOK, ReqTypeOK
<1>2. record'[p] = g /\ \A o \in Scope \X Key : o # p => record'[o] = record[o]
  BY <1>1 DEF CommitRow, KeyInv, SlotInv, TypeOK, RowTypeOK
<1>3. \A h \in Gen \ {g} : /\ owner'[h] = owner[h] /\ snapshot'[h] = snapshot[h]
                           /\ conv'[h] = conv[h]
  BY DEF CommitRow
<1>4. \A o \in Scope \X Key : record[o] # NoOne => record[o] \in Gen \ {g} /\ Exists(record[o])
  BY <1>1 DEF KeyInv, RecordsExist, SlotInv, TypeOK, RowTypeOK
<1>5. \A h \in Gen : Exists(h)' <=> Exists(h) \/ h = g
  <2>1. \A h \in q.closes : Exists(h)
    BY <1>1 DEF KeyInv, SlotInv, TypeOK, ReqTypeOK, Selected
  <2> QED
    BY <1>1, <2>1 DEF CommitRow, Exists
<1>6. \A s \in Request : Selected(s)' =>
        s # r /\ Selected(s) /\ req'[s] = req[s] /\ LockedUser(s) # LockedUser(r)
  BY <1>1 DEF CommitRow, KeyInv, SlotInv, OneHolder, TypeOK, ReqTypeOK, IdleReq, Selected
<1>7. RecordsExist'
  <2> SUFFICES ASSUME NEW o \in Scope \X Key, record'[o] # NoOne
               PROVE  (status')[record'[o]] # "absent"
    BY DEF RecordsExist, Exists
  <2>1. record'[o] \in Gen /\ (record'[o] = g \/ Exists(record'[o]))
    BY <1>2, <1>4
  <2> QED
    BY <2>1, <1>5 DEF Exists
<1>8. OneGenerationPerKey'
  <2>1. ASSUME NEW h \in Gen, Exists(h)', owner'[h] # NoOne
        PROVE  \E o \in Scope \X Key : \A x \in Scope \X Key : record'[x] = h <=> x = o
    <3>1. CASE h = g
      <4>1. \A x \in Scope \X Key : record'[x] = g <=> x = p
        BY <1>1, <1>2, <1>4, GenNumbers
      <4> QED
        BY <1>1, <3>1, <4>1
    <3>2. CASE h # g
      <4>1. Exists(h) /\ owner[h] # NoOne
        BY <1>3, <1>5, <2>1, <3>2
      <4>2. PICK o \in Scope \X Key : \A x \in Scope \X Key : record[x] = h <=> x = o
        BY <4>1 DEF KeyInv, OneGenerationPerKey
      <4>3. h # NoOne
        BY GenNumbers
      <4> QED
        BY <1>1, <1>2, <3>2, <4>2, <4>3
    <3> QED
      BY <3>1, <3>2
  <2>2. ASSUME NEW s \in Request, Selected(s)'
        PROVE  record'[<<req'[s].scope, req'[s].key>>] = NoOne
    <3>1. s # r /\ Selected(s) /\ req'[s] = req[s] /\ LockedUser(s) # LockedUser(r)
      BY <1>6, <2>2
    <3>2. req[s].scope # q.scope
      BY <3>1 DEF LockedUser
    <3>3. <<req[s].scope, req[s].key>> \in Scope \X Key /\ <<req[s].scope, req[s].key>> # p
      BY <3>1, <3>2 DEF KeyInv, SlotInv, TypeOK, ReqTypeOK, Selected
    <3> QED
      BY <1>2, <3>1, <3>3 DEF KeyInv, OneGenerationPerKey, Selected
  <2> QED
    BY <2>1, <2>2 DEF OneGenerationPerKey, Selected
<1>9. RetryStillAllowed'
  <2> SUFFICES ASSUME NEW s \in Request, (Selected(s) /\ req[s].scope \in Gen)'
               PROVE  RetryAllowed(req[s].scope)'
    BY DEF RetryStillAllowed, Selected
  <2> DEFINE o == req[s].scope
  <2>1. s # r /\ Selected(s) /\ req'[s] = req[s] /\ LockedUser(s) # LockedUser(r) /\ o \in Gen
    BY <1>6
  <2>2. RetryAllowed(o) /\ Exists(o) /\ o # g
    BY <1>1, <2>1 DEF KeyInv, RetryStillAllowed, SlotInv, TypeOK, ReqTypeOK, Selected
  <2>3. UserOf[conv[o]] # LockedUser(r)
    BY <2>1 DEF LockedUser, UserOfScope, ConvOf
  <2>4. o \notin q.closes
    BY <1>1, <2>3 DEF KeyInv, SlotInv, ClosesUnresolved
  <2>5. status'[o] = status[o]
    BY <2>1, <2>2, <2>4, CommitSettles DEF KeyInv, SlotInv
  <2>6. conv'[g] # conv'[o]
    <3>1. conv'[g] = ConvOf(q.scope)
      BY DEF CommitRow
    <3>2. UserOf[conv'[g]] = LockedUser(r) /\ conv'[o] = conv[o]
      BY <1>3, <2>1, <2>2, <3>1 DEF LockedUser, UserOfScope
    <3> QED
      BY <2>3, <3>2
  <2>7. /\ status'[o] \in TerminalStatuses /\ snapshot'[o]
        /\ \A h \in Gen : Exists(h)' /\ conv'[h] = conv'[o] => h <= o
    BY <1>3, <1>5, <2>1, <2>2, <2>5, <2>6 DEF RetryAllowed
  <2> QED
    BY <2>1, <2>7 DEF RetryAllowed
<1> QED
  BY <1>7, <1>8, <1>9 DEF KeyInv

LEMMA KeyStep == KeyInv /\ [Next]_vars => KeyInv'
<1> SUFFICES ASSUME KeyInv, [Next]_vars PROVE KeyInv'
  OBVIOUS
<1>1. SlotInv /\ TypeOK /\ SlotInv'
  BY SlotStep DEF KeyInv, SlotInv
<1>2. CASE \E r \in Request, g \in Gen : CommitRow(r, g)
  BY <1>1, <1>2, CommitKey
<1>3. CASE \E r \in Request, d \in Skew : Select(r, d)
  BY <1>1, <1>3, SelectKey
<1>4. CASE QuietRows /\ QuietReqs
  BY <1>1, <1>2, <1>4, MildKey, StepMild
<1> QED
  BY <1>1, <1>2, <1>3, <1>4, StepKinds

LEMMA KeyAlways == Spec => []KeyInv
BY KeyInit, KeyStep, PTL DEF Spec

\* A submission makes one generation, and the insert of a request never meets
\* its own key: the lookup under the user's lock is enough.
THEOREM OneGenerationPerKeyAlways == Spec => []OneGenerationPerKey
<1>1. KeyInv => OneGenerationPerKey
  BY DEF KeyInv
<1> QED
  BY <1>1, KeyAlways, PTL

\* What create_retry_generation checked of the original holds at its commit.
THEOREM RetryAllowedAtCommit == Spec => []RetryStillAllowed
<1>1. KeyInv => RetryStillAllowed
  BY DEF KeyInv
<1> QED
  BY <1>1, KeyAlways, PTL

-----------------------------------------------------------------------------
(* Streams: what runs, what is stored and what is told.                    *)

\* A stream under way belongs to a row; if a queued row streams, it is a retry
\* or its retrieval is over, and both store the input.
StreamsBacked ==
  \A g \in Gen :
    /\ stream[g] \in InFlight => Exists(g)
    /\ status[g] = "queued" /\ stream[g] = "streaming" => snapshot[g]

StreamInv == StreamsBacked /\ AnswerHasInput /\ ToldIsRecorded

LEMMA StreamInit == Init => StreamInv
<1> SUFFICES ASSUME Init PROVE StreamInv
  OBVIOUS
<1>1. ToldIsRecorded
  BY DEF Init, ToldIsRecorded
<1>2. CASE NoRows
  BY <1>1, <1>2 DEF NoRows, StreamInv, StreamsBacked, AnswerHasInput, InFlight
<1>3. CASE OneLegacyRow
  <2>1. PICK w \in LegacyRowStates :
          /\ status = [g \in Gen |-> IF g = 1 THEN w.status ELSE "absent"]
          /\ snapshot = [g \in Gen |-> g = 1 /\ w.snapshot]
          /\ stream = [g \in Gen |-> IF g = 1 THEN w.stream ELSE "none"]
    BY <1>3 DEF OneLegacyRow
  <2>2. /\ w.status \in FinishableStatuses
        /\ w.status = "queued" => w.stream # "streaming"
        /\ w.status = "running" => w.snapshot
    BY DEF LegacyRowStates
  <2>3. StreamsBacked /\ AnswerHasInput
    BY <2>1, <2>2 DEF StreamsBacked, AnswerHasInput, Exists, InFlight, FinishableStatuses
  <2> QED
    BY <1>1, <2>3 DEF StreamInv
<1> QED
  BY <1>2, <1>3 DEF Init

\* The steps that end streams, ask them to stop or take their rows away.
Aside ==
  /\ told' = told
  /\ \A g \in Gen :
       /\ snapshot'[g] = snapshot[g]
       /\ status'[g] = status[g] \/ (Finishable(g) /\ status'[g] \in {"reconciling", "cancel_requested"})
       /\ stream'[g] = stream[g] \/ stream'[g] = "ended"

LEMMA AsideStep == StreamInv /\ Aside => StreamInv'
<1> SUFFICES ASSUME StreamInv, Aside PROVE StreamInv'
  OBVIOUS
<1>1. StreamsBacked'
  BY DEF StreamInv, Aside, StreamsBacked, Exists, InFlight
<1>2. AnswerHasInput'
  BY DEF StreamInv, Aside, AnswerHasInput
<1>3. ToldIsRecorded'
  BY DEF StreamInv, Aside, ToldIsRecorded, Finishable, FinishableStatuses
<1> QED
  BY <1>1, <1>2, <1>3 DEF StreamInv

LEMMA ReconcileAside ==
  ASSUME NEW S \in SUBSET Gen, NEW a, \A g \in S : Finishable(g), Reconcile(S, a),
         UNCHANGED <<snapshot, told>>,
         \A g \in Gen : stream'[g] = stream[g] \/ stream'[g] = "ended"
  PROVE  Aside
BY DEF Reconcile, Aside

LEMMA UnchangedAside ==
  ASSUME UNCHANGED <<status, snapshot, told>>,
         \A g \in Gen : stream'[g] = stream[g] \/ stream'[g] = "ended"
  PROVE  Aside
BY DEF Aside

LEMMA StartStreamInput ==
  ASSUME StreamInv, TypeOK, NEW g \in Gen, StartStream(g) PROVE StreamInv'
<1>1. /\ UNCHANGED <<status, snapshot, told>> /\ stream[g] = "handoff"
      /\ \A h \in Gen \ {g} : stream'[h] = stream[h]
      /\ stream'[g] = IF snapshot[g] THEN "streaming" ELSE "retrieving"
  BY DEF StartStream, rowVars, TypeOK, StreamTypeOK
<1>2. StreamsBacked'
  BY <1>1 DEF StreamInv, StreamsBacked, Exists, InFlight
<1> QED
  BY <1>1, <1>2 DEF StreamInv, AnswerHasInput, ToldIsRecorded

LEMMA MarkRunningInput ==
  ASSUME StreamInv, TypeOK, NEW g \in Gen, MarkRunning(g) PROVE StreamInv'
<1>1. /\ stream[g] = "retrieving" /\ stream'[g] = "streaming" /\ told' = told
      /\ \A h \in Gen \ {g} : /\ stream'[h] = stream[h] /\ status'[h] = status[h]
                              /\ snapshot'[h] = snapshot[h]
      /\ IF status[g] = "queued" THEN status'[g] = "running" /\ snapshot'[g]
                                 ELSE status'[g] = status[g] /\ snapshot'[g] = snapshot[g]
  BY DEF MarkRunning, MayRun, TypeOK, RowTypeOK, StreamTypeOK
<1>2. StreamsBacked'
  BY <1>1 DEF StreamInv, StreamsBacked, Exists, InFlight
<1>3. AnswerHasInput'
  BY <1>1 DEF StreamInv, AnswerHasInput
<1>4. ToldIsRecorded'
  BY <1>1 DEF StreamInv, ToldIsRecorded
<1> QED
  BY <1>2, <1>3, <1>4 DEF StreamInv

LEMMA FinishInput ==
  ASSUME StreamInv, TypeOK, NEW g \in Gen, NEW s \in {"completed", "failed"}, Finish(g, s)
  PROVE  StreamInv'
<1>1. /\ stream[g] \in {"retrieving", "streaming"} /\ stream'[g] = "ended"
      /\ s = "completed" => stream[g] = "streaming"
      /\ status'[g] = FinishedStatus(g, s) /\ told'[g] = TerminalEvent(g, s)
      /\ snapshot' = snapshot
      /\ \A h \in Gen \ {g} : /\ stream'[h] = stream[h] /\ status'[h] = status[h]
                              /\ told'[h] = told[h]
  BY DEF Finish, TypeOK, RowTypeOK, StreamTypeOK
<1>2. Exists(g)
  BY <1>1 DEF StreamInv, StreamsBacked, InFlight
<1>3. /\ FinishedStatus(g, s) \in TerminalStatuses \cup {"reconciling"}
      /\ FinishedStatus(g, s) = "completed" =>
           status[g] = "completed" \/ (s = "completed" /\ status[g] \in {"queued", "running"})
  BY <1>2 DEF FinishedStatus, Finishable, FinishableStatuses, TerminalStatuses, Exists,
     TypeOK, RowTypeOK, Statuses, ActiveStatuses
<1>4. StreamsBacked'
  <2>1. Exists(g)'
    BY <1>1, <1>3 DEF Exists, TerminalStatuses
  <2> QED
    BY <1>1, <2>1 DEF StreamInv, StreamsBacked, Exists, InFlight
<1>5. AnswerHasInput'
  BY <1>1, <1>3 DEF StreamInv, StreamsBacked, AnswerHasInput, TerminalStatuses
<1>6. ToldIsRecorded'
  BY <1>1, <1>3 DEF StreamInv, ToldIsRecorded, TerminalEvent, TerminalStatuses
<1> QED
  BY <1>4, <1>5, <1>6 DEF StreamInv

LEMMA CommitInput ==
  ASSUME KeyInv, StreamInv, NEW r \in Request, NEW g \in Gen, CommitRow(r, g)
  PROVE  StreamInv'
<1> DEFINE q == req[r]
<1>1. TypeOK /\ ~Exists(g) /\ Selected(r)
  BY DEF KeyInv, SlotInv, CommitRow, Selected
<1>2. /\ told' = told /\ stream'[g] = "handoff"
      /\ \A h \in Gen \ {g} : stream'[h] = stream[h] /\ snapshot'[h] = snapshot[h]
  BY DEF CommitRow
<1>3. status'[g] = "queued" \/ (status'[g] = "running" /\ snapshot'[g])
  <2>1. q.scope \in Gen => snapshot[q.scope]
    BY <1>1 DEF KeyInv, RetryStillAllowed, RetryAllowed, Selected
  <2> QED
    BY <2>1 DEF CommitRow
<1>4. \A h \in Gen \ {g} : status'[h] = status[h] \/
        (status'[h] = "failed" /\ Unresolved(h))
  BY <1>1 DEF CommitRow, KeyInv, SlotInv, ClosesUnresolved
<1>5. told[g] = "none"
  BY <1>1 DEF StreamInv, ToldIsRecorded, Exists, TypeOK, StreamTypeOK, TerminalStatuses
<1>6. StreamsBacked'
  BY <1>2, <1>3, <1>4 DEF StreamInv, StreamsBacked, Exists, InFlight
<1>7. AnswerHasInput'
  BY <1>2, <1>3, <1>4 DEF StreamInv, AnswerHasInput
<1>8. ToldIsRecorded'
  BY <1>2, <1>4, <1>5 DEF StreamInv, ToldIsRecorded, Unresolved
<1> QED
  BY <1>6, <1>7, <1>8 DEF StreamInv

LEMMA StreamInvStep == KeyInv /\ StreamInv /\ [Next]_vars => StreamInv'
<1> SUFFICES ASSUME KeyInv, StreamInv, [Next]_vars PROVE StreamInv'
  OBVIOUS
<1>0. TypeOK
  BY DEF KeyInv, SlotInv
<1>1. CASE UNCHANGED vars
  BY <1>1, UnchangedAside, AsideStep DEF vars
<1>2. CASE Tick
  BY <1>2, UnchangedAside, AsideStep DEF Tick, streamVars
<1>3. ASSUME NEW i \in Instance, StartInstance(i) PROVE StreamInv'
  <2> DEFINE S == {g \in Gen : Reclaimable(g)}
  <2>1. \A g \in S : Finishable(g)
    BY DEF Reclaimable
  <2> QED
    BY <1>3, <2>1, ReconcileAside, UnchangedAside, AsideStep DEF StartInstance, streamVars
<1>4. ASSUME NEW i \in Instance, Shutdown(i) PROVE StreamInv'
  <2>1. OwnFinishable(i) \in SUBSET Gen /\ \A g \in OwnFinishable(i) : Finishable(g)
    BY DEF OwnFinishable
  <2> QED
    BY <1>4, <2>1, ReconcileAside, UnchangedAside, AsideStep DEF Shutdown, streamVars
<1>5. ASSUME NEW i \in Instance, Crash(i) \/ Heartbeat(i) PROVE StreamInv'
  BY <1>5, UnchangedAside, AsideStep DEF Crash, Heartbeat, rowVars
<1>6. ASSUME NEW r \in Request, ReclaimForUser(r) PROVE StreamInv'
  <2> DEFINE S == {g \in RowsOf(UserOfScope(req[r].scope)) : Reclaimable(g)}
  <2>1. S \in SUBSET Gen /\ \A g \in S : Finishable(g)
    BY DEF Reclaimable, RowsOf
  <2> QED
    BY <1>6, <2>1, ReconcileAside, AsideStep DEF ReclaimForUser, streamVars
<1>7. ASSUME NEW r \in Request,
             \/ \E i \in Instance, s \in Scope, k \in Key : Submit(r, i, s, k)
             \/ Abort(r) \/ \E d \in Skew : Select(r, d) \/ Reject(r, d)
      PROVE  StreamInv'
  BY <1>7, UnchangedAside, AsideStep DEF Submit, Abort, Select, Reject, rowVars, streamVars
<1>8. ASSUME NEW g \in Gen, LoseStream(g) PROVE StreamInv'
  BY <1>0, <1>8, UnchangedAside, AsideStep DEF LoseStream, rowVars, TypeOK, StreamTypeOK
<1>9. ASSUME NEW g \in Gen, Disconnect(g) PROVE StreamInv'
  <2> DEFINE S == {h \in {g} : Finishable(h)}
  <2>1. S \in SUBSET Gen /\ \A h \in S : Finishable(h)
    OBVIOUS
  <2>2. \A h \in Gen : stream'[h] = stream[h] \/ stream'[h] = "ended"
    BY <1>0, <1>9 DEF Disconnect, TypeOK, StreamTypeOK
  <2> QED
    BY <1>9, <2>1, <2>2, ReconcileAside, AsideStep DEF Disconnect
<1>10. ASSUME NEW g \in Gen, NEW i \in Instance, Cancel(i, g) PROVE StreamInv'
  <2>1. Aside
    BY <1>0, <1>10 DEF Cancel, Aside, TypeOK, RowTypeOK
  <2> QED
    BY <2>1, AsideStep
<1>11. ASSUME NEW g \in Gen, StartStream(g) \/ MarkRunning(g) PROVE StreamInv'
  BY <1>0, <1>11, StartStreamInput, MarkRunningInput
<1>12. ASSUME NEW g \in Gen, NEW s \in {"completed", "failed"}, Finish(g, s) PROVE StreamInv'
  BY <1>0, <1>12, FinishInput
<1>13. ASSUME NEW r \in Request, NEW g \in Gen, CommitRow(r, g) PROVE StreamInv'
  BY <1>13, CommitInput
<1> QED
  BY <1>1, <1>2, <1>3, <1>4, <1>5, <1>6, <1>7, <1>8, <1>9, <1>10, <1>11, <1>12, <1>13
     DEF Next, Commit

LEMMA StreamAlways == Spec => []StreamInv
BY StreamInit, StreamInvStep, KeyAlways, PTL DEF Spec

\* An answer has its input stored, through any number of retries of retries.
THEOREM AnswerHasInputAlways == Spec => []AnswerHasInput
<1>1. StreamInv => AnswerHasInput
  BY DEF StreamInv
<1> QED
  BY <1>1, StreamAlways, PTL

\* Finishing the row first and telling its stored status keeps clients from
\* being told more than is recorded, whoever else acts on the row.
THEOREM ToldIsRecordedAlways == Spec => []ToldIsRecorded
<1>1. StreamInv => ToldIsRecorded
  BY DEF StreamInv
<1> QED
  BY <1>1, StreamAlways, PTL

-----------------------------------------------------------------------------
(* A row whose result is unknown.                                          *)

\* What may happen to such a row in one step.
Alone(g) ==
  \/ status'[g] = "reconciling" /\ age'[g] >= age[g]
  \/ /\ status'[g] = "failed"
     /\ \E r \in Request : req[r].pc = "selected" /\ g \in req[r].closes

\* A statement that reconciles what can still be finished passes the row by.
LEMMA ReconcilePassesBy ==
  ASSUME TypeOK, NEW S, \A h \in S : Finishable(h), NEW a, Reconcile(S, a),
         NEW g \in Gen, status[g] = "reconciling"
  PROVE  Alone(g)
<1>1. g \notin S
  BY DEF Finishable, FinishableStatuses
<1> QED
  BY <1>1 DEF Reconcile, Alone, TypeOK, RowTypeOK

LEMMA UnknownStep ==
  ASSUME TypeOK, [Next]_vars, NEW g \in Gen, status[g] = "reconciling"
  PROVE  Alone(g)
<1>0. ~Finishable(g) /\ age[g] \in Int
  BY DEF Finishable, FinishableStatuses, TypeOK, RowTypeOK
<1>1. ASSUME UNCHANGED <<status, age>> PROVE Alone(g)
  BY <1>0, <1>1 DEF Alone
<1>2. CASE Tick
  <2>1. status' = status
    BY <1>2 DEF Tick
  <2>2. age'[g] = age[g] \/ age'[g] = age[g] + 1
    BY <1>2 DEF Tick
  <2> QED
    BY <1>0, <2>1, <2>2 DEF Alone
<1>3. ASSUME NEW i \in Instance, StartInstance(i) PROVE Alone(g)
  BY <1>1, <1>3, ReconcilePassesBy DEF StartInstance, Reclaimable
<1>4. ASSUME NEW i \in Instance, Shutdown(i) PROVE Alone(g)
  BY <1>1, <1>4, ReconcilePassesBy DEF Shutdown, OwnFinishable
<1>5. ASSUME NEW r \in Request, ReclaimForUser(r) PROVE Alone(g)
  BY <1>5, ReconcilePassesBy DEF ReclaimForUser, Reclaimable
<1>6. ASSUME NEW h \in Gen, Disconnect(h) PROVE Alone(g)
  BY <1>6, ReconcilePassesBy DEF Disconnect
<1>7. ASSUME NEW r \in Request, NEW h \in Gen, CommitRow(r, h) PROVE Alone(g)
  <2>1. req[r].pc = "selected" /\ h # g
    BY <1>7 DEF CommitRow, Exists
  <2>2. CASE g \in req[r].closes
    BY <1>7, <2>1, <2>2 DEF CommitRow, Alone
  <2>3. CASE g \notin req[r].closes
    <3>1. status'[g] = status[g] /\ age'[g] = age[g]
      BY <1>7, <2>1, <2>3 DEF CommitRow
    <3> QED
      BY <1>0, <3>1 DEF Alone
  <2> QED
    BY <2>2, <2>3
<1>8. ASSUME NEW h \in Gen, MarkRunning(h) PROVE Alone(g)
  <2>1. status'[g] = status[g] /\ age'[g] = age[g]
    BY <1>8 DEF MarkRunning, MayRun, TypeOK, RowTypeOK
  <2> QED
    BY <1>0, <2>1 DEF Alone
<1>9. ASSUME NEW h \in Gen, NEW s \in {"completed", "failed"}, Finish(h, s) PROVE Alone(g)
  <2>1. status'[g] = status[g]
    BY <1>0, <1>9 DEF Finish, FinishedStatus, TypeOK, RowTypeOK
  <2>2. age'[g] = age[g]
    BY <1>0, <1>9 DEF Finish, TypeOK, RowTypeOK
  <2> QED
    BY <1>0, <2>1, <2>2 DEF Alone
<1>10. ASSUME NEW h \in Gen, NEW i \in Instance, Cancel(i, h) PROVE Alone(g)
  <2>1. status'[g] = status[g] /\ age'[g] = age[g]
    BY <1>0, <1>10 DEF Cancel, TypeOK, RowTypeOK
  <2> QED
    BY <1>0, <2>1 DEF Alone
<1>11. ASSUME \/ UNCHANGED vars
              \/ \E i \in Instance : Crash(i) \/ Heartbeat(i)
              \/ \E r \in Request :
                   \/ \E i \in Instance, s \in Scope, k \in Key : Submit(r, i, s, k)
                   \/ Abort(r) \/ \E d \in Skew : Select(r, d) \/ Reject(r, d)
              \/ \E h \in Gen : StartStream(h) \/ LoseStream(h)
       PROVE  Alone(g)
  <2>1. UNCHANGED <<status, age>>
    BY <1>11 DEF vars, Crash, Heartbeat, Submit, Abort, Select, Reject, StartStream,
       LoseStream, rowVars
  <2> QED
    BY <1>1, <2>1
<1> QED
  BY <1>2, <1>3, <1>4, <1>5, <1>6, <1>7, <1>8, <1>9, <1>10, <1>11 DEF Next, Commit

\* Whatever a late owner, its client or another instance still do: a row that was
\* taken from it is not brought back, not finished and not made to wait anew; only
\* the request that found it stale ends it.
THEOREM UnknownIsLeftAlone == Spec => UnknownLeftAlone
<1>1. TypeOK /\ [Next]_vars => \A g \in Gen : status[g] = "reconciling" => Alone(g)
  BY UnknownStep
<1>2. [][\A g \in Gen : status[g] = "reconciling" => Alone(g)]_vars <=> UnknownLeftAlone
  BY PTL DEF UnknownLeftAlone, Alone
<1> QED
  BY <1>1, <1>2, TypeCorrect, PTL DEF Spec

-----------------------------------------------------------------------------
(* What a crash costs.  The bound is inductive only with what the process  *)
(* takes along when it dies: its generators and its requests, so that no   *)
(* step of theirs moves a row of a dead owner.                             *)

Late(i) == Capped(deadFor[i] - Lease)

Owed(g) ==
  owner[g] # NoOne /\ inst[owner[g]] = "dead" =>
    /\ Finishable(g) => -lease[g] >= Late(owner[g])
    /\ status[g] = "reconciling" => age[g] >= Late(owner[g])

Working(i) == inst[i] \in {"up", "stopping"}

DeathIsCounted == \A i \in Instance : inst[i] # "dead" => deadFor[i] = 0
NoGhostStream == \A g \in Gen : stream[g] \in InFlight /\ owner[g] # NoOne => Working(owner[g])
NoGhostRequest == \A r \in Request : req[r].pc # "idle" => Working(req[r].inst)

CrashInv ==
  TypeOK /\ DeathIsCounted /\ NoGhostStream /\ NoGhostRequest /\ \A g \in Gen : Owed(g)

LEMMA CrashInit == Init => CrashInv
BY TypeInit
   DEF Init, CrashInv, DeathIsCounted, NoGhostStream, NoGhostRequest, Owed, IdleReq

\* Instances neither start nor die, rows keep their owners, and neither a stream
\* nor a request begins.
Calm ==
  /\ instVars' = instVars /\ owner' = owner
  /\ \A g \in Gen : stream'[g] \in InFlight => stream[g] \in InFlight
  /\ \A r \in Request : req'[r].pc # "idle" =>
       req[r].pc # "idle" /\ req'[r].inst = req[r].inst

LEMMA CalmStep ==
  ASSUME CrashInv, TypeOK', Calm, \A g \in Gen : Owed(g)'
  PROVE  CrashInv'
<1>1. inst' = inst /\ deadFor' = deadFor /\ owner' = owner
  BY DEF Calm, instVars
<1>2. DeathIsCounted'
  BY <1>1 DEF CrashInv, DeathIsCounted
<1>3. NoGhostStream'
  BY <1>1 DEF CrashInv, NoGhostStream, Calm, Working
<1>4. NoGhostRequest'
  BY <1>1 DEF CrashInv, NoGhostRequest, Calm, Working
<1> QED
  BY <1>2, <1>3, <1>4 DEF CrashInv

\* A row stays within its bound if it does not move, or its owner is not dead.
LEMMA OwedStays ==
  ASSUME NEW g \in Gen, Owed(g), instVars' = instVars, owner'[g] = owner[g],
         \/ owner[g] # NoOne => Working(owner[g])
         \/ status'[g] = status[g] /\ lease'[g] = lease[g] /\ age'[g] = age[g]
         \/ status'[g] \in TerminalStatuses
         \/ Finishable(g) /\ lease'[g] = lease[g] /\ status'[g] \in FinishableStatuses
  PROVE  Owed(g)'
<1>1. inst' = inst /\ deadFor' = deadFor
  BY DEF instVars
<1> QED
  BY <1>1 DEF Owed, Working, Late, Capped, Finishable, FinishableStatuses, TerminalStatuses

\* A reclaim hands the end of the lease on as the age of the row.
LEMMA ReclaimOwed ==
  ASSUME CrashInv, NEW S, \A g \in S : Reclaimable(g), Reconcile(S, LastAlive), owner' = owner,
         deadFor' = deadFor,
         \A i \in Instance : inst'[i] = "dead" => inst[i] = "dead",
         NEW g \in Gen
  PROVE  Owed(g)'
<1> SUFFICES ASSUME owner[g] # NoOne, inst'[owner[g]] = "dead"
             PROVE  /\ Finishable(g)' => -(lease'[g]) >= Late(owner[g])
                    /\ status'[g] = "reconciling" => age'[g] >= Late(owner[g])
  BY DEF Owed, Late, Capped
<1>1. owner[g] \in Instance /\ inst[owner[g]] = "dead"
  BY DEF CrashInv, TypeOK, RowTypeOK
<1>2. CASE g \in S
  <2>1. status'[g] = "reconciling" /\ age'[g] = -lease[g] /\ Finishable(g)
    BY <1>2 DEF Reconcile, LastAlive, ReclaimedAge, Reclaimable
  <2> QED
    BY <1>1, <2>1 DEF CrashInv, Owed, Finishable, FinishableStatuses
<1>3. CASE g \notin S
  BY <1>1, <1>3 DEF Reconcile, CrashInv, Owed, Finishable
<1> QED
  BY <1>2, <1>3

LEMMA TickOwed ==
  ASSUME CrashInv, Tick, NEW g \in Gen
  PROVE  Owed(g)'
<1> SUFFICES ASSUME owner[g] # NoOne, inst[owner[g]] = "dead"
             PROVE  /\ Finishable(g) => -(lease'[g]) >= Late(owner[g])'
                    /\ status[g] = "reconciling" => age'[g] >= Late(owner[g])'
  BY DEF Tick, Owed, Finishable
<1> DEFINE i == owner[g]
<1>1. /\ i \in Instance /\ deadFor[i] \in Nat /\ deadFor'[i] \in Nat
      /\ deadFor'[i] <= deadFor[i] + 1
  BY Bounds DEF Tick, CrashInv, TypeOK, RowTypeOK, InstTypeOK
<1>2. lease[g] \in (-MaxAge) .. Lease /\ age[g] \in 0 .. MaxAge
  BY DEF CrashInv, TypeOK, RowTypeOK
<1>3. /\ Finishable(g) => -lease[g] >= Late(i)
      /\ status[g] = "reconciling" => age[g] >= Late(i)
  BY DEF CrashInv, Owed
<1>4. Late(i)' <= MaxAge /\ Late(i)' <= Late(i) + 1
  BY <1>1, Bounds DEF Late, Capped, Tick
<1>5. ASSUME Finishable(g) PROVE -(lease'[g]) >= Late(i)'
  <2>1. lease'[g] = IF lease[g] > -MaxAge THEN lease[g] - 1 ELSE lease[g]
    BY <1>5 DEF Tick
  <2>2. Late(i) \in Int /\ Late(i)' \in Int
    BY <1>1, Bounds DEF Late, Capped, Tick
  <2> QED
    BY <1>2, <1>3, <1>4, <1>5, <2>1, <2>2, Bounds
<1>6. ASSUME status[g] = "reconciling" PROVE age'[g] >= Late(i)'
  <2>1. age'[g] = IF age[g] < MaxAge THEN age[g] + 1 ELSE age[g]
    BY <1>6 DEF Tick, AgeMatters
  <2>2. Late(i) \in Int /\ Late(i)' \in Int
    BY <1>1, Bounds DEF Late, Capped, Tick
  <2> QED
    BY <1>2, <1>3, <1>4, <1>6, <2>1, <2>2, Bounds
<1> QED
  BY <1>5, <1>6

LEMMA TickCrash == ASSUME CrashInv, TypeOK', Tick PROVE CrashInv'
<1>1. \A g \in Gen : Owed(g)'
  BY TickOwed
<1>2. DeathIsCounted'
  BY DEF Tick, CrashInv, DeathIsCounted, TypeOK, InstTypeOK
<1>3. NoGhostStream' /\ NoGhostRequest'
  BY DEF Tick, CrashInv, NoGhostStream, NoGhostRequest, Working, streamVars
<1> QED
  BY <1>1, <1>2, <1>3 DEF CrashInv

LEMMA StartCrash ==
  ASSUME CrashInv, TypeOK', NEW i \in Instance, StartInstance(i)
  PROVE  CrashInv'
<1> DEFINE S == {g \in Gen : Reclaimable(g)}
<1>1. /\ inst[i] = "new" /\ inst' = [inst EXCEPT ![i] = "up"]
      /\ UNCHANGED <<deadFor, owner, stream, req>>
  BY DEF StartInstance, streamVars
<1>2. \A j \in Instance : (inst'[j] = "dead" <=> inst[j] = "dead") /\ (Working(j) => Working(j)')
  BY <1>1 DEF CrashInv, TypeOK, InstTypeOK, Working
<1>3. \A g \in Gen : Owed(g)'
  <2>1. CASE Reconcile(S, LastAlive)
    <3>1. \A g \in S : Reclaimable(g)
      OBVIOUS
    <3> QED
      BY <1>1, <1>2, <2>1, <3>1, ReclaimOwed
  <2>2. CASE UNCHANGED <<status, age, lease>>
    <3> SUFFICES ASSUME NEW g \in Gen, owner[g] # NoOne PROVE Owed(g)'
      BY <1>1 DEF Owed
    <3>1. owner[g] \in Instance
      BY DEF CrashInv, TypeOK, RowTypeOK
    <3> QED
      BY <1>1, <1>2, <2>2, <3>1 DEF CrashInv, Owed, Late, Capped, Finishable
  <2> QED
    BY <2>1, <2>2 DEF StartInstance
<1>4. DeathIsCounted'
  BY <1>1, <1>2 DEF CrashInv, DeathIsCounted
<1>5. NoGhostStream'
  BY <1>1, <1>2 DEF CrashInv, NoGhostStream, TypeOK, RowTypeOK
<1>6. NoGhostRequest'
  BY <1>1, <1>2 DEF CrashInv, NoGhostRequest, TypeOK, ReqTypeOK
<1> QED
  BY <1>3, <1>4, <1>5, <1>6 DEF CrashInv

LEMMA ShutdownCrash ==
  ASSUME CrashInv, TypeOK', NEW i \in Instance, Shutdown(i)
  PROVE  CrashInv'
<1>1. /\ inst[i] = "up" /\ inst' = [inst EXCEPT ![i] = "stopping"]
      /\ UNCHANGED <<deadFor, owner, stream, req>>
  BY DEF Shutdown, streamVars
<1>2. \A j \in Instance : (inst'[j] = "dead" <=> inst[j] = "dead") /\ (Working(j) => Working(j)')
  BY <1>1 DEF CrashInv, TypeOK, InstTypeOK, Working
<1>3. \A g \in Gen : Owed(g)'
  <2> SUFFICES ASSUME NEW g \in Gen, owner[g] # NoOne, inst'[owner[g]] = "dead" PROVE Owed(g)'
    BY <1>1 DEF Owed
  <2>1. owner[g] \in Instance /\ inst[owner[g]] = "dead"
    BY <1>2 DEF CrashInv, TypeOK, RowTypeOK
  <2>2. g \notin OwnFinishable(i)
    BY <1>1, <2>1 DEF OwnFinishable
  <2>3. status'[g] = status[g] /\ age'[g] = age[g] /\ lease'[g] = lease[g]
    BY <2>2 DEF Shutdown, Reconcile
  <2> QED
    BY <1>1, <2>1, <2>3 DEF CrashInv, Owed, Late, Capped, Finishable
<1>4. DeathIsCounted'
  BY <1>1, <1>2 DEF CrashInv, DeathIsCounted
<1>5. NoGhostStream'
  BY <1>1, <1>2 DEF CrashInv, NoGhostStream, TypeOK, RowTypeOK
<1>6. NoGhostRequest'
  BY <1>1, <1>2 DEF CrashInv, NoGhostRequest, TypeOK, ReqTypeOK
<1> QED
  BY <1>3, <1>4, <1>5, <1>6 DEF CrashInv

\* At its death an instance leaves rows whose lease is at most one Lease away.
LEMMA CrashCrash ==
  ASSUME CrashInv, TypeOK', NEW i \in Instance, Crash(i)
  PROVE  CrashInv'
<1>1. /\ Working(i) /\ inst' = [inst EXCEPT ![i] = "dead"] /\ UNCHANGED <<deadFor, rowVars>>
      /\ \A g \in Gen : stream'[g] \in InFlight => stream[g] \in InFlight /\ owner[g] # i
      /\ \A r \in Request : req'[r].pc # "idle" => req'[r] = req[r] /\ req[r].inst # i
  BY DEF Crash, Working, InFlight, IdleReq
<1>2. inst'[i] = "dead" /\ \A j \in Instance \ {i} : inst'[j] = inst[j]
  BY <1>1 DEF CrashInv, TypeOK, InstTypeOK
<1>3. ASSUME NEW g \in Gen PROVE Owed(g)'
  <2> SUFFICES ASSUME owner[g] # NoOne PROVE Owed(g)'
    BY <1>1 DEF Owed, rowVars
  <2>1. owner[g] \in Instance
    BY DEF CrashInv, TypeOK, RowTypeOK
  <2>2. CASE owner[g] = i
    <3>1. deadFor[i] = 0
      BY <1>1 DEF CrashInv, DeathIsCounted, Working
    <3>2. Late(i)' <= -Lease
      BY <1>1, <3>1, Bounds DEF Late, Capped
    <3>3. lease[g] \in (-MaxAge) .. Lease /\ age[g] \in 0 .. MaxAge
      BY DEF CrashInv, TypeOK, RowTypeOK
    <3>4. Late(i)' \in Int
      BY <1>1, <3>1, Bounds DEF Late, Capped
    <3>5. -lease[g] >= Late(i)' /\ age[g] >= Late(i)'
      BY <3>2, <3>3, <3>4, Bounds
    <3> QED
      BY <1>1, <2>2, <3>5 DEF Owed, rowVars, Finishable
  <2>3. CASE owner[g] # i
    BY <1>1, <1>2, <2>1, <2>3 DEF CrashInv, Owed, Late, Capped, rowVars, Finishable
  <2> QED
    BY <2>2, <2>3
<1>4. DeathIsCounted'
  BY <1>1, <1>2 DEF CrashInv, DeathIsCounted
<1>5. NoGhostStream'
  BY <1>1, <1>2 DEF CrashInv, NoGhostStream, TypeOK, RowTypeOK, Working, rowVars
<1>6. NoGhostRequest'
  BY <1>1, <1>2 DEF CrashInv, NoGhostRequest, TypeOK, ReqTypeOK, Working
<1> QED
  BY <1>3, <1>4, <1>5, <1>6 DEF CrashInv

LEMMA HeartbeatCrash ==
  ASSUME CrashInv, TypeOK', NEW i \in Instance, Heartbeat(i)
  PROVE  CrashInv'
<1>1. Calm
  BY DEF Heartbeat, Calm
<1>2. ASSUME NEW g \in Gen PROVE Owed(g)'
  <2>1. g \in OwnFinishable(i) => Working(owner[g])
    BY DEF Heartbeat, OwnFinishable, Working
  <2>2. g \notin OwnFinishable(i) => lease'[g] = lease[g]
    BY DEF Heartbeat
  <2> QED
    BY <2>1, <2>2, OwedStays DEF Heartbeat, CrashInv
<1> QED
  BY <1>1, <1>2, CalmStep

\* Requests begin only on an instance that is up, and end with theirs.
LEMMA RequestCrash ==
  ASSUME CrashInv, TypeOK', NEW r \in Request,
         \/ \E i \in Instance, s \in Scope, k \in Key : Submit(r, i, s, k)
         \/ ReclaimForUser(r) \/ Abort(r)
         \/ \E d \in Skew : Select(r, d) \/ Reject(r, d)
  PROVE  CrashInv'
<1>1. ASSUME NEW i \in Instance, NEW s \in Scope, NEW k \in Key, Submit(r, i, s, k)
      PROVE  CrashInv'
  <2>1. UNCHANGED <<instVars, rowVars, streamVars>> /\ Working(i)
    BY <1>1 DEF Submit, Working
  <2>2. inst' = inst /\ deadFor' = deadFor /\ UNCHANGED <<status, owner, lease, age, stream>>
    BY <2>1 DEF instVars, rowVars, streamVars
  <2>3. \A q \in Request : q # r => req'[q] = req[q]
    BY <1>1 DEF Submit, CrashInv, TypeOK, ReqTypeOK
  <2>4. req'[r].inst = i
    BY <1>1 DEF Submit, CrashInv, TypeOK, ReqTypeOK
  <2>5. NoGhostRequest'
    BY <2>1, <2>2, <2>3, <2>4 DEF CrashInv, NoGhostRequest, Working
  <2>6. DeathIsCounted' /\ NoGhostStream' /\ \A g \in Gen : Owed(g)'
    BY <2>2 DEF CrashInv, DeathIsCounted, NoGhostStream, Working, Owed, Late, Capped, Finishable
  <2> QED
    BY <2>5, <2>6 DEF CrashInv
<1>2. CASE ReclaimForUser(r)
  <2> DEFINE S == {g \in RowsOf(UserOfScope(req[r].scope)) : Reclaimable(g)}
  <2>1. \A g \in S : Reclaimable(g)
    OBVIOUS
  <2>2. Calm
    BY <1>2 DEF ReclaimForUser, Calm, CrashInv, TypeOK, ReqTypeOK, streamVars
  <2>3. \A g \in Gen : Owed(g)'
    BY <1>2, <2>1, ReclaimOwed DEF ReclaimForUser, instVars
  <2> QED
    BY <2>2, <2>3, CalmStep
<1>3. ASSUME Abort(r) \/ \E d \in Skew : Select(r, d) \/ Reject(r, d)
      PROVE  CrashInv'
  <2>1. UNCHANGED <<instVars, rowVars, streamVars>>
    BY <1>3 DEF Abort, Select, Reject
  <2>2. Calm
    BY <1>3, <2>1 DEF Abort, Select, Reject, Calm, IdleReq, CrashInv, TypeOK, ReqTypeOK,
       rowVars, streamVars
  <2>3. \A g \in Gen : Owed(g)'
    BY <2>1, OwedStays DEF rowVars, CrashInv
  <2> QED
    BY <2>2, <2>3, CalmStep
<1> QED
  BY <1>1, <1>2, <1>3

LEMMA CommitCrash ==
  ASSUME CrashInv, TypeOK', NEW r \in Request, NEW g \in Gen, CommitRow(r, g)
  PROVE  CrashInv'
<1> DEFINE q == req[r]
<1>1. /\ UNCHANGED instVars /\ owner'[g] = q.inst /\ Working(q.inst)
      /\ \A h \in Gen \ {g} : owner'[h] = owner[h] /\ stream'[h] = stream[h]
  BY DEF CommitRow, CrashInv, NoGhostRequest
<1>2. inst' = inst /\ deadFor' = deadFor
  BY <1>1 DEF instVars
<1>3. \A p \in Request : req'[p].pc # "idle" => req'[p] = req[p]
  BY DEF CommitRow, IdleReq, CrashInv, TypeOK, ReqTypeOK
<1>4. \A h \in Gen \ {g} :
        \/ status'[h] = "failed"
        \/ status'[h] = status[h] /\ lease'[h] = lease[h] /\ age'[h] = age[h]
  BY DEF CommitRow
<1>5. ASSUME NEW h \in Gen PROVE Owed(h)'
  <2>1. CASE h = g
    BY <1>1, <1>2, <2>1 DEF Owed, Working
  <2>2. CASE h # g
    BY <1>1, <1>4, <2>2, OwedStays DEF TerminalStatuses, CrashInv
  <2> QED
    BY <2>1, <2>2
<1>6. NoGhostStream'
  BY <1>1, <1>2 DEF CrashInv, NoGhostStream, Working
<1>7. NoGhostRequest' /\ DeathIsCounted'
  BY <1>2, <1>3 DEF CrashInv, NoGhostRequest, DeathIsCounted, Working
<1> QED
  BY <1>5, <1>6, <1>7 DEF CrashInv

\* A stream moves its own row only, and it runs only where its owner does.
LEMMA StreamCrash ==
  ASSUME CrashInv, TypeOK', NEW g \in Gen,
         \/ StartStream(g) \/ MarkRunning(g) \/ Disconnect(g) \/ LoseStream(g)
         \/ \E s \in {"completed", "failed"} : Finish(g, s)
  PROVE  CrashInv'
<1> DEFINE Own ==
       /\ UNCHANGED <<instVars, owner, req>>
       /\ stream[g] \in InFlight
       /\ \A h \in Gen \ {g} : status'[h] = status[h] /\ lease'[h] = lease[h] /\ age'[h] = age[h]
       /\ \A h \in Gen \ {g} : stream'[h] = stream[h]
<1>1. Own
  <2>1. CASE StartStream(g) \/ LoseStream(g)
    BY <2>1 DEF StartStream, LoseStream, InFlight, rowVars, CrashInv, TypeOK, StreamTypeOK
  <2>2. CASE MarkRunning(g)
    BY <2>2 DEF MarkRunning, InFlight, CrashInv, TypeOK, RowTypeOK, StreamTypeOK
  <2>3. CASE Disconnect(g)
    BY <2>3 DEF Disconnect, Reconcile, InFlight, CrashInv, TypeOK, StreamTypeOK
  <2>4. CASE \E s \in {"completed", "failed"} : Finish(g, s)
    BY <2>4 DEF Finish, InFlight, CrashInv, TypeOK, RowTypeOK, StreamTypeOK
  <2> QED
    BY <2>1, <2>2, <2>3, <2>4
<1>2. Calm
  BY <1>1 DEF Calm
<1>3. ASSUME NEW h \in Gen PROVE Owed(h)'
  <2>1. h = g /\ owner[g] # NoOne => Working(owner[g])
    BY <1>1 DEF CrashInv, NoGhostStream
  <2> QED
    BY <1>1, <2>1, OwedStays DEF CrashInv
<1> QED
  BY <1>2, <1>3, CalmStep

LEMMA CancelCrash ==
  ASSUME CrashInv, TypeOK', NEW g \in Gen, NEW i \in Instance, Cancel(i, g)
  PROVE  CrashInv'
<1>1. Calm
  BY DEF Cancel, Calm
<1>2. ASSUME NEW h \in Gen PROVE Owed(h)'
  <2>1. CASE h = g
    <3>1. Finishable(h) /\ status'[h] \in FinishableStatuses /\ lease'[h] = lease[h]
      BY <2>1 DEF Cancel, CrashInv, TypeOK, RowTypeOK, FinishableStatuses
    <3> QED
      BY <3>1, OwedStays DEF Cancel, CrashInv
  <2>2. CASE h # g
    BY <2>2, OwedStays DEF Cancel, CrashInv, TypeOK, RowTypeOK
  <2> QED
    BY <2>1, <2>2
<1> QED
  BY <1>1, <1>2, CalmStep

LEMMA CrashStep == CrashInv /\ [Next]_vars => CrashInv'
<1> SUFFICES ASSUME CrashInv, [Next]_vars PROVE CrashInv'
  OBVIOUS
<1>1. TypeOK'
  BY TypeStep DEF CrashInv
<1>2. CASE UNCHANGED vars
  <2>1. Calm
    BY <1>2 DEF vars, Calm, instVars
  <2>2. \A g \in Gen : Owed(g)'
    BY <1>2, OwedStays DEF vars, instVars, CrashInv
  <2> QED
    BY <1>1, <2>1, <2>2, CalmStep
<1> QED
  BY <1>1, <1>2, TickCrash, StartCrash, ShutdownCrash, CrashCrash, HeartbeatCrash, RequestCrash,
     CommitCrash, StreamCrash, CancelCrash DEF Next, Commit

\* For every lease and timeout: however late and by whomever the row of a dead
\* process is reclaimed, the reconciliation timeout has run since the end of its
\* last lease, so that a crash costs the user one lease and one timeout at most.
THEOREM CrashCostIsBounded == Spec => []CrashCostBounded
<1>1. CrashInv => CrashCostBounded
  BY DEF CrashInv, Owed, Late, CrashCostBounded
<1> QED
  BY <1>1, CrashInit, CrashStep, PTL DEF Spec

-----------------------------------------------------------------------------
(* GenerationLifecycle implements the one slot per user of GenerationSlot: *)
(* initial states map to initial states, and every step maps to one of the *)
(* slot, or to a stutter.                                                  *)

SlotVars == <<SlotPhase, SlotUser>>

\* Phases and holders of single rows.
LEMMA PhaseOf ==
  ASSUME TypeOK, NEW g \in Gen
  PROVE  /\ SlotPhase[g] = "none" <=> ~Exists(g)
         /\ SlotPhase[g] = "live" <=> status[g] \in {"queued", "running"}
         /\ SlotPhase[g] = "stopping" <=> status[g] = "cancel_requested"
         /\ SlotPhase[g] = "unknown" <=> status[g] = "reconciling"
         /\ \A s \in TerminalStatuses : SlotPhase[g] = s <=> status[g] = s
         /\ Active(g) <=> SlotPhase[g] \in Slot!Holding
BY DEF TypeOK, RowTypeOK, Statuses, ActiveStatuses, TerminalStatuses, SlotPhase, Exists,
   Active, Slot!Holding

LEMMA UserKnown ==
  ASSUME TypeOK, NEW g \in Gen, Exists(g)
  PROVE  SlotUser[g] = UserOf[conv[g]] /\ SlotUser[g] \in User
BY LifecycleAssumption DEF TypeOK, RowTypeOK, SlotUser

\* The initial rows are those of a slot.
LEMMA SlotStarts == Init => Slot!Init
<1> SUFFICES ASSUME Init PROVE Slot!Init
  OBVIOUS
<1>1. TypeOK /\ SlotExclusive
  BY SlotInit DEF SlotInv
<1>2. \A g \in Gen : status[g] \in {"absent"} \cup FinishableStatuses
  <2>1. CASE NoRows
    BY <2>1 DEF NoRows
  <2>2. CASE OneLegacyRow
    BY <2>2 DEF OneLegacyRow, LegacyRowStates
  <2> QED
    BY <2>1, <2>2 DEF Init
<1>3. SlotPhase \in [Gen -> {"none", "live", "stopping"}]
  BY <1>2 DEF SlotPhase, FinishableStatuses
<1>4. SlotUser \in [Gen -> User \cup {NoOne}]
  BY <1>1, UserKnown DEF SlotUser
<1>5. \A g, h \in Gen :
        /\ SlotPhase[g] \in Slot!Holding /\ SlotPhase[h] \in Slot!Holding
        /\ SlotUser[g] = SlotUser[h]
        => g = h
  <2> SUFFICES ASSUME NEW g \in Gen, NEW h \in Gen, SlotUser[g] = SlotUser[h],
                      SlotPhase[g] \in Slot!Holding, SlotPhase[h] \in Slot!Holding
               PROVE  g = h
    OBVIOUS
  <2>1. Active(g) /\ Active(h) /\ Exists(g) /\ Exists(h)
    BY <1>1, PhaseOf DEF Active, ActiveStatuses, Exists
  <2> QED
    BY <1>1, <2>1, UserKnown DEF SlotExclusive
<1>6. \A g \in Gen : SlotPhase[g] = "none" <=> SlotUser[g] = NoOne
  <2> SUFFICES ASSUME NEW g \in Gen PROVE SlotPhase[g] = "none" <=> SlotUser[g] = NoOne
    OBVIOUS
  <2>1. CASE Exists(g)
    BY <1>1, <2>1, PhaseOf, UserKnown, LifecycleAssumption
  <2>2. CASE ~Exists(g)
    BY <1>1, <2>2, PhaseOf DEF SlotUser
  <2> QED
    BY <2>1, <2>2
<1> QED
  BY <1>3, <1>4, <1>5, <1>6 DEF Slot!Init

-----------------------------------------------------------------------------
(* Steps.                                                                  *)

LEMMA RowsStutter == UNCHANGED <<status, conv>> => UNCHANGED SlotVars
BY DEF SlotVars, SlotPhase, SlotUser, Exists

\* Where rows neither appear nor move, the holders stay.
LEMMA HoldersStay == conv' = conv /\ (\A g \in Gen : Exists(g)' <=> Exists(g)) => SlotUser' = SlotUser
BY DEF SlotUser

\* Rows of unknown outcome: reclaimed, handed over, or left by the client.
LEMMA ReconcileDoubts ==
  ASSUME TypeOK, TypeOK', NEW S \in SUBSET Gen, NEW a, \A g \in S : Finishable(g), Reconcile(S, a),
         conv' = conv
  PROVE  Slot!Next
<1>1. /\ \A g \in S : status'[g] = "reconciling"
      /\ \A g \in Gen \ S : status'[g] = status[g]
  BY DEF Reconcile
<1>2. \A g \in S : SlotPhase[g] \in {"live", "stopping"}
  BY PhaseOf DEF Finishable, FinishableStatuses
<1>3. SlotPhase' = [g \in Gen |-> IF g \in S THEN "unknown" ELSE SlotPhase[g]]
  BY <1>1 DEF SlotPhase, Exists
<1>4. SlotUser' = SlotUser
  BY <1>1, HoldersStay DEF Exists, Finishable, FinishableStatuses
<1>5. Slot!Doubt(S)
  BY <1>2, <1>3, <1>4 DEF Slot!Doubt
<1> QED
  BY <1>5 DEF Slot!Next

LEMMA FinishFinishes ==
  ASSUME TypeOK, NEW g \in Gen, NEW s \in {"completed", "failed"}, Finish(g, s)
  PROVE  Slot!Next \/ UNCHANGED SlotVars
<1>1. CASE Finishable(g)
  <2> DEFINE p == FinishedStatus(g, s)
  <2>1. \/ status[g] = "cancel_requested" /\ p = "cancelled"
        \/ status[g] \in {"queued", "running"} /\ p = s
    BY <1>1 DEF FinishedStatus, Finishable, FinishableStatuses
  <2>2. p \in TerminalStatuses /\ p \in Slot!Phases
    BY <2>1 DEF TerminalStatuses, Slot!Phases
  <2>3. status' = [status EXCEPT ![g] = p] /\ conv' = conv
    BY DEF Finish
  <2>4. SlotPhase' = [SlotPhase EXCEPT ![g] = p]
    BY <2>2, <2>3 DEF SlotPhase, Exists, TerminalStatuses, TypeOK, RowTypeOK
  <2>5. SlotUser' = SlotUser
    BY <1>1, <2>2, <2>3, HoldersStay
       DEF Exists, TypeOK, RowTypeOK, Finishable, FinishableStatuses, TerminalStatuses
  <2>6. Slot!Finish(g, p)
    BY <2>1, <2>4, <2>5, PhaseOf DEF Slot!Finish
  <2> QED
    BY <2>2, <2>6 DEF Slot!Next
<1>2. CASE ~Finishable(g)
  <2>1. FinishedStatus(g, s) = status[g]
    BY <1>2 DEF FinishedStatus, Finishable, FinishableStatuses
  <2> QED
    BY <2>1, RowsStutter DEF Finish, TypeOK, RowTypeOK
<1> QED
  BY <1>1, <1>2

LEMMA CancelAsks ==
  ASSUME TypeOK, NEW g \in Gen, NEW i \in Instance, Cancel(i, g)
  PROVE  Slot!Next \/ UNCHANGED SlotVars
<1>1. status' = [status EXCEPT ![g] = "cancel_requested"] /\ conv' = conv
  BY DEF Cancel
<1>2. CASE status[g] = "cancel_requested"
  BY <1>1, <1>2, RowsStutter DEF TypeOK, RowTypeOK
<1>3. CASE status[g] \in {"queued", "running"}
  <2>1. SlotPhase' = [SlotPhase EXCEPT ![g] = "stopping"]
    BY <1>1 DEF SlotPhase, Exists, TypeOK, RowTypeOK
  <2>2. SlotUser' = SlotUser
    BY <1>1, <1>3, HoldersStay DEF Exists, TypeOK, RowTypeOK
  <2>3. Slot!AskToStop(g)
    BY <1>3, <2>1, <2>2, PhaseOf DEF Slot!AskToStop
  <2> QED
    BY <2>3 DEF Slot!Next
<1> QED
  BY <1>2, <1>3 DEF Cancel, Finishable, FinishableStatuses

LEMMA RunningIsLive ==
  ASSUME TypeOK, NEW g \in Gen, MarkRunning(g)
  PROVE  UNCHANGED SlotVars
<1>1. CASE MayRun(g)
  <2>1. SlotPhase' = SlotPhase
    BY <1>1 DEF MarkRunning, MayRun, SlotPhase, Exists, TypeOK, RowTypeOK
  <2>2. SlotUser' = SlotUser
    BY <1>1, HoldersStay DEF MarkRunning, MayRun, Exists, TypeOK, RowTypeOK
  <2> QED
    BY <2>1, <2>2 DEF SlotVars
<1>2. CASE ~MayRun(g)
  BY <1>2, RowsStutter DEF MarkRunning
<1> QED
  BY <1>1, <1>2

\* The new row takes the slot.  All that holds it was found unresolved by
\* Select and is given up, also if it was finished meanwhile.
LEMMA CommitOpens ==
  ASSUME SlotInv, NEW r \in Request, NEW g \in Gen, CommitRow(r, g)
  PROVE  Slot!Next
<1> DEFINE q == req[r]
           u == LockedUser(r)
<1>1. /\ TypeOK /\ Selected(r) /\ ~Exists(g)
      /\ q.scope \in Scope /\ (q.scope \in Gen => Exists(q.scope))
      /\ q.closes \in SUBSET Gen /\ \A h \in q.closes : Exists(h)
  BY DEF CommitRow, SlotInv, TypeOK, ReqTypeOK, Selected
<1>2. ConvOf(q.scope) \in Conversation /\ u \in User
  BY <1>1, LifecycleAssumption DEF ConvOf, Scope, TypeOK, RowTypeOK, LockedUser, UserOfScope
<1>3. /\ status'[g] \in {"queued", "running"} /\ conv'[g] = ConvOf(q.scope)
      /\ \A h \in q.closes : status'[h] = "failed"
      /\ \A h \in Gen \ {g} : h \notin q.closes => status'[h] = status[h]
      /\ \A h \in Gen \ {g} : conv'[h] = conv[h]
  BY <1>1 DEF CommitRow
<1>4. SlotPhase[g] = "none"
  BY <1>1, PhaseOf
<1>5. \A h \in q.closes : SlotUser[h] = u /\ SlotPhase[h] \in {"stopping", "unknown", "cancelled"}
  <2> SUFFICES ASSUME NEW h \in q.closes
               PROVE  SlotUser[h] = u /\ SlotPhase[h] \in {"stopping", "unknown", "cancelled"}
    OBVIOUS
  <2>1. h \in Gen /\ Exists(h) /\ Unresolved(h) /\ UserOf[conv[h]] = u
    BY <1>1 DEF SlotInv, ClosesUnresolved
  <2> QED
    BY <1>1, <2>1, PhaseOf, UserKnown DEF Unresolved, TerminalStatuses
<1>6. Slot!Holders(u) \subseteq q.closes
  <2> SUFFICES ASSUME NEW h \in Gen, SlotUser[h] = u, SlotPhase[h] \in Slot!Holding
               PROVE  h \in q.closes
    BY DEF Slot!Holders
  <2>1. Active(h) /\ Exists(h)
    BY <1>1, PhaseOf DEF Active, ActiveStatuses, Exists
  <2> QED
    BY <1>1, <2>1, UserKnown DEF SlotInv, ClosesAll
<1>7. SlotPhase' = [h \in Gen |-> IF h = g THEN "live"
                               ELSE IF h \in q.closes THEN "failed" ELSE SlotPhase[h]]
  BY <1>3 DEF SlotPhase, Exists
<1>8. SlotUser' = [SlotUser EXCEPT ![g] = u]
  <2>1. SlotUser'[g] = u
    BY <1>3 DEF SlotUser, Exists, LockedUser, UserOfScope
  <2>2. \A h \in Gen \ {g} : SlotUser'[h] = SlotUser[h]
    BY <1>1, <1>3 DEF SlotUser, Exists
  <2> QED
    BY <2>1, <2>2 DEF SlotUser
<1>9. Slot!Open(g, u, q.closes)
  BY <1>4, <1>5, <1>6, <1>7, <1>8 DEF Slot!Open
<1> QED
  BY <1>1, <1>2, <1>9 DEF Slot!Next

LEMMA SlotSimulates ==
  ASSUME SlotInv, TypeOK', [Next]_vars
  PROVE  Slot!Next \/ UNCHANGED SlotVars
<1>1. CASE UNCHANGED vars
  BY <1>1, RowsStutter DEF vars
<1>2. CASE Tick
  BY <1>2, RowsStutter DEF Tick
<1>3. ASSUME NEW i \in Instance, StartInstance(i)
      PROVE  Slot!Next \/ UNCHANGED SlotVars
  <2> DEFINE S == {g \in Gen : Reclaimable(g)}
  <2>1. \A g \in S : Finishable(g)
    BY DEF Reclaimable
  <2> QED
    BY <1>3, <2>1, ReconcileDoubts, RowsStutter DEF StartInstance, SlotInv
<1>4. ASSUME NEW i \in Instance, Shutdown(i)
      PROVE  Slot!Next \/ UNCHANGED SlotVars
  <2>1. OwnFinishable(i) \in SUBSET Gen /\ \A g \in OwnFinishable(i) : Finishable(g)
    BY DEF OwnFinishable
  <2> QED
    BY <1>4, <2>1, ReconcileDoubts, RowsStutter DEF Shutdown, SlotInv
<1>5. ASSUME NEW i \in Instance, Crash(i) \/ Heartbeat(i)
      PROVE  UNCHANGED SlotVars
  BY <1>5, RowsStutter DEF Crash, Heartbeat, rowVars
<1>6. ASSUME NEW r \in Request, ReclaimForUser(r) PROVE Slot!Next
  <2> DEFINE S == {g \in RowsOf(UserOfScope(req[r].scope)) : Reclaimable(g)}
  <2>1. S \in SUBSET Gen /\ \A g \in S : Finishable(g)
    BY DEF Reclaimable, RowsOf
  <2> QED
    BY <1>6, <2>1, ReconcileDoubts DEF ReclaimForUser, SlotInv
<1>7. ASSUME NEW r \in Request,
             \/ \E i \in Instance, s \in Scope, k \in Key : Submit(r, i, s, k)
             \/ Abort(r) \/ \E d \in Skew : Select(r, d) \/ Reject(r, d)
      PROVE  UNCHANGED SlotVars
  BY <1>7, RowsStutter DEF Submit, Abort, Select, Reject, rowVars
<1>8. ASSUME NEW g \in Gen, StartStream(g) \/ LoseStream(g) PROVE UNCHANGED SlotVars
  BY <1>8, RowsStutter DEF StartStream, LoseStream, rowVars
<1>9. ASSUME NEW g \in Gen, Disconnect(g) PROVE Slot!Next
  <2> DEFINE S == {h \in {g} : Finishable(h)}
  <2>1. S \in SUBSET Gen /\ \A h \in S : Finishable(h)
    OBVIOUS
  <2> QED
    BY <1>9, <2>1, ReconcileDoubts DEF Disconnect, SlotInv
<1> QED
  BY <1>1, <1>2, <1>3, <1>4, <1>5, <1>6, <1>7, <1>8, <1>9, CommitOpens, RunningIsLive,
     FinishFinishes, CancelAsks DEF Next, Commit, SlotInv

\* The rows of any number of instances, with their leases, clocks, crashes and
\* concurrent requests, behave as one slot per user.
THEOREM SlotImplemented == Spec => SlotRefined
<1>1. Init => Slot!Init
  BY SlotStarts
<1>2. SlotInv /\ SlotInv' /\ [Next]_vars => [Slot!Next]_<<SlotPhase, SlotUser>>
  BY SlotSimulates DEF SlotVars, SlotInv
<1> QED
  BY <1>1, <1>2, SlotAlways, PTL DEF Spec, SlotRefined, Slot!Spec

=============================================================================

----------------------- MODULE LeaseHeartbeat_proofs -----------------------
(***************************************************************************)
(* Proofs about LeaseHeartbeat, for every interval, timeout and lease: how *)
(* old a lease gets before it is renewed, which settings therefore keep    *)
(* which rows, and when a recorded cancel is heard.                        *)
(*                                                                         *)
(* All follow from one invariant.  Due(r) is the latest time at which a    *)
(* beat commits that covers row r, if as many more beats fail as may.  A   *)
(* time after Due(r) stays after it, because no step of the keeper moves   *)
(* Due(r) later except the commit of a beat.                               *)
(***************************************************************************)
EXTENDS LeaseHeartbeat, TLAPS

\* The latest commit of the good beat that covers a row, seen from where the keeper
\* is; a beat that is updating and has not found the row leaves it to the next one.
DueOf(pc, since, fails, seen) ==
  CASE pc = "waiting" -> since + Heartbeat + 2 * Timeout + Retry(fails)
    [] pc = "connecting" -> since + 2 * Timeout + Retry(fails)
    [] pc = "updating" /\ seen -> since + Timeout + Retry(fails)
    [] pc = "updating" /\ ~seen -> since + Heartbeat + 3 * Timeout + Retry(0)

Due(r) == DueOf(keeper.pc, keeper.since, failures, r \in sees)

\* Waits and transactions are no longer than they may be; the thread of a
\* serving process runs.
InTime ==
  /\ keeper.since <= clock
  /\ keeper.pc = "waiting" => clock <= keeper.since + Heartbeat
  /\ keeper.pc \in {"connecting", "updating"} => clock <= keeper.since + Timeout
  /\ phase = "serving" => keeper.pc # "stopped"
  /\ \A r \in Row : writer[r] # Never => /\ writer[r] \in Nat
                                         /\ writer[r] <= clock
                                         /\ clock <= writer[r] + Stamp

\* The age a lease may reach.
MaxAge(r) == Gap + (IF r \in beaten THEN 0 ELSE Stamp)

\* The beat that will extend an active row commits before its lease is too old.
RenewalCovers ==
  phase = "serving" =>
    \A r \in Row : OwnedActive(r) => Due(r) <= (expires[r] - Lease) + MaxAge(r)

\* The beat that will tell of a cancel comes in time.
CancelCovers ==
  phase = "serving" =>
    \A r \in Row : status[r] = "cancel_requested" /\ r \notin heard =>
      /\ asked[r] \in Nat
      /\ Due(r) <= asked[r] + Gap

-----------------------------------------------------------------------------
(* Type correctness.                                                       *)

\* The variables of LeaseHeartbeat keep their types, whatever the settings.
THEOREM TypeCorrect == Spec => []TypeOK
<1>1. Init => TypeOK
  BY TimeAssumption DEF Init, TypeOK, Keeper
<1>2. TypeOK /\ [Next]_vars => TypeOK'
  <2> SUFFICES ASSUME TypeOK, [Next]_vars PROVE TypeOK'
    OBVIOUS
  <2> USE TimeAssumption DEF TypeOK, Keeper
  <2>1. CASE Tick
    BY <2>1 DEF Tick, rowVars
  <2>2. CASE Wake
    BY <2>2 DEF Wake, rowVars
  <2>3. CASE Connect
    BY <2>3 DEF Connect, rowVars
  <2>4. CASE CommitBeat
    BY <2>4 DEF CommitBeat, NextWait
  <2>5. CASE FailBeat
    BY <2>5 DEF FailBeat, NextWait, rowVars
  <2>6. CASE Stop
    BY <2>6 DEF Stop, rowVars
  <2>7. CASE Release
    BY <2>7 DEF Release
  <2>8. CASE Crash
    BY <2>8 DEF Crash
  <2>9. ASSUME NEW r \in Row, RowStep(r) PROVE TypeOK'
    <3>1. CASE BeginStamp(r)
      BY <3>1 DEF BeginStamp
    <3>2. CASE CommitStamp(r)
      BY <3>2 DEF CommitStamp
    <3>3. CASE AbortStamp(r)
      BY <3>3 DEF AbortStamp
    <3>4. CASE Cancel(r)
      BY <3>4 DEF Cancel
    <3>5. CASE Settle(r)
      BY <3>5 DEF Settle
    <3> QED BY <2>9, <3>1, <3>2, <3>3, <3>4, <3>5 DEF RowStep
  <2>10. CASE UNCHANGED vars
    BY <2>10 DEF vars, rowVars
  <2> QED BY <2>1, <2>2, <2>3, <2>4, <2>5, <2>6, <2>7, <2>8, <2>9, <2>10 DEF Next, Beat
<1> QED BY <1>1, <1>2, PTL DEF Spec

-----------------------------------------------------------------------------
(* Times.                                                                  *)

\* No wait is longer than its limit, because Tick stops there.
LEMMA TimesKept == Spec => []InTime
<1>1. Init => InTime
  BY TimeAssumption DEF Init, InTime
<1>2. TypeOK /\ InTime /\ [Next]_vars => InTime'
  <2> SUFFICES ASSUME TypeOK, InTime, [Next]_vars PROVE InTime'
    OBVIOUS
  <2> USE TimeAssumption DEF TypeOK, Keeper, InTime
  <2>1. CASE Tick
    BY <2>1 DEF Tick, rowVars
  <2>2. CASE Wake
    BY <2>2 DEF Wake, rowVars
  <2>3. CASE Connect
    BY <2>3 DEF Connect, rowVars
  <2>4. CASE CommitBeat
    BY <2>4 DEF CommitBeat, NextWait
  <2>5. CASE FailBeat
    BY <2>5 DEF FailBeat, NextWait, rowVars
  <2>6. CASE Stop
    BY <2>6 DEF Stop, rowVars
  <2>7. CASE Release
    BY <2>7 DEF Release
  <2>8. CASE Crash
    BY <2>8 DEF Crash
  <2>9. ASSUME NEW r \in Row, RowStep(r) PROVE InTime'
    <3>1. CASE BeginStamp(r)
      BY <3>1 DEF BeginStamp
    <3>2. CASE CommitStamp(r)
      BY <3>2 DEF CommitStamp
    <3>3. CASE AbortStamp(r)
      BY <3>3 DEF AbortStamp
    <3>4. CASE Cancel(r)
      BY <3>4 DEF Cancel
    <3>5. CASE Settle(r)
      BY <3>5 DEF Settle
    <3> QED BY <2>9, <3>1, <3>2, <3>3, <3>4, <3>5 DEF RowStep
  <2>10. CASE UNCHANGED vars
    BY <2>10 DEF vars, rowVars
  <2> QED BY <2>1, <2>2, <2>3, <2>4, <2>5, <2>6, <2>7, <2>8, <2>9, <2>10 DEF Next, Beat
<1> QED BY <1>1, <1>2, TypeCorrect, PTL DEF Spec

-----------------------------------------------------------------------------
(* What the keeper owes a row.                                             *)

\* Whatever a beat that covers a row still waits for, it is at most this much.
LEMMA DueBounded ==
  ASSUME TypeOK, InTime, NEW r \in Row, keeper.pc # "stopped"
  PROVE  /\ Due(r) \in Nat /\ clock <= Due(r)
         /\ Due(r) <= clock + Gap
<1> keeper.pc \in {"waiting", "connecting", "updating"} /\ keeper.since \in Nat
  BY DEF TypeOK, Keeper
<1> QED BY TimeAssumption DEF TypeOK, InTime, Due, DueOf, Gap, Retry

\* A step of the keeper brings the beat that covers a row no later, unless it is
\* the commit of a beat that has covered it.
LEMMA DueStays ==
  ASSUME TypeOK, InTime, [Next]_vars, phase' = "serving", NEW r \in Row, OwnedActive(r),
         ~(CommitBeat /\ r \in sees)
  PROVE  Due(r)' <= Due(r)
<1> USE TimeAssumption DEF Due
<1>1. keeper.pc \in {"waiting", "connecting", "updating", "stopped"} /\ keeper.since \in Nat
  BY DEF TypeOK, Keeper
<1>2. CASE Wake
  BY <1>1, <1>2 DEF Wake, DueOf, Retry, TypeOK
<1>3. CASE Connect
  BY <1>1, <1>3 DEF Connect, DueOf, Retry, InTime, TypeOK
<1>4. CASE CommitBeat
  BY <1>1, <1>4 DEF CommitBeat, NextWait, DueOf, Retry, InTime, TypeOK
<1>5. CASE FailBeat
  BY <1>1, <1>5 DEF FailBeat, NextWait, DueOf, Retry, InTime, TypeOK
<1>6. CASE Stop \/ Release \/ Crash
  BY <1>6 DEF Stop, Release, Crash
<1>7. CASE UNCHANGED <<keeper, failures, sees>>
  <2>1. Due(r)' = Due(r)
    BY <1>7
  <2>2. keeper.pc # "stopped"
    BY <1>7 DEF Next, Beat, Tick, Wake, Connect, CommitBeat, FailBeat, Stop, Release, Crash,
                RowStep, BeginStamp, CommitStamp, AbortStamp, Cancel, Settle, vars, InTime
  <2> QED BY <2>1, <2>2, DueBounded
<1>8. ASSUME NEW q \in Row, RowStep(q) PROVE UNCHANGED <<keeper, failures, sees>>
  BY <1>8 DEF RowStep, BeginStamp, CommitStamp, AbortStamp, Cancel, Settle
<1>9. Tick \/ UNCHANGED vars => UNCHANGED <<keeper, failures, sees>>
  BY DEF Tick, vars
<1> QED BY <1>2, <1>3, <1>4, <1>5, <1>6, <1>7, <1>8, <1>9 DEF Next, Beat

\* After the commit of a beat, the next one that covers the rows is this near.
LEMMA DueAfterCommit ==
  ASSUME TypeOK, CommitBeat, phase = "serving", NEW r \in Row
  PROVE  Due(r)' = clock + Heartbeat + 2 * Timeout + Retry(0)
BY TimeAssumption DEF CommitBeat, NextWait, Due, DueOf, TypeOK

-----------------------------------------------------------------------------
(* The lease.                                                              *)

\* Every step keeps the beats ahead of the age a lease may reach.
LEMMA RenewalCoversStep ==
  ASSUME TypeOK, InTime, RenewalCovers, [Next]_vars, TypeOK', InTime'
  PROVE  RenewalCovers'
<1> SUFFICES ASSUME phase' = "serving", NEW r \in Row, OwnedActive(r)'
             PROVE  Due(r)' <= (expires'[r] - Lease) + MaxAge(r)'
  BY DEF RenewalCovers
<1> USE TimeAssumption
<1>0. Gap \in Nat /\ Retry(0) \in Nat
  BY DEF Gap, Retry
<1>1. phase = "serving" /\ keeper.pc # "stopped"
  <2>1. phase = "serving"
    BY DEF Next, Beat, Tick, Wake, Connect, CommitBeat, FailBeat, Stop, Release, Crash,
           RowStep, BeginStamp, CommitStamp, AbortStamp, Cancel, Settle, vars, TypeOK
  <2> QED BY <2>1 DEF InTime
<1>2. CASE CommitBeat /\ r \in sees
  <2>1. OwnedActive(r) /\ expires'[r] = keeper.since + Lease /\ r \in beaten'
    BY <1>2 DEF CommitBeat, OwnedActive, TypeOK
  <2>2. keeper.since \in Nat /\ clock <= keeper.since + Timeout
    BY <1>2 DEF CommitBeat, InTime, TypeOK, Keeper
  <2>3. Due(r)' = clock + Heartbeat + 2 * Timeout + Retry(0)
    BY <1>1, <1>2, DueAfterCommit
  <2>4. MaxAge(r)' = Gap
    BY <1>0, <2>1 DEF MaxAge, Gap, Retry
  <2> QED BY <1>0, <2>1, <2>2, <2>3, <2>4 DEF Gap, TypeOK
<1>3. CASE CommitStamp(r) /\ status[r] \in {"none", "queued"}
  <2>1. /\ writer[r] \in Nat /\ clock <= writer[r] + Stamp
        /\ expires'[r] = writer[r] + Lease
        /\ r \notin beaten'
    BY <1>3 DEF CommitStamp, InTime, TypeOK
  <2>2. Due(r)' = Due(r)
    BY <1>3 DEF CommitStamp, Due
  <2>3. Due(r) \in Nat /\ Due(r) <= clock + Gap
    BY <1>1, DueBounded
  <2>4. MaxAge(r)' = Gap + Stamp
    BY <2>1 DEF MaxAge, Gap, Retry
  <2> QED BY <1>0, <2>1, <2>2, <2>3, <2>4 DEF TypeOK
<1>4. CASE ~(CommitBeat /\ r \in sees) /\ ~(CommitStamp(r) /\ status[r] \in {"none", "queued"})
  <2>1. OwnedActive(r) /\ expires'[r] = expires[r] /\ (r \in beaten' <=> r \in beaten)
    BY <1>4 DEF Next, Beat, Tick, Wake, Connect, CommitBeat, FailBeat, Stop, Release, Crash,
         RowStep, BeginStamp, CommitStamp, AbortStamp, Cancel, Settle, vars, rowVars,
         OwnedActive, TypeOK
  <2>2. Due(r)' <= Due(r)
    BY <1>4, <2>1, DueStays
  <2>3. Due(r) <= (expires[r] - Lease) + MaxAge(r)
    BY <1>1, <2>1 DEF RenewalCovers
  <2>4. MaxAge(r)' = MaxAge(r) /\ MaxAge(r) \in Nat
    BY <1>0, <2>1 DEF MaxAge, Gap, Retry
  <2>5. Due(r) \in Nat /\ expires[r] \in Nat
    BY <1>1, DueBounded DEF TypeOK
  <2>6. Due(r)' \in Int
    <3>1. keeper'.pc # "stopped"
      BY DEF InTime
    <3> QED BY <3>1 DEF Due, DueOf, Retry, TypeOK, Keeper
  <2> QED BY <2>1, <2>2, <2>3, <2>4, <2>5, <2>6
<1> QED BY <1>2, <1>3, <1>4

\* What the invariant says of now: no lease is older than it may be.
LEMMA CoversNow == TypeOK /\ InTime /\ RenewalCovers => RenewedInTime
<1> SUFFICES ASSUME TypeOK, InTime, RenewalCovers, phase = "serving", NEW r \in Row,
                    OwnedActive(r)
             PROVE  clock - (expires[r] - Lease) <= MaxAge(r)
  BY DEF RenewedInTime, MaxAge
<1>1. Due(r) \in Nat /\ clock <= Due(r)
  BY DueBounded DEF InTime
<1>2. Due(r) <= (expires[r] - Lease) + MaxAge(r)
  BY DEF RenewalCovers
<1>3. MaxAge(r) \in Nat
  BY TimeAssumption DEF MaxAge, Gap, Retry
<1> QED BY <1>1, <1>2, <1>3, TimeAssumption DEF TypeOK

\* Whatever the settings, a serving process renews a lease before it is Gap old, a new
\* one before it is Gap + Stamp old, although beats are slow and fail.
THEOREM RenewedAlwaysInTime == Spec => []RenewedInTime
<1>1. Init => RenewalCovers
  BY DEF Init, RenewalCovers, OwnedActive
<1>2. TypeOK /\ InTime /\ RenewalCovers /\ [Next]_vars /\ TypeOK' /\ InTime' => RenewalCovers'
  BY RenewalCoversStep
<1> QED BY <1>1, <1>2, CoversNow, TypeCorrect, TimesKept, PTL DEF Spec

\* With a lease of at least Gap, which the default settings are exactly, no row that a
\* beat has reached can be taken from a serving process.
THEOREM BeatenNeverLost ==
  ASSUME Lease >= Gap
  PROVE  Spec => []BeatenHeld
<1>1. ASSUME TypeOK, RenewedInTime, phase = "serving", NEW r \in beaten, OwnedActive(r)
      PROVE  ~(expires[r] < clock)
  <2>1. r \in Row /\ expires[r] \in Nat /\ clock \in Nat /\ Gap \in Nat /\ Lease \in Nat
    BY <1>1, TimeAssumption DEF TypeOK, Gap, Retry
  <2>2. clock - (expires[r] - Lease) <= Gap + 0
    BY <1>1, <2>1 DEF RenewedInTime
  <2> QED BY <2>1, <2>2
<1>2. TypeOK /\ RenewedInTime => BeatenHeld
  BY <1>1 DEF BeatenHeld, Reclaimable
<1> QED BY <1>2, RenewedAlwaysInTime, TypeCorrect, PTL

\* The check of the settings alone (generation_lease_is_safe) is enough for every row
\* as long as no beat fails and the interval is no shorter than the waits of a beat
\* and the transaction that accepts a row.
THEOREM SafeIfNoBeatFails ==
  ASSUME MaxFailures = 0, Heartbeat >= 2 * Timeout + Stamp
  PROVE  Spec => []LeaseHeld
<1>1. Lease >= Gap + Stamp
  BY TimeAssumption, generation_lease_is_safe DEF Gap, Retry
<1>2. ASSUME TypeOK, RenewedInTime, phase = "serving", NEW r \in Row, OwnedActive(r)
      PROVE  ~(expires[r] < clock)
  <2>1. /\ expires[r] \in Nat /\ clock \in Nat /\ Gap \in Nat
        /\ Stamp \in Nat /\ Lease \in Nat
    BY <1>2, TimeAssumption DEF TypeOK, Gap, Retry
  <2>2. clock - (expires[r] - Lease) <= Gap + Stamp
    BY <1>2, <2>1 DEF RenewedInTime
  <2> QED BY <1>1, <2>1, <2>2
<1>3. TypeOK /\ RenewedInTime => LeaseHeld
  BY <1>2 DEF LeaseHeld, Reclaimable
<1> QED BY <1>3, RenewedAlwaysInTime, TypeCorrect, PTL

-----------------------------------------------------------------------------
(* The cancel.                                                             *)

\* Every step keeps the beat that tells of a cancel in time.
LEMMA CancelCoversStep ==
  ASSUME TypeOK, InTime, CancelCovers, [Next]_vars, TypeOK', InTime'
  PROVE  CancelCovers'
<1> SUFFICES ASSUME phase' = "serving", NEW r \in Row, status'[r] = "cancel_requested",
                    r \notin heard'
             PROVE  /\ asked'[r] \in Nat
                    /\ Due(r)' <= asked'[r] + Gap
  BY DEF CancelCovers
<1> USE TimeAssumption
<1>1. phase = "serving" /\ keeper.pc # "stopped" /\ keeper'.pc # "stopped"
  <2>1. phase = "serving"
    BY DEF Next, Beat, Tick, Wake, Connect, CommitBeat, FailBeat, Stop, Release, Crash,
           RowStep, BeginStamp, CommitStamp, AbortStamp, Cancel, Settle, vars, TypeOK
  <2> QED BY <2>1 DEF InTime
<1>2. CASE status[r] # "cancel_requested"
  <2>1. Cancel(r)
    BY <1>2 DEF Next, Beat, Tick, Wake, Connect, CommitBeat, FailBeat, Stop, Release, Crash,
           RowStep, BeginStamp, CommitStamp, AbortStamp, Cancel, Settle, vars, rowVars,
           OwnedActive, TypeOK
  <2>2. asked'[r] = clock /\ Due(r)' = Due(r)
    BY <2>1 DEF Cancel, Due, TypeOK
  <2> QED BY <1>1, <2>2, DueBounded DEF TypeOK
<1>3. CASE status[r] = "cancel_requested"
  <2>1. asked'[r] = asked[r] /\ r \notin heard
    BY <1>3 DEF Next, Beat, Tick, Wake, Connect, CommitBeat, FailBeat, Stop, Release, Crash,
           RowStep, BeginStamp, CommitStamp, AbortStamp, Cancel, Settle, vars, rowVars, TypeOK
  <2>2. ~(CommitBeat /\ r \in sees)
    BY <1>3 DEF CommitBeat, OwnedActive
  <2>3. OwnedActive(r)
    BY <1>3 DEF OwnedActive
  <2>4. Due(r)' <= Due(r)
    BY <2>2, <2>3, DueStays
  <2>5. asked[r] \in Nat /\ Due(r) <= asked[r] + Gap
    BY <1>1, <1>3, <2>1 DEF CancelCovers
  <2>6. Due(r) \in Nat
    BY <1>1, DueBounded
  <2>7. Due(r)' \in Int
    BY <1>1 DEF Due, DueOf, Retry, TypeOK, Keeper
  <2>8. Gap \in Nat
    BY DEF Gap, Retry
  <2> QED BY <2>1, <2>4, <2>5, <2>6, <2>7, <2>8
<1> QED BY <1>2, <1>3

\* However short the lease, a serving process hears of a recorded cancel within Gap
\* (two intervals and five waits if one beat in a row may fail).
THEOREM CancelHeardInTime == Spec => []CancelHeard
<1>1. Init => CancelCovers
  BY DEF Init, CancelCovers
<1>2. TypeOK /\ InTime /\ CancelCovers /\ [Next]_vars /\ TypeOK' /\ InTime' => CancelCovers'
  BY CancelCoversStep
<1>3. TypeOK /\ InTime /\ CancelCovers => CancelHeard
  <2> SUFFICES ASSUME TypeOK, InTime, CancelCovers, phase = "serving", NEW r \in Row,
                      status[r] = "cancel_requested", r \notin heard
               PROVE  clock <= asked[r] + Gap
    BY DEF CancelHeard
  <2>1. Due(r) \in Nat /\ clock <= Due(r)
    BY DueBounded DEF InTime
  <2>2. asked[r] \in Nat /\ Due(r) <= asked[r] + Gap
    BY DEF CancelCovers
  <2> QED BY <2>1, <2>2, TimeAssumption DEF TypeOK, Gap, Retry
<1> QED BY <1>1, <1>2, <1>3, TypeCorrect, TimesKept, PTL DEF Spec

=============================================================================

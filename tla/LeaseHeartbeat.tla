--------------------------- MODULE LeaseHeartbeat ---------------------------
(***************************************************************************)
(* How long a lease must be: the heartbeat of one process, in time         *)
(* (chat/lease.py, extend_own_leases and _stamp_owner of                   *)
(* chat/repository.py, the check of the settings in config.py).            *)
(* GenerationLifecycle lets a heartbeat happen or not; here it has its     *)
(* interval, its waits and its failures.                                   *)
(*                                                                         *)
(* A timestamp written by a transaction is its now(), the time it started; *)
(* what it wrote counts from its commit.  A beat waits for a connection of *)
(* the pool, at most Timeout, and then for its UPDATE, at most Timeout     *)
(* (statement_timeout), which waits for row locks; COMMIT takes no time.   *)
(*                                                                         *)
(* External assumptions: Event.wait wakes on time; at most MaxFailures     *)
(* beats in a row fail (with any number of them nothing could be said); a  *)
(* transaction that stamps a lease on one row takes at most Stamp (it has  *)
(* several statements, each bounded by the timeout).                       *)
(***************************************************************************)
EXTENDS Integers

CONSTANTS
  Row,          \* rows of generations that this process owns
  Heartbeat,    \* generation_heartbeat_seconds
  Timeout,      \* database_timeout_seconds
  Lease,        \* generation_lease_seconds
  MaxFailures,  \* beats in a row that may fail
  Stamp,        \* longest transaction that accepts or starts a generation
  MaxTime,      \* bound: time
  Never         \* NULL

ASSUME TimeAssumption ==
  /\ Heartbeat \in Nat \ {0} /\ Timeout \in Nat \ {0} /\ Lease \in Nat
  /\ MaxFailures \in 0 .. 1
  /\ Stamp \in Nat /\ MaxTime \in Nat /\ Never \notin Nat

\* generation_lease_is_safe: other settings do not start.
ASSUME generation_lease_is_safe == Lease >= 2 * Heartbeat + Timeout

VARIABLES
  clock,       \* the time, of the database and of the process
  phase,       \* the process: serving, closing (its lifespan ends), gone
  keeper,      \* the heartbeat thread: where it is, and since when
  failures,    \* beats that failed since the last one that did not
  sees,        \* the rows that the UPDATE of the current beat found
  status,      \* generations.status
  expires,     \* generations.lease_expires_at
  writer,      \* now() of an open transaction that will stamp the row
  asked,       \* when another process recorded a cancel
  beaten,      \* history: rows whose lease was last written by a beat
  heard        \* rows whose upstream this process told to stop

rowVars == <<status, expires, writer, asked>>
vars == <<clock, phase, keeper, failures, sees, rowVars, beaten, heard>>

Keeper == [pc : {"waiting", "connecting", "updating", "stopped"}, since : Nat]

Init ==
  /\ clock = 0
  /\ phase = "serving"
  /\ keeper = [pc |-> "waiting", since |-> 0]
  /\ failures = 0
  /\ sees = {}
  /\ status = [r \in Row |-> "none"]
  /\ expires = [r \in Row |-> 0]
  /\ writer = [r \in Row |-> Never]
  /\ asked = [r \in Row |-> Never]
  /\ beaten = {} /\ heard = {}

\* The WHERE of extend_own_leases.
OwnedActive(r) == status[r] \in {"queued", "running", "cancel_requested"}

\* The first half of _RECLAIMABLE_CONDITION: any other process may take the row.
Reclaimable(r) == OwnedActive(r) /\ expires[r] < clock

\* Nothing waits longer than it may.
Tick ==
  /\ clock < MaxTime
  /\ keeper.pc = "waiting" => clock < keeper.since + Heartbeat
  /\ keeper.pc \in {"connecting", "updating"} => clock < keeper.since + Timeout
  /\ \A r \in Row : writer[r] # Never => clock < writer[r] + Stamp
  /\ clock' = clock + 1
  /\ UNCHANGED <<phase, keeper, failures, sees, rowVars, beaten, heard>>

-----------------------------------------------------------------------------
(* The heartbeat thread.                                                   *)

Wake ==
  /\ keeper.pc = "waiting" /\ clock = keeper.since + Heartbeat
  /\ keeper' = [pc |-> "connecting", since |-> clock]
  /\ UNCHANGED <<clock, phase, failures, sees, rowVars, beaten, heard>>

\* The connection is there; now() and the snapshot of the UPDATE are taken.
Connect ==
  /\ keeper.pc = "connecting"
  /\ keeper' = [pc |-> "updating", since |-> clock]
  /\ sees' = {r \in Row : OwnedActive(r)}
  /\ UNCHANGED <<clock, phase, failures, rowVars, beaten, heard>>

\* The loop looks at the stop event before it waits again.
NextWait == IF phase = "serving" THEN [pc |-> "waiting", since |-> clock]
            ELSE [pc |-> "stopped", since |-> clock]

\* Mutant: rows whose cancel is already recorded are not extended.
CommitBeatButCancelled ==
  LET extended == {r \in sees : status[r] \in {"queued", "running"}} IN
  /\ keeper.pc = "updating"
  /\ beaten' = beaten \cup extended
  /\ expires' = [r \in Row |-> IF r \in extended THEN keeper.since + Lease ELSE expires[r]]
  /\ heard' = heard \cup {r \in sees : status[r] = "cancel_requested"}
  /\ keeper' = NextWait
  /\ failures' = 0
  /\ sees' = {}
  /\ UNCHANGED <<clock, phase, status, writer, asked>>

\* The UPDATE has found the rows as they are now, and commits; the upstreams of
\* rows with a recorded cancel are told to stop.
CommitBeat ==
  LET extended == {r \in sees : OwnedActive(r)} IN
  /\ keeper.pc = "updating"
  /\ beaten' = beaten \cup extended
  /\ expires' = [r \in Row |-> IF r \in extended THEN keeper.since + Lease ELSE expires[r]]
  /\ heard' = heard \cup {r \in extended : status[r] = "cancel_requested"}
  /\ keeper' = NextWait
  /\ failures' = 0
  /\ sees' = {}
  /\ UNCHANGED <<clock, phase, status, writer, asked>>

\* Mutant: the error ends the thread.
FailBeatForGood ==
  /\ keeper.pc \in {"connecting", "updating"} /\ failures < MaxFailures
  /\ keeper' = [pc |-> "stopped", since |-> clock]
  /\ failures' = failures + 1
  /\ sees' = {}
  /\ UNCHANGED <<clock, phase, rowVars, beaten, heard>>

\* PsycopgError or PoolTimeout: the next beat is another interval away.
FailBeat ==
  /\ keeper.pc \in {"connecting", "updating"} /\ failures < MaxFailures
  /\ keeper' = NextWait
  /\ failures' = failures + 1
  /\ sees' = {}
  /\ UNCHANGED <<clock, phase, rowVars, beaten, heard>>

\* The end of the lifespan sets the stop event, which interrupts a wait only.
Stop ==
  /\ phase = "serving"
  /\ phase' = "closing"
  /\ keeper' = IF keeper.pc = "waiting" THEN [pc |-> "stopped", since |-> clock] ELSE keeper
  /\ UNCHANGED <<clock, failures, sees, rowVars, beaten, heard>>

\* release_own_generations: stop() joins the thread for at most 5 s and goes on, a
\* beat may still be under way.
Release ==
  /\ phase = "closing"
  /\ phase' = "gone"
  /\ status' = [r \in Row |-> IF OwnedActive(r) THEN "over" ELSE status[r]]
  /\ writer' = [r \in Row |-> Never]
  /\ UNCHANGED <<clock, keeper, failures, sees, expires, asked, beaten, heard>>

\* The process dies, or its release fails: the rows are left to their lease.
Crash ==
  /\ phase # "gone"
  /\ phase' = "gone"
  /\ keeper' = [pc |-> "stopped", since |-> clock]
  /\ sees' = {}
  /\ writer' = [r \in Row |-> Never]
  /\ UNCHANGED <<clock, failures, status, expires, asked, beaten, heard>>

-----------------------------------------------------------------------------
(* The rows.                                                               *)

\* create_generation_queued or create_retry_generation, or mark_generation_running.
BeginStamp(r) ==
  /\ phase = "serving" /\ writer[r] = Never /\ status[r] \in {"none", "queued"}
  /\ writer' = [writer EXCEPT ![r] = clock]
  /\ UNCHANGED <<clock, phase, keeper, failures, sees, status, expires, asked, beaten, heard>>

\* Its commit, with _stamp_owner; a row that is not queued any more is left alone.
CommitStamp(r) ==
  /\ writer[r] # Never
  /\ writer' = [writer EXCEPT ![r] = Never]
  /\ CASE status[r] = "none" ->
            /\ status' = [status EXCEPT ![r] = "queued"]
            /\ expires' = [expires EXCEPT ![r] = writer[r] + Lease]
            /\ beaten' = beaten \ {r}
       [] status[r] = "queued" ->
            /\ status' = [status EXCEPT ![r] = "running"]
            /\ expires' = [expires EXCEPT ![r] = writer[r] + Lease]
            /\ beaten' = beaten \ {r}
       [] OTHER -> UNCHANGED <<status, expires, beaten>>
  /\ UNCHANGED <<clock, phase, keeper, failures, sees, asked, heard>>

AbortStamp(r) ==
  /\ writer[r] # Never
  /\ writer' = [writer EXCEPT ![r] = Never]
  /\ UNCHANGED <<clock, phase, keeper, failures, sees, status, expires, asked, beaten, heard>>

\* request_cancel in another process.
Cancel(r) ==
  /\ status[r] \in {"queued", "running"}
  /\ status' = [status EXCEPT ![r] = "cancel_requested"]
  /\ asked' = [asked EXCEPT ![r] = clock]
  /\ UNCHANGED <<clock, phase, keeper, failures, sees, expires, writer, beaten, heard>>

\* The row gets a result, or another process reclaims it.
Settle(r) ==
  /\ OwnedActive(r)
  /\ phase = "serving" \/ Reclaimable(r)
  /\ status' = [status EXCEPT ![r] = "over"]
  /\ UNCHANGED <<clock, phase, keeper, failures, sees, expires, writer, asked, beaten, heard>>

-----------------------------------------------------------------------------
Beat == Wake \/ Connect \/ CommitBeat \/ FailBeat

RowStep(r) == BeginStamp(r) \/ CommitStamp(r) \/ AbortStamp(r) \/ Cancel(r) \/ Settle(r)

Next == Tick \/ Beat \/ Stop \/ Release \/ Crash \/ \E r \in Row : RowStep(r)

Spec == Init /\ [][Next]_vars

-----------------------------------------------------------------------------
(* Properties.                                                             *)

TypeOK ==
  /\ clock \in Nat
  /\ phase \in {"serving", "closing", "gone"}
  /\ keeper \in Keeper
  /\ failures \in 0 .. MaxFailures
  /\ sees \in SUBSET Row
  /\ status \in [Row -> {"none", "queued", "running", "cancel_requested", "over"}]
  /\ expires \in [Row -> Nat]
  /\ writer \in [Row -> Nat \cup {Never}]
  /\ asked \in [Row -> Nat \cup {Never}]
  /\ beaten \in SUBSET Row
  /\ heard \in SUBSET Row

\* What a failed beat costs: its waits and another interval.
Retry(fails) == IF fails < MaxFailures THEN Heartbeat + 2 * Timeout ELSE 0

\* The longest time from the now() of a beat to the commit of the next good one: the
\* rest of its UPDATE, an interval and the two waits of the next, and a failed beat.
Gap == Heartbeat + 3 * Timeout + Retry(0)

\* Although every beat may be slow and MaxFailures fail, a serving process renews
\* the lease of a row before it is Gap old; a row that was just accepted or started
\* has its transaction (which began before a beat that could not see it yet) on top
\* (chat/lease.py:84-87, chat/repository.py:969-993 and 321-336).
RenewedInTime ==
  phase = "serving" =>
    \A r \in Row : OwnedActive(r) =>
      clock - (expires[r] - Lease) <= Gap + (IF r \in beaten THEN 0 ELSE Stamp)

\* A cancel that another process recorded reaches the upstream of a live process,
\* although a beat fails, within two intervals and the waits of three beats.
CancelHeard ==
  phase = "serving" =>
    \A r \in Row : status[r] = "cancel_requested" /\ r \notin heard =>
      clock <= asked[r] + Gap

\* What follows where the lease is at least Gap: a row that a beat has reached cannot
\* be taken from a serving process.
BeatenHeld == phase = "serving" => \A r \in beaten : ~Reclaimable(r)

\* config.py:80-82 says this of the default settings (10, 2 and 30 seconds) with one
\* failed beat and a slow database: the row of a living owner does not expire.  They
\* are exactly Gap, so that it is true of rows a beat has reached, and not of one
\* that was just accepted: that takes Gap + Stamp.
LeaseHeld == phase = "serving" => \A r \in Row : ~Reclaimable(r)

\* What chat/lease.py says of the same delay: at most the interval.
CancelHeardWithinBeat ==
  phase = "serving" =>
    \A r \in Row : status[r] = "cancel_requested" /\ r \notin heard =>
      clock <= asked[r] + Heartbeat

=============================================================================

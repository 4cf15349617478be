------------------------------ MODULE Accounts ------------------------------
(***************************************************************************)
(* Local accounts: signing up, logging in under the lock of the            *)
(* credential's row, the lock-out after failures, and sessions             *)
(* (auth/service.py, auth/store.py and the auth routes of main.py).        *)
(*                                                                         *)
(* An attempt to log in takes several steps: its transaction starts, and   *)
(* with it its now(); it waits for the row; it verifies the password,      *)
(* which is slow, while it holds the row; it commits.  A request with a    *)
(* token reads the session in one transaction and writes it in another.    *)
(*                                                                         *)
(* Simplifications.  An unknown name changes nothing and does not appear.  *)
(* Passwords are right or wrong.  Tokens never collide.  The schema is the *)
(* one of migration 0006; static tokens and forwarded identities touch     *)
(* none of this state.                                                     *)
(***************************************************************************)
EXTENDS Integers, Sequences

CONSTANTS
  Name,            \* normalised usernames
  Attempt,         \* logins in progress at the same time
  Token,           \* session tokens
  Caller,          \* requests with a token, at the same time
  Threshold,       \* login_lock_threshold
  LockSeconds,     \* login_lock_seconds
  Ttl,             \* session_ttl_seconds
  Interval,        \* LAST_SEEN_MIN_INTERVAL_SECONDS
  MaxAge,          \* bound: statement_timeout and one verification
  MaxTime,         \* bound: time
  Never            \* NULL

ASSUME AccountsAssumption ==
  /\ Threshold \in Nat \ {0} /\ LockSeconds \in Nat \ {0} /\ Ttl \in Nat \ {0}
  /\ Interval \in Nat /\ MaxAge \in Nat /\ MaxTime \in Nat
  /\ Never \notin Nat /\ Never \notin Attempt

VARIABLES
  clock,       \* the database's clock
  known,       \* names that have an account
  failed,      \* credentials.failed_attempts
  until,       \* credentials.locked_until
  holder,      \* who has locked the row of the credential
  attempt,     \* [Attempt -> one login]
  session,     \* [Token -> row of sessions]
  caller,      \* [Caller -> one request with a token]
  checks       \* history: times of the wrong passwords since the last right one

loginVars == <<failed, until, holder, attempt, checks>>
sessionVars == <<session, caller>>
vars == <<clock, known, failed, until, holder, attempt, session, caller, checks>>

AttemptRow ==
  [pc : {"idle", "waiting", "verifying"}, name : Name \cup {Never}, now : Nat,
   password : {"right", "wrong"}, failed : 0 .. Threshold, until : Nat \cup {Never}]

SessionRow ==
  [expires : Nat \cup {Never}, seen : Nat \cup {Never}, revoked : Nat \cup {Never}]

CallerRow ==
  [pc : {"idle", "touching", "revoking"}, token : Token \cup {Never}, now : Nat]

IdleAttempt ==
  [pc |-> "idle", name |-> Never, now |-> 0, password |-> "wrong",
   failed |-> 0, until |-> Never]

IdleCaller == [pc |-> "idle", token |-> Never, now |-> 0]
NoSession == [expires |-> Never, seen |-> Never, revoked |-> Never]

Init ==
  /\ clock = 0
  /\ known = {}
  /\ failed = [n \in Name |-> 0]
  /\ until = [n \in Name |-> Never]
  /\ holder = [n \in Name |-> Never]
  /\ attempt = [a \in Attempt |-> IdleAttempt]
  /\ session = [t \in Token |-> NoSession]
  /\ caller = [c \in Caller |-> IdleCaller]
  /\ checks = [n \in Name |-> <<>>]

Unused(t) == session[t] = NoSession
Active(t) == /\ ~Unused(t)
             /\ session[t].revoked = Never
             /\ session[t].expires > clock

\* _insert_session; the transaction that issues it began at the time now.
Issue(t, now) == session' = [session EXCEPT ![t] = [NoSession EXCEPT !.expires = now + Ttl]]

\* A statement is cut off in time, so that no login grows older than MaxAge.
Tick ==
  /\ clock < MaxTime
  /\ \A a \in Attempt : attempt[a].pc # "idle" => clock < attempt[a].now + MaxAge
  /\ clock' = clock + 1
  /\ UNCHANGED <<known, loginVars, sessionVars>>

-----------------------------------------------------------------------------
(* Accounts and logins.                                                    *)

\* The name is free: user, credential and session are one transaction.
SignUp(n, t) ==
  /\ n \notin known /\ Unused(t)
  /\ known' = known \cup {n}
  /\ Issue(t, clock)
  /\ UNCHANGED <<clock, loginVars, caller>>

BeginLogin(a, n, password) ==
  /\ attempt[a].pc = "idle" /\ n \in known
  /\ attempt' = [attempt EXCEPT ![a] =
       [IdleAttempt EXCEPT !.pc = "waiting", !.name = n, !.now = clock,
                           !.password = password]]
  /\ UNCHANGED <<clock, known, failed, until, holder, checks, sessionVars>>

\* Mutant: the row is read without locking it.
LockRowShared(a) ==
  LET n == attempt[a].name IN
  /\ attempt[a].pc = "waiting"
  /\ holder' = [holder EXCEPT ![n] = a]
  /\ attempt' = [attempt EXCEPT ![a].pc = "verifying", ![a].failed = failed[n],
                                ![a].until = until[n]]
  /\ UNCHANGED <<clock, known, failed, until, checks, sessionVars>>

\* SELECT ... FOR UPDATE: the row as it is when the lock is had.
LockRow(a) ==
  LET n == attempt[a].name IN
  /\ attempt[a].pc = "waiting" /\ holder[n] = Never
  /\ holder' = [holder EXCEPT ![n] = a]
  /\ attempt' = [attempt EXCEPT ![a].pc = "verifying", ![a].failed = failed[n],
                                ![a].until = until[n]]
  /\ UNCHANGED <<clock, known, failed, until, checks, sessionVars>>

LockedOut(a) == attempt[a].until # Never /\ attempt[a].until > attempt[a].now

\* The end of the transaction, with or without changes, frees the row.
EndLogin(a) ==
  /\ attempt' = [attempt EXCEPT ![a] = IdleAttempt]
  /\ holder' = [n \in Name |-> IF holder[n] = a THEN Never ELSE holder[n]]

\* Locked out, or the statement times out, or the connection or process goes.
GiveUpLogin(a) ==
  /\ attempt[a].pc # "idle"
  /\ EndLogin(a)
  /\ UNCHANGED <<clock, known, failed, until, checks, sessionVars>>

\* Mutant: failures before a lock-out still count after it.
FailuresKept(a) == attempt[a].failed + 1

\* What a lock-out was set for is forgotten when it is over.
Failures(a) == (IF attempt[a].until # Never THEN 0 ELSE attempt[a].failed) + 1

LockUntil(a) ==
  IF Failures(a) >= Threshold THEN attempt[a].now + LockSeconds ELSE Never

WrongPassword(a) ==
  LET n == attempt[a].name IN
  /\ attempt[a].pc = "verifying" /\ ~LockedOut(a) /\ attempt[a].password = "wrong"
  /\ failed' = [failed EXCEPT ![n] = Failures(a)]
  /\ until' = [until EXCEPT ![n] = LockUntil(a)]
  /\ checks' = [checks EXCEPT ![n] = Append(@, clock)]
  /\ EndLogin(a)
  /\ UNCHANGED <<clock, known, sessionVars>>

RightPassword(a, t) ==
  LET n == attempt[a].name IN
  /\ attempt[a].pc = "verifying" /\ ~LockedOut(a) /\ attempt[a].password = "right" /\ Unused(t)
  /\ failed' = [failed EXCEPT ![n] = 0]
  /\ until' = [until EXCEPT ![n] = Never]
  /\ checks' = [checks EXCEPT ![n] = <<>>]
  /\ Issue(t, attempt[a].now)
  /\ EndLogin(a)
  /\ UNCHANGED <<clock, known, caller>>

-----------------------------------------------------------------------------
(* Sessions.                                                               *)

\* _needs_touch, judged by the time of the read.
NeedsTouch(t) == session[t].seen # Never => clock - session[t].seen >= Interval

\* authenticate and logout read the session and judge it; what they then write
\* is a transaction of its own.
Authenticate(c, t) ==
  /\ caller[c].pc = "idle" /\ Active(t) /\ NeedsTouch(t)
  /\ caller' = [caller EXCEPT ![c] = [pc |-> "touching", token |-> t, now |-> clock]]
  /\ UNCHANGED <<clock, known, loginVars, session>>

Logout(c, t) ==
  /\ caller[c].pc = "idle" /\ Active(t)
  /\ caller' = [caller EXCEPT ![c] = [pc |-> "revoking", token |-> t, now |-> clock]]
  /\ UNCHANGED <<clock, known, loginVars, session>>

\* The UPDATE has waited since the time now for another one.
TouchSession(c, now) ==
  LET t == caller[c].token IN
  /\ caller[c].pc = "touching" /\ caller[c].now <= now /\ now <= clock
  /\ session' = IF session[t].seen = Never \/ session[t].seen < now - Interval
                THEN [session EXCEPT ![t].seen = now] ELSE session
  /\ caller' = [caller EXCEPT ![c] = IdleCaller]
  /\ UNCHANGED <<clock, known, loginVars>>

\* Mutant: the time of an earlier logout is overwritten.
RevokeAgain(c, now) ==
  LET t == caller[c].token IN
  /\ caller[c].pc = "revoking" /\ caller[c].now <= now /\ now <= clock
  /\ session' = [session EXCEPT ![t].revoked = now]
  /\ caller' = [caller EXCEPT ![c] = IdleCaller]
  /\ UNCHANGED <<clock, known, loginVars>>

RevokeSession(c, now) ==
  LET t == caller[c].token IN
  /\ caller[c].pc = "revoking" /\ caller[c].now <= now /\ now <= clock
  /\ session' = IF session[t].revoked = Never
                THEN [session EXCEPT ![t].revoked = now] ELSE session
  /\ caller' = [caller EXCEPT ![c] = IdleCaller]
  /\ UNCHANGED <<clock, known, loginVars>>

\* The second transaction fails: the request does, too.
LoseCaller(c) ==
  /\ caller[c].pc # "idle"
  /\ caller' = [caller EXCEPT ![c] = IdleCaller]
  /\ UNCHANGED <<clock, known, loginVars, session>>

-----------------------------------------------------------------------------
Login(a) ==
  \/ \E n \in Name, password \in {"right", "wrong"} : BeginLogin(a, n, password)
  \/ LockRow(a) \/ GiveUpLogin(a) \/ WrongPassword(a)
  \/ \E t \in Token : RightPassword(a, t)

Call(c) ==
  \/ \E t \in Token : Authenticate(c, t) \/ Logout(c, t)
  \/ \E now \in 0 .. clock : TouchSession(c, now) \/ RevokeSession(c, now)
  \/ LoseCaller(c)

Next ==
  \/ Tick
  \/ \E n \in Name, t \in Token : SignUp(n, t)
  \/ \E a \in Attempt : Login(a)
  \/ \E c \in Caller : Call(c)

Spec == Init /\ [][Next]_vars

-----------------------------------------------------------------------------
(* Properties.                                                             *)

TypeOK ==
  /\ clock \in Nat
  /\ known \in SUBSET Name
  /\ failed \in [Name -> 0 .. Threshold]
  /\ until \in [Name -> Nat \cup {Never}]
  /\ holder \in [Name -> Attempt \cup {Never}]
  /\ attempt \in [Attempt -> AttemptRow]
  /\ session \in [Token -> SessionRow]
  /\ caller \in [Caller -> CallerRow]
  /\ checks \in [Name -> Seq(Nat)]

\* However logins overlap, the answers "wrong password" that one can get for an
\* account are bounded: one more than Threshold of them take as long as the
\* lock-out, less the time a login may have waited since its now().
GuessesBounded ==
  \A n \in Name : \A i \in 1 .. Len(checks[n]) - Threshold :
    checks[n][i + Threshold] >= checks[n][i] + LockSeconds - MaxAge

\* An account is locked by exactly Threshold wrong passwords since it was last
\* open: never by fewer, and never by what an earlier lock-out was set for.
LockEarned ==
  [][\A n \in Name :
       until'[n] # until[n] /\ until'[n] # Never =>
         \E k \in 1 .. Len(checks'[n]) : Len(checks'[n]) = k * Threshold]_vars

\* A session that was ended stays ended, at the time of the first logout.
RevokedOnce ==
  [][\A t \in Token : session[t].revoked # Never =>
       session'[t].revoked = session[t].revoked]_vars

\* last_seen_at never goes back, and requests that judged the same row at the
\* same time do not write it more often than the interval allows.
SeenSpaced ==
  [][\A t \in Token : session'[t].seen # session[t].seen /\ session[t].seen # Never =>
       session'[t].seen > session[t].seen + Interval]_vars

=============================================================================

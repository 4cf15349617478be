----------------------------- MODULE Accounts_proofs -----------------------------
(***************************************************************************)
(* What holds of Accounts for every number of names, logins, tokens and    *)
(* callers, and for every threshold, lock-out, interval and age of a login.*)
(***************************************************************************)
EXTENDS Accounts, TLAPS

-----------------------------------------------------------------------------
(* The inductive invariant.                                                *)

\* A login in progress is not older than MaxAge; one that verifies has the row
\* and judges what is in it.
LoginOK(a) ==
  /\ attempt[a].pc # "idle" =>
       /\ attempt[a].name \in Name
       /\ attempt[a].now <= clock /\ clock <= attempt[a].now + MaxAge
  /\ attempt[a].pc = "verifying" =>
       /\ holder[attempt[a].name] = a
       /\ attempt[a].failed = failed[attempt[a].name]
       /\ attempt[a].until = until[attempt[a].name]

\* The counter of a credential and its lock-out.
CounterOK(n) ==
  /\ until[n] = Never => failed[n] < Threshold
  /\ until[n] # Never => failed[n] = Threshold
  /\ failed[n] = 0 => checks[n] = <<>>
  /\ \E k \in Nat : Len(checks[n]) = k * Threshold + failed[n]

InOrder(n) ==
  /\ \A i \in 1 .. Len(checks[n]) : checks[n][i] <= clock
  /\ \A i, j \in 1 .. Len(checks[n]) : i <= j => checks[n][i] <= checks[n][j]

\* A lock-out runs from the check that caused it, less the age of its login.
LockRuns(n) ==
  until[n] # Never => until[n] >= checks[n][Len(checks[n])] + LockSeconds - MaxAge

\* The first of the wrong passwords that count now came after the last lock-out.
WindowLate(n) ==
  LET first == Len(checks[n]) - failed[n] + 1 IN
  until[n] = Never /\ failed[n] > 0 /\ first > 1 =>
    checks[n][first] >= checks[n][first - 1] + LockSeconds - MaxAge

Spaced(n) ==
  \A i \in 1 .. Len(checks[n]) - Threshold :
    checks[n][i + Threshold] >= checks[n][i] + LockSeconds - MaxAge

CredentialOK(n) == CounterOK(n) /\ InOrder(n) /\ LockRuns(n) /\ WindowLate(n) /\ Spaced(n)

CallerOK(c) == caller[c].pc # "idle" => caller[c].token \in Token

Inv ==
  /\ TypeOK
  /\ \A a \in Attempt : LoginOK(a)
  /\ \A n \in Name : CredentialOK(n)
  /\ \A c \in Caller : CallerOK(c)

-----------------------------------------------------------------------------
(* Arithmetic of whole lock-outs.                                          *)

LEMMA OneMore ==
  ASSUME NEW k \in Nat, NEW t \in Nat \ {0}
  PROVE  /\ (k + 1) * t = k * t + t
         /\ k * t \in Nat /\ k <= k * t
OBVIOUS

LEMMA Constants ==
  /\ Threshold \in Nat /\ Threshold >= 1
  /\ LockSeconds \in Nat /\ Interval \in Nat /\ MaxAge \in Nat /\ Ttl \in Nat
  /\ Never \notin Nat /\ Never \notin Attempt
BY AccountsAssumption

-----------------------------------------------------------------------------
(* Steps that change no credential.                                        *)

\* What a step leaves of the credential of n and of the login a.
LEMMA CredentialKept ==
  ASSUME Inv, NEW n \in Name, clock' \in Nat, clock <= clock',
         failed'[n] = failed[n], until'[n] = until[n], checks'[n] = checks[n]
  PROVE  CredentialOK(n)'
<1>1. CredentialOK(n) /\ clock \in Nat /\ checks[n] \in Seq(Nat) /\ TypeOK
  BY DEF Inv, TypeOK
<1>2. CounterOK(n)' /\ LockRuns(n)' /\ WindowLate(n)' /\ Spaced(n)'
  BY <1>1 DEF CredentialOK, CounterOK, LockRuns, WindowLate, Spaced
<1>3. InOrder(n)'
  <2>1. \A i \in 1 .. Len(checks[n]) : checks[n][i] \in Nat /\ checks[n][i] <= clock
    BY <1>1 DEF CredentialOK, InOrder
  <2> QED
    BY <1>1, <2>1 DEF CredentialOK, InOrder
<1> QED
  BY <1>2, <1>3 DEF CredentialOK

LEMMA LoginKept ==
  ASSUME Inv, NEW a \in Attempt, clock' = clock, attempt'[a] = attempt[a],
         \A n \in Name : holder[n] = a =>
           holder'[n] = a /\ failed'[n] = failed[n] /\ until'[n] = until[n]
  PROVE  LoginOK(a)'
BY DEF Inv, LoginOK

\* A step that leaves logins and credentials alone.
LEMMA Aside ==
  ASSUME Inv, clock' = clock, UNCHANGED loginVars, TypeOK', \A c \in Caller : CallerOK(c)'
  PROVE  Inv'
<1>1. \A n \in Name : CredentialOK(n)'
  BY CredentialKept DEF loginVars, Inv, TypeOK
<1>2. \A a \in Attempt : LoginOK(a)'
  BY LoginKept DEF loginVars
<1> QED
  BY <1>1, <1>2 DEF Inv

LEMMA TickStep == ASSUME Inv, Tick PROVE Inv'
<1>1. TypeOK
  BY DEF Inv
<1>2. TypeOK'
  BY <1>1 DEF Tick, TypeOK, loginVars, sessionVars
<1>3. \A n \in Name : CredentialOK(n)'
  BY <1>1, CredentialKept DEF Tick, loginVars, TypeOK
<1>4. ASSUME NEW a \in Attempt PROVE LoginOK(a)'
  <2>1. LoginOK(a) /\ attempt[a].now \in Nat /\ attempt' = attempt /\ clock' = clock + 1
        /\ holder' = holder /\ failed' = failed /\ until' = until
    BY <1>1 DEF Inv, Tick, TypeOK, AttemptRow, loginVars
  <2>2. attempt[a].pc # "idle" => clock < attempt[a].now + MaxAge
    BY DEF Tick
  <2> QED
    BY <1>1, <2>1, <2>2, Constants DEF LoginOK, TypeOK
<1>5. \A c \in Caller : CallerOK(c)'
  BY DEF Tick, Inv, CallerOK, sessionVars
<1> QED
  BY <1>2, <1>3, <1>4, <1>5 DEF Inv

LEMMA IssueTyped ==
  ASSUME TypeOK, NEW t \in Token, NEW now \in Nat, Issue(t, now)
  PROVE  session' \in [Token -> SessionRow]
BY Constants DEF TypeOK, Issue, NoSession, SessionRow

LEMMA SignUpStep == ASSUME Inv, NEW n \in Name, NEW t \in Token, SignUp(n, t) PROVE Inv'
<1>1. TypeOK'
  BY IssueTyped DEF Inv, SignUp, TypeOK, loginVars
<1>2. \A c \in Caller : CallerOK(c)'
  BY DEF Inv, SignUp, CallerOK
<1> QED
  BY <1>1, <1>2, Aside DEF SignUp

LEMMA ReadSteps ==
  ASSUME Inv, NEW c \in Caller, NEW t \in Token, Authenticate(c, t) \/ Logout(c, t)
  PROVE  Inv'
<1>1. PICK pc \in {"touching", "revoking"} :
        caller' = [caller EXCEPT ![c] = [pc |-> pc, token |-> t, now |-> clock]]
  BY DEF Authenticate, Logout
<1>2. clock' = clock /\ known' = known /\ UNCHANGED loginVars /\ session' = session /\ TypeOK
  BY DEF Inv, Authenticate, Logout
<1>3. TypeOK'
  BY <1>1, <1>2 DEF TypeOK, CallerRow, loginVars
<1>4. \A d \in Caller : CallerOK(d)'
  BY <1>1, <1>2 DEF Inv, CallerOK, TypeOK
<1> QED
  BY <1>2, <1>3, <1>4, Aside

LEMMA WriteSteps ==
  ASSUME Inv, NEW c \in Caller, NEW now \in 0 .. clock,
         TouchSession(c, now) \/ RevokeSession(c, now) \/ LoseCaller(c)
  PROVE  Inv'
<1>1. /\ clock' = clock /\ known' = known /\ UNCHANGED loginVars /\ TypeOK /\ CallerOK(c)
      /\ caller' = [caller EXCEPT ![c] = IdleCaller] /\ caller[c].pc # "idle"
  BY DEF Inv, TouchSession, RevokeSession, LoseCaller
<1>2. caller[c].token \in Token /\ now \in Nat
  BY <1>1 DEF CallerOK, TypeOK
<1>3. session' \in [Token -> SessionRow]
  <2> DEFINE t == caller[c].token
  <2>1. /\ [session[t] EXCEPT !.seen = now] \in SessionRow
        /\ [session[t] EXCEPT !.revoked = now] \in SessionRow
    BY <1>1, <1>2 DEF TypeOK, SessionRow
  <2>2. \/ session' = session
        \/ session' = [session EXCEPT ![t] = [session[t] EXCEPT !.seen = now]]
        \/ session' = [session EXCEPT ![t] = [session[t] EXCEPT !.revoked = now]]
    BY <1>1, <1>2 DEF TouchSession, RevokeSession, LoseCaller, TypeOK
  <2> QED
    BY <1>1, <1>2, <2>1, <2>2 DEF TypeOK
<1>4. IdleCaller \in CallerRow /\ IdleCaller.pc = "idle"
  BY DEF IdleCaller, CallerRow
<1>5. TypeOK'
  BY <1>1, <1>3, <1>4 DEF TypeOK, loginVars
<1>6. \A d \in Caller : CallerOK(d)'
  BY <1>1, <1>4 DEF Inv, CallerOK, TypeOK
<1> QED
  BY <1>1, <1>5, <1>6, Aside

-----------------------------------------------------------------------------
(* Logins.                                                                 *)

LEMMA BeginLoginStep ==
  ASSUME Inv, NEW a \in Attempt, NEW n \in Name, NEW password \in {"right", "wrong"},
         BeginLogin(a, n, password)
  PROVE  Inv'
<1> DEFINE row == [IdleAttempt EXCEPT !.pc = "waiting", !.name = n, !.now = clock,
                                      !.password = password]
<1>1. TypeOK /\ clock \in Nat
  BY DEF Inv, TypeOK
<1>2. row \in AttemptRow /\ row.pc = "waiting" /\ row.name = n /\ row.now = clock
  <2>1. row.pc = "waiting" /\ row.name = n /\ row.now = clock
    BY DEF IdleAttempt
  <2>2. IdleAttempt \in AttemptRow
    BY Constants DEF IdleAttempt, AttemptRow
  <2>3. row \in AttemptRow
    BY <1>1, <2>2 DEF AttemptRow
  <2> QED
    BY <2>1, <2>3
<1>3. attempt' = [attempt EXCEPT ![a] = row]
  BY DEF BeginLogin
<1> HIDE DEF row
<1>4. UNCHANGED <<clock, known, failed, until, holder, checks, session, caller>>
  BY DEF BeginLogin, sessionVars
<1>5. TypeOK'
  BY <1>1, <1>2, <1>3, <1>4 DEF TypeOK
<1>6. \A m \in Name : CredentialOK(m)'
  BY <1>1, <1>4, CredentialKept
<1>7. ASSUME NEW b \in Attempt PROVE LoginOK(b)'
  <2>1. CASE b = a
    BY <1>1, <1>2, <1>3, <1>4, <2>1, Constants DEF LoginOK, TypeOK
  <2>2. CASE b # a
    BY <1>1, <1>3, <1>4, <2>2, LoginKept DEF TypeOK
  <2> QED
    BY <2>1, <2>2
<1>8. \A c \in Caller : CallerOK(c)'
  BY <1>4 DEF Inv, CallerOK
<1> QED
  BY <1>5, <1>6, <1>7, <1>8 DEF Inv

LEMMA LockRowStep == ASSUME Inv, NEW a \in Attempt, LockRow(a) PROVE Inv'
<1>1. TypeOK /\ LoginOK(a) /\ attempt[a].pc = "waiting" /\ attempt[a] \in AttemptRow
  BY DEF Inv, TypeOK, LockRow
<1>2. PICK n \in Name : n = attempt[a].name
  BY <1>1 DEF LoginOK
<1>3. holder[n] = Never /\ holder' = [holder EXCEPT ![n] = a]
  BY <1>2 DEF LockRow
<1> DEFINE row == [attempt[a] EXCEPT !.pc = "verifying", !.failed = failed[n], !.until = until[n]]
<1>4. attempt' = [attempt EXCEPT ![a] = row]
  BY <1>1, <1>2 DEF LockRow, TypeOK
<1>5. /\ row \in AttemptRow /\ row.pc = "verifying" /\ row.name = n /\ row.now = attempt[a].now
      /\ row.failed = failed[n] /\ row.until = until[n]
  BY <1>1, <1>2 DEF TypeOK, AttemptRow
<1> HIDE DEF row
<1>6. UNCHANGED <<clock, known, failed, until, checks, session, caller>>
  BY DEF LockRow, sessionVars
<1>7. TypeOK'
  BY <1>1, <1>3, <1>4, <1>5, <1>6 DEF TypeOK
<1>8. \A m \in Name : CredentialOK(m)'
  BY <1>1, <1>6, CredentialKept DEF TypeOK
<1>9. ASSUME NEW b \in Attempt PROVE LoginOK(b)'
  <2>1. CASE b = a
    BY <1>1, <1>2, <1>3, <1>4, <1>5, <1>6, <2>1 DEF LoginOK, TypeOK
  <2>2. CASE b # a
    <3>1. \A m \in Name : holder[m] = b => holder'[m] = b
      BY <1>1, <1>3, Constants DEF TypeOK
    <3> QED
      BY <1>1, <1>4, <1>6, <2>2, <3>1, LoginKept DEF TypeOK
  <2> QED
    BY <2>1, <2>2
<1>10. \A c \in Caller : CallerOK(c)'
  BY <1>6 DEF Inv, CallerOK
<1> QED
  BY <1>7, <1>8, <1>9, <1>10 DEF Inv

\* The end of a login as others see it.
LEMMA EndTyped ==
  ASSUME TypeOK, NEW a \in Attempt, EndLogin(a)
  PROVE  /\ attempt' \in [Attempt -> AttemptRow] /\ holder' \in [Name -> Attempt \cup {Never}]
         /\ attempt'[a].pc = "idle"
         /\ \A b \in Attempt \ {a} : attempt'[b] = attempt[b]
         /\ \A n \in Name, b \in Attempt \ {a} : holder[n] = b => holder'[n] = b
<1>1. IdleAttempt \in AttemptRow /\ IdleAttempt.pc = "idle"
  BY Constants DEF IdleAttempt, AttemptRow
<1> QED
  BY <1>1 DEF EndLogin, TypeOK

LEMMA GiveUpStep == ASSUME Inv, NEW a \in Attempt, GiveUpLogin(a) PROVE Inv'
<1>1. TypeOK /\ EndLogin(a) /\ UNCHANGED <<clock, known, failed, until, checks, session, caller>>
  BY DEF Inv, GiveUpLogin, sessionVars
<1>2. TypeOK'
  BY <1>1, EndTyped DEF TypeOK
<1>3. \A m \in Name : CredentialOK(m)'
  BY <1>1, CredentialKept DEF TypeOK
<1>4. ASSUME NEW b \in Attempt PROVE LoginOK(b)'
  <2>1. CASE b = a
    BY <1>1, <2>1, EndTyped DEF LoginOK
  <2>2. CASE b # a
    BY <1>1, <2>2, EndTyped, LoginKept
  <2> QED
    BY <2>1, <2>2
<1>5. \A c \in Caller : CallerOK(c)'
  BY <1>1 DEF Inv, CallerOK
<1> QED
  BY <1>2, <1>3, <1>4, <1>5 DEF Inv

\* A login that verified ends: what remains is the credential of its name.
LEMMA VerifiedStep ==
  ASSUME Inv, NEW a \in Attempt, attempt[a].pc = "verifying", EndLogin(a),
         NEW n \in Name, n = attempt[a].name, clock' = clock, TypeOK',
         \A m \in Name \ {n} : failed'[m] = failed[m] /\ until'[m] = until[m] /\ checks'[m] = checks[m],
         CredentialOK(n)', caller' = caller
  PROVE  Inv'
<1>1. TypeOK /\ LoginOK(a)
  BY DEF Inv
<1>2. holder[n] = a
  BY <1>1 DEF LoginOK
<1>3. ASSUME NEW m \in Name PROVE CredentialOK(m)'
  <2>1. CASE m = n
    BY <2>1
  <2>2. CASE m # n
    BY <1>1, <2>2, CredentialKept DEF TypeOK
  <2> QED
    BY <2>1, <2>2
<1>4. ASSUME NEW b \in Attempt PROVE LoginOK(b)'
  <2>1. CASE b = a
    BY <1>1, <2>1, EndTyped DEF LoginOK
  <2>2. CASE b # a
    BY <1>1, <1>2, <2>2, EndTyped, LoginKept
  <2> QED
    BY <2>1, <2>2
<1>5. \A c \in Caller : CallerOK(c)'
  BY DEF Inv, CallerOK
<1> QED
  BY <1>3, <1>4, <1>5 DEF Inv

LEMMA RightPasswordStep ==
  ASSUME Inv, NEW a \in Attempt, NEW t \in Token, RightPassword(a, t) PROVE Inv'
<1>1. TypeOK /\ LoginOK(a) /\ attempt[a].pc = "verifying" /\ attempt[a] \in AttemptRow /\ EndLogin(a)
  BY DEF Inv, TypeOK, RightPassword
<1>2. PICK n \in Name : n = attempt[a].name
  BY <1>1 DEF LoginOK
<1>3. /\ failed' = [failed EXCEPT ![n] = 0] /\ until' = [until EXCEPT ![n] = Never]
      /\ checks' = [checks EXCEPT ![n] = <<>>]
      /\ UNCHANGED <<clock, known, caller>> /\ Issue(t, attempt[a].now)
  BY <1>2 DEF RightPassword
<1>4. session' \in [Token -> SessionRow]
  BY <1>1, <1>3, IssueTyped DEF AttemptRow
<1>5. TypeOK'
  BY <1>1, <1>3, <1>4, EndTyped, Constants DEF TypeOK
<1>6. failed'[n] = 0 /\ until'[n] = Never /\ checks'[n] = <<>>
  BY <1>1, <1>3 DEF TypeOK
<1>7. CredentialOK(n)'
  <2>1. Len(<<>>) = 0 * Threshold + 0 /\ 0 \in Nat
    BY Constants
  <2>2. CounterOK(n)'
    BY <1>6, <2>1, Constants DEF CounterOK
  <2>3. InOrder(n)' /\ LockRuns(n)' /\ WindowLate(n)' /\ Spaced(n)'
    BY <1>6, Constants DEF InOrder, LockRuns, WindowLate, Spaced
  <2> QED
    BY <2>2, <2>3 DEF CredentialOK
<1> QED
  BY <1>1, <1>2, <1>3, <1>5, <1>7, VerifiedStep DEF TypeOK

\* What a wrong password makes of the credential.
LEMMA WrongPasswordCounts ==
  ASSUME Inv, NEW a \in Attempt, WrongPassword(a)
  PROVE  \E n \in Name :
           /\ n = attempt[a].name /\ attempt[a].pc = "verifying" /\ EndLogin(a)
           /\ UNCHANGED <<clock, known, session, caller>>
           /\ attempt[a].now \in Nat /\ attempt[a].now <= clock /\ clock <= attempt[a].now + MaxAge
           /\ until[n] # Never => until[n] <= attempt[a].now
           /\ failed' = [failed EXCEPT ![n] = (IF until[n] # Never THEN 0 ELSE failed[n]) + 1]
           /\ until' = [until EXCEPT ![n] =
                IF failed'[n] >= Threshold THEN attempt[a].now + LockSeconds ELSE Never]
           /\ checks' = [checks EXCEPT ![n] = Append(checks[n], clock)]
<1>1. TypeOK /\ LoginOK(a) /\ attempt[a].pc = "verifying" /\ attempt[a] \in AttemptRow
  BY DEF Inv, TypeOK, WrongPassword
<1>2. PICK n \in Name : n = attempt[a].name
  BY <1>1 DEF LoginOK
<1>3. attempt[a].failed = failed[n] /\ attempt[a].until = until[n]
  BY <1>1, <1>2 DEF LoginOK
<1>4. Failures(a) = (IF until[n] # Never THEN 0 ELSE failed[n]) + 1
  BY <1>3 DEF Failures
<1>5. failed'[n] = Failures(a)
  BY <1>1, <1>2 DEF WrongPassword, TypeOK
<1>6. attempt[a].now \in Nat /\ attempt[a].now <= clock /\ clock <= attempt[a].now + MaxAge
  BY <1>1 DEF LoginOK, AttemptRow
<1>7. until[n] # Never => until[n] <= attempt[a].now
  BY <1>1, <1>3, <1>6, Constants DEF WrongPassword, LockedOut, TypeOK
<1>8. /\ failed' = [failed EXCEPT ![n] = Failures(a)]
      /\ until' = [until EXCEPT ![n] = LockUntil(a)]
      /\ checks' = [checks EXCEPT ![n] = Append(checks[n], clock)]
      /\ EndLogin(a) /\ UNCHANGED <<clock, known, session, caller>>
  BY <1>2 DEF WrongPassword, sessionVars
<1>9. LockUntil(a) = IF failed'[n] >= Threshold THEN attempt[a].now + LockSeconds ELSE Never
  BY <1>5 DEF LockUntil
<1> QED
  BY <1>1, <1>2, <1>4, <1>6, <1>7, <1>8, <1>9

LEMMA WrongPasswordStep == ASSUME Inv, NEW a \in Attempt, WrongPassword(a) PROVE Inv'
<1>1. PICK n \in Name :
           /\ n = attempt[a].name /\ attempt[a].pc = "verifying" /\ EndLogin(a)
           /\ UNCHANGED <<clock, known, session, caller>>
           /\ attempt[a].now \in Nat /\ attempt[a].now <= clock /\ clock <= attempt[a].now + MaxAge
           /\ until[n] # Never => until[n] <= attempt[a].now
           /\ failed' = [failed EXCEPT ![n] = (IF until[n] # Never THEN 0 ELSE failed[n]) + 1]
           /\ until' = [until EXCEPT ![n] =
                IF failed'[n] >= Threshold THEN attempt[a].now + LockSeconds ELSE Never]
           /\ checks' = [checks EXCEPT ![n] = Append(checks[n], clock)]
  BY WrongPasswordCounts
<1>2. TypeOK /\ CredentialOK(n)
  BY DEF Inv
<1>3. PICK now : now = attempt[a].now
  OBVIOUS
<1>4. /\ failed[n] \in 0 .. Threshold /\ until[n] \in Nat \cup {Never} /\ checks[n] \in Seq(Nat)
      /\ clock \in Nat /\ now \in Nat
  BY <1>1, <1>2, <1>3 DEF TypeOK
<1>5. PICK log, len : log = checks[n] /\ len = Len(log)
  OBVIOUS
<1>6. /\ log \in Seq(Nat) /\ len \in Nat /\ Append(log, clock) \in Seq(Nat)
      /\ Len(Append(log, clock)) = len + 1 /\ Append(log, clock)[len + 1] = clock
      /\ \A i \in 1 .. len : Append(log, clock)[i] = log[i] /\ log[i] \in Nat
  BY <1>4, <1>5
<1>7. PICK new : new = Append(log, clock)
  OBVIOUS
<1>8. /\ failed'[n] = (IF until[n] # Never THEN 0 ELSE failed[n]) + 1
      /\ until'[n] = IF failed'[n] >= Threshold THEN now + LockSeconds ELSE Never
      /\ checks'[n] = new /\ clock' = clock
      /\ \A m \in Name \ {n} : failed'[m] = failed[m] /\ until'[m] = until[m] /\ checks'[m] = checks[m]
  BY <1>1, <1>2, <1>3, <1>5, <1>7 DEF TypeOK
<1>9. failed'[n] \in 1 .. Threshold
  BY <1>2, <1>4, <1>8, Constants DEF CredentialOK, CounterOK
<1>10. Len(checks'[n]) = len + 1
  <2>1. Len(new) = len + 1
    BY <1>6, <1>7
  <2> QED
    BY <1>8, <2>1
<1>11. TypeOK'
  <2>1. failed' \in [Name -> 0 .. Threshold]
    BY <1>1, <1>2, <1>8, <1>9, Constants DEF TypeOK
  <2>2. until' \in [Name -> Nat \cup {Never}]
    BY <1>1, <1>2, <1>3, <1>4, Constants DEF TypeOK
  <2>3. checks' \in [Name -> Seq(Nat)]
    BY <1>1, <1>2, <1>5, <1>6 DEF TypeOK
  <2> QED
    BY <1>1, <1>2, <2>1, <2>2, <2>3, EndTyped DEF TypeOK
<1>12. CounterOK(n)'
  <2>1. until'[n] = Never => failed'[n] < Threshold
    BY <1>4, <1>8, <1>9, Constants
  <2>2. until'[n] # Never => failed'[n] = Threshold
    BY <1>8, <1>9, Constants
  <2>3. \E k \in Nat : len + 1 = k * Threshold + failed'[n]
    <3>1. PICK k \in Nat : len = k * Threshold + failed[n]
      BY <1>2, <1>5 DEF CredentialOK, CounterOK
    <3>2. k * Threshold \in Nat /\ (k + 1) * Threshold = k * Threshold + Threshold
      BY OneMore, Constants
    <3>3. CASE until[n] = Never
      BY <1>4, <1>8, <3>1, <3>2, <3>3
    <3>4. CASE until[n] # Never
      <4>1. len + 1 = (k + 1) * Threshold + failed'[n]
        BY <1>2, <1>4, <1>8, <3>1, <3>2, <3>4, Constants DEF CredentialOK, CounterOK
      <4> QED
        BY <4>1
    <3> QED
      BY <3>3, <3>4
  <2> QED
    BY <1>6, <1>7, <1>8, <1>9, <2>1, <2>2, <2>3 DEF CounterOK
<1>13. InOrder(n)'
  <2>1. \A i \in 1 .. len : new[i] = log[i] /\ log[i] <= clock
    BY <1>2, <1>5, <1>6, <1>7 DEF CredentialOK, InOrder
  <2>2. \A i, j \in 1 .. len : i <= j => log[i] <= log[j]
    BY <1>2, <1>5 DEF CredentialOK, InOrder
  <2>3. \A i \in 1 .. len + 1 : new[i] <= clock
    BY <1>4, <1>6, <1>7, <2>1
  <2>4. \A i, j \in 1 .. len + 1 : i <= j => new[i] <= new[j]
    BY <1>4, <1>6, <1>7, <2>1, <2>2
  <2> QED
    BY <1>6, <1>7, <1>8, <2>3, <2>4 DEF InOrder
<1>14. LockRuns(n)'
  <2>1. until'[n] # Never => until'[n] >= clock + LockSeconds - MaxAge
    BY <1>1, <1>3, <1>4, <1>8, Constants
  <2> QED
    BY <1>6, <1>7, <1>8, <2>1 DEF LockRuns
\* A check after a lock-out comes after it ran.
<1>15. until[n] # Never => len >= 1 /\ clock >= log[len] + LockSeconds - MaxAge
  <2> SUFFICES ASSUME until[n] # Never
               PROVE  len >= 1 /\ clock >= log[len] + LockSeconds - MaxAge
    OBVIOUS
  <2>1. PICK k \in Nat : len = k * Threshold + Threshold
    BY <1>2, <1>5 DEF CredentialOK, CounterOK
  <2>2. len >= 1
    BY <2>1, OneMore, Constants
  <2>3. until[n] \in Nat /\ until[n] <= now /\ now <= clock
    BY <1>1, <1>3, <1>4
  <2>4. until[n] >= log[len] + LockSeconds - MaxAge
    BY <1>2, <1>5 DEF CredentialOK, LockRuns
  <2>5. log[len] \in Nat
    BY <1>6, <2>2
  <2> QED
    BY <1>4, <2>2, <2>3, <2>4, <2>5, Constants
<1>16. WindowLate(n)'
  <2>1. PICK fails, count : fails = failed'[n] /\ count = Len(checks'[n])
    OBVIOUS
  <2>2. fails \in Nat /\ fails >= 1 /\ count = len + 1
    BY <1>9, <1>10, <2>1, Constants
  <2>3. PICK first : first = count - fails + 1
    OBVIOUS
  <2>4. first \in Int /\ first = len + 2 - fails
    BY <1>6, <2>2, <2>3
  <2>5. SUFFICES ASSUME until'[n] = Never, first > 1
                 PROVE  new[first] >= new[first - 1] + LockSeconds - MaxAge
    <3>1. checks'[n] = new
      BY <1>8
    <3> QED
      BY <2>1, <2>3, <3>1 DEF WindowLate
  <2>6. CASE until[n] # Never
    <3>1. fails = 1
      BY <1>8, <2>1, <2>6
    <3>2. first = len + 1
      BY <1>6, <2>4, <3>1
    <3>3. first - 1 = len /\ len >= 1 /\ clock >= log[len] + LockSeconds - MaxAge
      BY <1>6, <1>15, <2>6, <3>2
    <3>4. new[len] = log[len] /\ new[len + 1] = clock
      BY <1>6, <1>7, <3>3
    <3> QED
      BY <3>2, <3>3, <3>4
  <2>7. CASE until[n] = Never /\ failed[n] = 0
    <3>1. len = 0
      BY <1>2, <1>5, <2>7 DEF CredentialOK, CounterOK
    <3>2. fails = 1
      BY <1>8, <2>1, <2>7
    <3> QED
      BY <2>4, <2>5, <3>1, <3>2
  <2>8. CASE until[n] = Never /\ failed[n] > 0
    <3>1. fails = failed[n] + 1 /\ failed[n] \in Nat
      BY <1>4, <1>8, <2>1, <2>8, Constants
    <3>2. first = len - failed[n] + 1
      BY <1>6, <2>4, <3>1
    <3>3. log[first] >= log[first - 1] + LockSeconds - MaxAge
      BY <1>2, <1>5, <2>5, <2>8, <3>2 DEF CredentialOK, WindowLate
    <3>4. first \in 1 .. len /\ first - 1 \in 1 .. len
      <4>1. first \in Int /\ first > 1 /\ len \in Nat /\ failed[n] >= 1
        BY <1>6, <2>4, <2>5, <2>8, <3>1
      <4> QED
        BY <3>1, <3>2, <4>1
    <3> QED
      BY <1>6, <1>7, <3>3, <3>4
  <2> QED
    BY <1>4, <2>6, <2>7, <2>8
<1>17. Spaced(n)'
  <2>1. ASSUME NEW i \in 1 .. len - Threshold
        PROVE  new[i + Threshold] >= new[i] + LockSeconds - MaxAge
    <3>1. i \in 1 .. len /\ i + Threshold \in 1 .. len
      BY <1>6, Constants
    <3>2. log[i + Threshold] >= log[i] + LockSeconds - MaxAge
      BY <1>2, <1>5 DEF CredentialOK, Spaced
    <3> QED
      BY <1>6, <1>7, <3>1, <3>2
  <2>2. ASSUME len + 1 - Threshold >= 1
        PROVE  clock >= new[len + 1 - Threshold] + LockSeconds - MaxAge
    <3> DEFINE i == len + 1 - Threshold
    <3> SUFFICES clock >= new[i] + LockSeconds - MaxAge
      OBVIOUS
    <3>1. i \in 1 .. len /\ new[i] = log[i] /\ log[i] \in Nat
      BY <1>6, <1>7, <2>2, Constants
    <3>2. \A j \in 1 .. len : i <= j => log[i] <= log[j] /\ log[j] \in Nat /\ log[j] <= clock
      BY <1>2, <1>5, <1>6, <3>1 DEF CredentialOK, InOrder
    <3>3. CASE until[n] # Never
      <4>1. log[i] <= log[len] /\ log[len] \in Nat
        BY <1>6, <1>15, <3>1, <3>2, <3>3
      <4> QED
        BY <1>4, <1>15, <3>1, <3>3, <4>1, Constants
    <3>4. CASE until[n] = Never
      <4>1. failed[n] < Threshold /\ failed[n] > 0
        BY <1>2, <1>4, <1>5, <3>1, <3>4 DEF CredentialOK, CounterOK
      <4> DEFINE first == len - failed[n] + 1
      <4>2. first \in 1 .. len /\ first - 1 \in 1 .. len /\ i <= first - 1
        <5>1. PICK k \in Nat : len = k * Threshold + failed[n]
          BY <1>2, <1>5 DEF CredentialOK, CounterOK
        <5>2. PICK whole \in Nat : whole = k * Threshold
          BY OneMore, Constants
        <5>3. failed[n] \in Nat /\ len = whole + failed[n] /\ len + 1 - Threshold >= 1
          BY <1>4, <2>2, <5>1, <5>2
        <5> QED
          BY <4>1, <5>3, Constants
      <4>3. log[first] >= log[first - 1] + LockSeconds - MaxAge
        BY <1>2, <1>5, <3>4, <4>1, <4>2 DEF CredentialOK, WindowLate
      <4>4. log[i] <= log[first - 1] /\ log[first] <= clock
            /\ log[first] \in Nat /\ log[first - 1] \in Nat
        BY <1>2, <1>5, <1>6, <3>2, <4>2 DEF CredentialOK, InOrder
      <4> HIDE DEF first, i
      <4> QED
        BY <1>4, <3>1, <4>3, <4>4, Constants
    <3> QED
      BY <3>3, <3>4
  <2>3. \A i \in 1 .. len + 1 - Threshold : new[i + Threshold] >= new[i] + LockSeconds - MaxAge
    <3> SUFFICES ASSUME NEW i \in 1 .. len + 1 - Threshold
                 PROVE  new[i + Threshold] >= new[i] + LockSeconds - MaxAge
      OBVIOUS
    <3>1. CASE i \in 1 .. len - Threshold
      BY <2>1, <3>1
    <3>2. CASE i = len + 1 - Threshold
      <4>1. i + Threshold = len + 1 /\ len + 1 - Threshold >= 1
        BY <1>6, <3>2, Constants
      <4> QED
        BY <1>6, <1>7, <2>2, <3>2, <4>1
    <3> QED
      BY <1>6, <3>1, <3>2, Constants
  <2> QED
    <3>1. Len(checks'[n]) - Threshold = len + 1 - Threshold
      BY <1>6, <1>10, Constants
    <3> QED
      BY <1>8, <2>3, <3>1 DEF Spaced
<1>18. CredentialOK(n)'
  BY <1>12, <1>13, <1>14, <1>16, <1>17 DEF CredentialOK
<1> QED
  BY <1>1, <1>8, <1>11, <1>18, VerifiedStep

-----------------------------------------------------------------------------
(* The theorems.                                                           *)

LEMMA InvInit == Init => Inv
<1> SUFFICES ASSUME Init PROVE Inv
  OBVIOUS
<1>1. IdleAttempt \in AttemptRow /\ IdleAttempt.pc = "idle"
  BY Constants DEF IdleAttempt, AttemptRow
<1>2. IdleCaller \in CallerRow /\ IdleCaller.pc = "idle" /\ NoSession \in SessionRow
  BY DEF IdleCaller, CallerRow, NoSession, SessionRow
<1>3. TypeOK
  BY <1>1, <1>2, Constants DEF Init, TypeOK
<1>4. ASSUME NEW n \in Name PROVE CredentialOK(n)
  <2>1. Len(<<>>) = 0 * Threshold + 0
    BY Constants
  <2>2. CounterOK(n)
    BY <2>1, Constants DEF Init, CounterOK
  <2> QED
    BY <2>2, Constants DEF Init, CredentialOK, InOrder, LockRuns, WindowLate, Spaced
<1> QED
  BY <1>1, <1>2, <1>3, <1>4 DEF Init, Inv, LoginOK, CallerOK

LEMMA InvStep == Inv /\ [Next]_vars => Inv'
<1> SUFFICES ASSUME Inv, [Next]_vars PROVE Inv'
  OBVIOUS
<1>1. CASE Tick \/ \E n \in Name, t \in Token : SignUp(n, t)
  BY <1>1, TickStep, SignUpStep
<1>2. ASSUME NEW a \in Attempt, Login(a) PROVE Inv'
  BY <1>2, BeginLoginStep, LockRowStep, GiveUpStep, WrongPasswordStep, RightPasswordStep DEF Login
<1>3. ASSUME NEW c \in Caller, Call(c) PROVE Inv'
  <2>1. CASE \E t \in Token : Authenticate(c, t) \/ Logout(c, t)
    BY <2>1, ReadSteps
  <2>2. CASE \E now \in 0 .. clock : TouchSession(c, now) \/ RevokeSession(c, now)
    BY <2>2, WriteSteps
  <2>3. CASE LoseCaller(c)
    <3>1. 0 \in 0 .. clock
      BY DEF Inv, TypeOK
    <3> QED
      BY <2>3, <3>1, WriteSteps
  <2> QED
    BY <1>3, <2>1, <2>2, <2>3 DEF Call
<1>4. CASE UNCHANGED vars
  <2>1. TypeOK' /\ \A c \in Caller : CallerOK(c)'
    BY <1>4 DEF Inv, TypeOK, CallerOK, vars, loginVars, sessionVars
  <2> QED
    BY <1>4, <2>1, Aside DEF vars, loginVars
<1> QED
  BY <1>1, <1>2, <1>3, <1>4 DEF Next

LEMMA InvAlways == Spec => []Inv
BY InvInit, InvStep, PTL DEF Spec

\* Every variable keeps its type; in particular failed_attempts never passes
\* the threshold.
THEOREM TypeCorrect == Spec => []TypeOK
<1>1. Inv => TypeOK
  BY DEF Inv
<1> QED
  BY <1>1, InvAlways, PTL

\* However many logins overlap, one more than Threshold answers "wrong password"
\* take as long as the lock-out, less the age a login may have.
THEOREM GuessesAreBounded == Spec => []GuessesBounded
<1>1. Inv => GuessesBounded
  BY DEF Inv, CredentialOK, Spaced, GuessesBounded
<1> QED
  BY <1>1, InvAlways, PTL

\* An account is locked by exactly Threshold wrong passwords since it was last
\* open.
THEOREM LockIsEarned == Spec => LockEarned
<1> DEFINE Earned(n) == until'[n] # until[n] /\ until'[n] # Never =>
             \E k \in 1 .. Len(checks'[n]) : Len(checks'[n]) = k * Threshold
<1>1. Inv /\ [Next]_vars => \A n \in Name : Earned(n)
  <2> SUFFICES ASSUME Inv, [Next]_vars, NEW n \in Name,
                      until'[n] # until[n], until'[n] # Never
               PROVE  \E k \in 1 .. Len(checks'[n]) : Len(checks'[n]) = k * Threshold
    OBVIOUS
  <2>1. Inv'
    BY InvStep
  <2>2. /\ failed'[n] = Threshold /\ checks'[n] \in Seq(Nat)
        /\ \E k \in Nat : Len(checks'[n]) = k * Threshold + failed'[n]
    BY <2>1 DEF Inv, CredentialOK, CounterOK, TypeOK
  <2>3. PICK k \in Nat : Len(checks'[n]) = k * Threshold + Threshold
    BY <2>2
  <2>4. Len(checks'[n]) = (k + 1) * Threshold /\ k + 1 <= (k + 1) * Threshold
    BY <2>3, OneMore, Constants
  <2>5. k + 1 \in 1 .. Len(checks'[n])
    BY <2>2, <2>4
  <2> QED
    BY <2>4, <2>5
<1>2. [][\A n \in Name : Earned(n)]_vars <=> LockEarned
  BY PTL DEF LockEarned
<1> QED
  BY <1>1, <1>2, InvAlways, PTL DEF Spec

\* How a step changes the row of a session that is in use.
LEMMA SessionChanges ==
  ASSUME Inv, [Next]_vars, NEW t \in Token, ~Unused(t)
  PROVE  \/ session'[t] = session[t]
         \/ \E now \in 0 .. clock :
              /\ session[t].revoked = Never
              /\ session'[t] = [session[t] EXCEPT !.revoked = now]
         \/ \E now \in 0 .. clock :
              /\ session[t].seen = Never \/ session[t].seen < now - Interval
              /\ session'[t] = [session[t] EXCEPT !.seen = now]
<1>1. TypeOK
  BY DEF Inv
<1>2. CASE UNCHANGED session
  BY <1>2
<1>3. ASSUME NEW u \in Token, NEW now, Unused(u), Issue(u, now) PROVE session'[t] = session[t]
  BY <1>1, <1>3 DEF Issue, TypeOK
<1>4. ASSUME NEW c \in Caller, NEW now \in 0 .. clock, TouchSession(c, now) \/ RevokeSession(c, now)
      PROVE  \/ session'[t] = session[t]
             \/ /\ session[t].revoked = Never
                /\ session'[t] = [session[t] EXCEPT !.revoked = now]
             \/ /\ session[t].seen = Never \/ session[t].seen < now - Interval
                /\ session'[t] = [session[t] EXCEPT !.seen = now]
  BY <1>1, <1>4 DEF TouchSession, RevokeSession, TypeOK
<1> QED
  BY <1>2, <1>3, <1>4
  DEF Next, Tick, SignUp, Login, BeginLogin, LockRow, GiveUpLogin, WrongPassword, RightPassword,
      Call, Authenticate, Logout, LoseCaller, vars, loginVars, sessionVars

\* A session that was ended stays ended, at the time of the first logout,
\* whatever other requests with its token have read.
THEOREM RevokedStays == Spec => RevokedOnce
<1> DEFINE Stays(t) == session[t].revoked # Never => session'[t].revoked = session[t].revoked
<1>1. Inv /\ [Next]_vars => \A t \in Token : Stays(t)
  <2> SUFFICES ASSUME Inv, [Next]_vars, NEW t \in Token, session[t].revoked # Never
               PROVE  session'[t].revoked = session[t].revoked
    OBVIOUS
  <2>1. ~Unused(t)
    BY DEF Unused, NoSession
  <2>2. session[t] \in SessionRow
    BY DEF Inv, TypeOK
  <2> QED
    BY <2>1, <2>2, SessionChanges DEF SessionRow
<1>2. [][\A t \in Token : Stays(t)]_vars <=> RevokedOnce
  BY PTL DEF RevokedOnce
<1> QED
  BY <1>1, <1>2, InvAlways, PTL DEF Spec

\* last_seen_at only moves forward, and by more than the interval, whatever
\* requests have judged the same row at the same time.
THEOREM SeenIsSpaced == Spec => SeenSpaced
<1> DEFINE Far(t) == session'[t].seen # session[t].seen /\ session[t].seen # Never =>
             session'[t].seen > session[t].seen + Interval
<1>1. Inv /\ [Next]_vars => \A t \in Token : Far(t)
  <2> SUFFICES ASSUME Inv, [Next]_vars, NEW t \in Token,
                      session'[t].seen # session[t].seen, session[t].seen # Never
               PROVE  session'[t].seen > session[t].seen + Interval
    OBVIOUS
  <2>1. ~Unused(t)
    BY DEF Unused, NoSession
  <2>2. session[t] \in SessionRow /\ session[t].seen \in Nat /\ clock \in Nat
    BY DEF Inv, TypeOK, SessionRow
  <2>3. PICK now \in 0 .. clock : /\ session[t].seen < now - Interval
                                  /\ session'[t] = [session[t] EXCEPT !.seen = now]
    BY <2>1, <2>2, SessionChanges DEF SessionRow
  <2>4. session'[t].seen = now
    BY <2>2, <2>3 DEF SessionRow
  <2> QED
    BY <2>2, <2>3, <2>4, Constants
<1>2. [][\A t \in Token : Far(t)]_vars <=> SeenSpaced
  BY PTL DEF SeenSpaced
<1> QED
  BY <1>1, <1>2, InvAlways, PTL DEF Spec

=============================================================================

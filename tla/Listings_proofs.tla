---------------------------- MODULE Listings_proofs ----------------------------
(***************************************************************************)
(* What holds of Listings for every number of users, readers and rows, and *)
(* for every length of a page.                                             *)
(***************************************************************************)
EXTENDS Listings, FiniteSetTheorems, TLAPS

-----------------------------------------------------------------------------
(* The inductive invariant.                                                *)

\* A row that has been there keeps its place, deleted or not.
Seen(i) == row[i].state \in {"there", "deleted"}
OfList(user, list, i) == Seen(i) /\ row[i].in = list /\ row[i].owner = user

\* Only finitely many rows have ever been inserted, however many ids there are.
Inserted == {i \in Id : row[i].state # "none"}

\* The next page begins behind the last row that was shown.
NextIsLast(w) ==
  LET last == Last(w.shown)
  IN w.shown # <<>> /\ w.next.created = row[last].created /\ w.next.id = last /\ w.next.of = w.list

\* Of a walk from the first page on, the steady rows are shown or still to come.
StillToCome(w) ==
  \A i \in w.steady :
    i \in Range(w.shown) \/ (w.next # Nothing /\ Before(w.list, w.next, At(i)))

WalkOK(user, w) ==
  /\ w.status # "200" => w.shown = <<>> /\ w.next = Nothing
  /\ w.status = "200" =>
       /\ w.list \in Listing
       /\ \A i \in Range(w.shown) \cup w.steady : OfList(user, w.list, i)
       /\ InOrder(w)
       /\ w.next # Nothing => NextIsLast(w)
       /\ w.since = Nothing => StillToCome(w)

Inv ==
  /\ TypeOK
  /\ IsFiniteSet(Inserted)
  /\ \A user \in Reader : WalkOK(user, walk[user])

-----------------------------------------------------------------------------
(* The order of a list.                                                    *)

LEMMA BeforeIsAnOrder ==
  ASSUME NEW list, NEW a, NEW b, NEW c,
         a.created \in Nat, a.id \in Nat, b.created \in Nat, b.id \in Nat,
         c.created \in Nat, c.id \in Nat
  PROVE  /\ ~Before(list, a, a)
         /\ Before(list, a, b) /\ Before(list, b, c) => Before(list, a, c)
         /\ Before(list, a, b) \/ Before(list, b, a) \/ (a.created = b.created /\ a.id = b.id)
<1>1. CASE list.kind = "message"
  BY <1>1 DEF Before
<1>2. CASE list.kind # "message"
  BY <1>2 DEF Before
<1> QED
  BY <1>1, <1>2

LEMMA PlaceTypes ==
  ASSUME TypeOK, NEW i \in Id
  PROVE  At(i).created = row[i].created /\ At(i).created \in Nat /\ At(i).id = i /\ At(i).id \in Nat
<1>1. row[i] \in Row
  BY DEF TypeOK
<1> QED
  BY <1>1, ListingsAssumption DEF At, Row

LEMMA RowOrder ==
  ASSUME TypeOK, NEW list, NEW i \in Id, NEW j \in Id, NEW k \in Id
  PROVE  /\ ~Before(list, At(i), At(i))
         /\ Before(list, At(i), At(j)) /\ Before(list, At(j), At(k)) => Before(list, At(i), At(k))
         /\ i # j => Before(list, At(i), At(j)) \/ Before(list, At(j), At(i))
BY PlaceTypes, BeforeIsAnOrder

\* In a finite set of rows, a row before another has fewer rows before it.
LEMMA FewerBefore ==
  ASSUME TypeOK, NEW list, NEW S \in SUBSET Id, IsFiniteSet(S), NEW i \in S, NEW j \in S,
         Before(list, At(i), At(j))
  PROVE  RowsBefore(list, S, i) < RowsBefore(list, S, j)
<1> DEFINE I == {k \in S : Before(list, At(k), At(i))}
           J == {k \in S : Before(list, At(k), At(j))}
<1>1. I \subseteq J /\ i \in J /\ i \notin I
  BY RowOrder
<1>2. IsFiniteSet(I) /\ IsFiniteSet(J) /\ I # J
  BY <1>1, FS_Subset
<1>3. Cardinality(I) <= Cardinality(J) /\ Cardinality(I) # Cardinality(J)
  BY <1>1, <1>2, FS_Subset
<1>4. Cardinality(I) \in Nat /\ Cardinality(J) \in Nat
  BY <1>2, FS_CardinalityType
<1> QED
  BY <1>3, <1>4 DEF RowsBefore

LEMMA RowsBeforeType ==
  ASSUME TypeOK, NEW list, NEW S \in SUBSET Id, IsFiniteSet(S), NEW i \in S
  PROVE  RowsBefore(list, S, i) \in 0 .. Cardinality(S) - 1
<1> DEFINE I == {k \in S : Before(list, At(k), At(i))}
<1>1. I \in SUBSET S /\ i \notin I
  BY RowOrder
<1>2. IsFiniteSet(I) /\ Cardinality(I) <= Cardinality(S) /\ Cardinality(I) # Cardinality(S)
  BY <1>1, FS_Subset
<1>3. Cardinality(I) \in Nat /\ Cardinality(S) \in Nat
  BY <1>2, FS_CardinalityType
<1> QED
  BY <1>2, <1>3 DEF RowsBefore

\* There is exactly one row with no row before it, one with one, and so on.
LEMMA EveryPlaceTaken ==
  ASSUME TypeOK, NEW list, NEW S \in SUBSET Id, IsFiniteSet(S), NEW n \in 1 .. Cardinality(S)
  PROVE  \E i \in S : RowsBefore(list, S, i) = n - 1
<1> DEFINE f == [i \in S |-> RowsBefore(list, S, i)]
           T == 0 .. Cardinality(S) - 1
<1>1. Cardinality(S) \in Nat
  BY FS_CardinalityType
<1>2. IsFiniteSet(T) /\ Cardinality(T) = Cardinality(S)
  <2>1. PICK last \in Int : last = Cardinality(S) - 1
    BY <1>1
  <2>2. IsFiniteSet(0 .. last) /\ Cardinality(0 .. last) = IF 0 > last THEN 0 ELSE last - 0 + 1
    BY FS_Interval
  <2> QED
    BY <1>1, <2>1, <2>2
<1>3. \A i, j \in S : f[i] = f[j] => i = j
  <2>1. SUFFICES ASSUME NEW i \in S, NEW j \in S, f[i] = f[j], i # j PROVE FALSE
    OBVIOUS
  <2>2. Before(list, At(i), At(j)) \/ Before(list, At(j), At(i))
    BY <2>1, RowOrder
  <2>3. RowsBefore(list, S, i) \in Nat /\ RowsBefore(list, S, j) \in Nat
    BY RowsBeforeType
  <2>4. RowsBefore(list, S, i) < RowsBefore(list, S, j) \/ RowsBefore(list, S, j) < RowsBefore(list, S, i)
    BY <2>2, FewerBefore
  <2> QED
    BY <2>1, <2>3, <2>4
<1>4. f \in [S -> T]
  BY RowsBeforeType
<1>5. f \in Injection(S, T)
  BY <1>3, <1>4 DEF Injection, IsInjective
<1>6. f \in Surjection(S, T)
  BY <1>2, <1>5, FS_Injection
<1>7. n - 1 \in T
  BY <1>1
<1>8. \E i \in S : f[i] = n - 1
  BY <1>6, <1>7 DEF Surjection
<1> QED
  BY <1>8

\* The rows that Found looks at.
RowsBehind(user, list, cursor) == {i \in Rows(user, list) : Behind(list, cursor, i)}

LEMMA RowsFinite ==
  ASSUME Inv, NEW user, NEW list, NEW cursor
  PROVE  /\ RowsBehind(user, list, cursor) \in SUBSET Id
         /\ IsFiniteSet(RowsBehind(user, list, cursor))
<1>1. RowsBehind(user, list, cursor) \in SUBSET Inserted
  BY DEF RowsBehind, Rows, There, Inserted
<1> QED
  BY <1>1, FS_Subset DEF Inv, Inserted

\* The query returns rows in their order, and all that come before the last one
\* it returns: a page and one more row, unless there are no more.
LEMMA FoundIsSorted ==
  ASSUME Inv, NEW user, NEW list, NEW cursor
  PROVE  LET S == RowsBehind(user, list, cursor)
             found == Found(user, list, cursor)
         IN  /\ found \in Seq(S) /\ Len(found) \in 0 .. Limit + 1
             /\ \A m, n \in 1 .. Len(found) : m < n => Before(list, At(found[m]), At(found[n]))
             /\ \A i \in S, n \in 1 .. Len(found) :
                  \/ \E m \in 1 .. n : found[m] = i
                  \/ Before(list, At(found[n]), At(i))
             /\ Len(found) <= Limit => \A i \in S : \E m \in 1 .. Len(found) : found[m] = i
<1> DEFINE S == RowsBehind(user, list, cursor)
           found == Found(user, list, cursor)
           size == IF Cardinality(S) < Limit + 1 THEN Cardinality(S) ELSE Limit + 1
<1>1. TypeOK /\ S \in SUBSET Id /\ IsFiniteSet(S) /\ Cardinality(S) \in Nat /\ Limit \in Nat
  BY RowsFinite, FS_CardinalityType, ListingsAssumption DEF Inv
<1>2. found = [n \in 1 .. size |-> CHOOSE i \in S : RowsBefore(list, S, i) = n - 1]
  BY DEF Found, RowsBehind
<1>3. size \in Nat /\ size <= Cardinality(S) /\ size <= Limit + 1
  BY <1>1
<1>4. ASSUME NEW n \in 1 .. size
      PROVE  found[n] \in S /\ RowsBefore(list, S, found[n]) = n - 1
  <2>1. n \in 1 .. Cardinality(S)
    BY <1>1, <1>3
  <2>2. \E i \in S : RowsBefore(list, S, i) = n - 1
    BY <1>1, <2>1, EveryPlaceTaken
  <2> QED
    BY <1>2, <2>2
<1>5. found \in Seq(S) /\ Len(found) = size
  <2>1. found \in [1 .. size -> S]
    BY <1>2, <1>4
  <2> QED
    BY <1>3, <2>1
<1> HIDE DEF found, size, S
<1>6. ASSUME NEW i \in S, NEW j \in S, RowsBefore(list, S, i) < RowsBefore(list, S, j)
      PROVE  Before(list, At(i), At(j))
  <2>1. RowsBefore(list, S, i) \in Nat /\ RowsBefore(list, S, j) \in Nat
    BY <1>1, RowsBeforeType
  <2>2. ~Before(list, At(j), At(i))
    <3>1. SUFFICES ASSUME Before(list, At(j), At(i)) PROVE FALSE
      OBVIOUS
    <3>2. RowsBefore(list, S, j) < RowsBefore(list, S, i)
      BY <1>1, <3>1, FewerBefore
    <3> QED
      BY <1>6, <2>1, <3>2
  <2>3. i # j
    BY <1>6, <2>1
  <2> QED
    BY <1>1, <2>2, <2>3, RowOrder
<1>7. ASSUME NEW i \in S, NEW n \in 1 .. size, RowsBefore(list, S, i) = n - 1
      PROVE  found[n] = i
  <2>1. found[n] \in S /\ RowsBefore(list, S, found[n]) = RowsBefore(list, S, i)
    BY <1>4, <1>7
  <2>2. SUFFICES ASSUME found[n] # i PROVE FALSE
    OBVIOUS
  <2>3. Before(list, At(found[n]), At(i)) \/ Before(list, At(i), At(found[n]))
    BY <1>1, <2>1, <2>2, RowOrder
  <2>4. \/ RowsBefore(list, S, found[n]) < RowsBefore(list, S, i)
        \/ RowsBefore(list, S, i) < RowsBefore(list, S, found[n])
    BY <1>1, <2>1, <2>3, FewerBefore
  <2>5. RowsBefore(list, S, i) \in Nat
    BY <1>1, RowsBeforeType
  <2> QED
    BY <2>1, <2>4, <2>5
<1>8. ASSUME NEW m \in 1 .. size, NEW n \in 1 .. size, m < n
      PROVE  Before(list, At(found[m]), At(found[n]))
  BY <1>4, <1>6, <1>8
<1>9. ASSUME NEW i \in S, NEW n \in 1 .. size
      PROVE  \/ \E m \in 1 .. n : found[m] = i
             \/ Before(list, At(found[n]), At(i))
  <2>1. PICK r \in 0 .. Cardinality(S) - 1 : r = RowsBefore(list, S, i)
    BY <1>1, RowsBeforeType
  <2>2. CASE r < n
    <3>1. r + 1 \in 1 .. n /\ r + 1 \in 1 .. size /\ r = (r + 1) - 1
      BY <1>3, <2>1, <2>2
    <3> QED
      BY <1>7, <2>1, <3>1
  <2>3. CASE ~(r < n)
    <3>1. found[n] \in S /\ RowsBefore(list, S, found[n]) < RowsBefore(list, S, i)
      BY <1>4, <2>1, <2>3
    <3> QED
      BY <1>6, <3>1
  <2> QED
    BY <2>2, <2>3
<1>10. ASSUME size <= Limit, NEW i \in S PROVE \E m \in 1 .. size : found[m] = i
  <2>1. size = Cardinality(S)
    BY <1>1, <1>10 DEF size
  <2>2. PICK r \in 0 .. Cardinality(S) - 1 : r = RowsBefore(list, S, i)
    BY <1>1, RowsBeforeType
  <2>3. r + 1 \in 1 .. size /\ r = (r + 1) - 1
    BY <1>3, <2>1, <2>2
  <2> QED
    BY <1>7, <2>2, <2>3
<1> QED
  BY <1>1, <1>3, <1>5, <1>8, <1>9, <1>10 DEF S, found

-----------------------------------------------------------------------------
(* Rows come and go.                                                       *)

\* What is kept of a row that has been there, whatever happens to it.
RowsKept ==
  \A i \in Id : Seen(i) => /\ Seen(i)'
                           /\ row'[i].in = row[i].in /\ row'[i].owner = row[i].owner
                           /\ row'[i].created = row[i].created

LEMMA WalkKept ==
  ASSUME NEW user, NEW w \in Walk, WalkOK(user, w), RowsKept
  PROVE  WalkOK(user, w)'
<1>1. CASE w.status # "200"
  BY <1>1 DEF WalkOK
<1>2. CASE w.status = "200"
  <2>1. \A i \in Range(w.shown) \cup w.steady : OfList(user, w.list, i) /\ i \in Id
    <3>1. w.shown \in Seq(Id) /\ w.steady \in SUBSET Id
      BY DEF Walk
    <3>2. Range(w.shown) \subseteq Id
      BY <3>1 DEF Range
    <3> QED
      BY <1>2, <3>1, <3>2 DEF WalkOK
  <2>2. \A i \in Range(w.shown) \cup w.steady : OfList(user, w.list, i)' /\ At(i)' = At(i)
    BY <2>1 DEF RowsKept, OfList, At
  <2>3. w.shown \in Seq(Id) /\ \A n \in 1 .. Len(w.shown) : w.shown[n] \in Range(w.shown)
    BY DEF Walk, Range
  <2>4. InOrder(w)'
    <3>1. InOrder(w)
      BY <1>2 DEF WalkOK
    <3>2. \A n \in 1 .. Len(w.shown) : At(w.shown[n])' = At(w.shown[n])
      BY <2>2, <2>3
    <3>3. ASSUME NEW m \in 1 .. Len(w.shown), NEW n \in 1 .. Len(w.shown), m < n
          PROVE  Before(w.list, At(w.shown[m]), At(w.shown[n]))'
      <4>1. Before(w.list, At(w.shown[m]), At(w.shown[n]))
        BY <3>1, <3>3 DEF InOrder
      <4> QED
        BY <3>2, <4>1 DEF Before
    <3> QED
      BY <3>3 DEF InOrder
  <2>5. w.next # Nothing => NextIsLast(w)'
    <3>1. SUFFICES ASSUME w.next # Nothing PROVE NextIsLast(w)'
      OBVIOUS
    <3>2. NextIsLast(w)
      BY <1>2, <3>1 DEF WalkOK
    <3>3. Last(w.shown) \in Range(w.shown)
      BY <2>3, <3>2 DEF NextIsLast, Last
    <3>4. row'[Last(w.shown)].created = row[Last(w.shown)].created
      BY <2>1, <3>3 DEF RowsKept, OfList
    <3> QED
      BY <3>2, <3>4 DEF NextIsLast
  <2>6. w.since = Nothing => StillToCome(w)'
    <3>1. SUFFICES ASSUME w.since = Nothing, NEW i \in w.steady
                   PROVE  \/ i \in Range(w.shown)
                          \/ w.next # Nothing /\ Before(w.list, w.next, At(i))'
      BY DEF StillToCome
    <3>2. i \in Range(w.shown) \/ (w.next # Nothing /\ Before(w.list, w.next, At(i)))
      BY <1>2, <3>1 DEF WalkOK, StillToCome
    <3>3. At(i)' = At(i)
      BY <2>2
    <3> QED
      BY <3>2, <3>3 DEF Before
  <2> QED
    BY <1>2, <2>2, <2>4, <2>5, <2>6 DEF WalkOK
<1> QED
  BY <1>1, <1>2

\* Steps that write rows.
WriteRow ==
  \/ Tick
  \/ \E u \in User, i \in Id : \E list \in ListsFor(u) : Begin(u, i, list)
  \/ \E i \in Id : Commit(i) \/ DeletePersona(i)

LEMMA WriteRowKeeps ==
  ASSUME TypeOK, IsFiniteSet(Inserted), WriteRow
  PROVE  TypeOK' /\ IsFiniteSet(Inserted)' /\ RowsKept /\ walk' = walk
<1>1. /\ row \in [Id -> Row] /\ \A i \in Id : row[i].created <= clock
      /\ clock \in Nat /\ clock <= MaxClock /\ walk \in [Reader -> Walk] /\ MaxClock \in Nat
  BY ListingsAssumption DEF TypeOK
<1>2. NoRow \in Row
  BY DEF NoRow, Row
<1>3. CASE Tick
  <2>1. clock' = clock + 1 /\ clock < MaxClock /\ row' = row /\ walk' = walk
    BY <1>3 DEF Tick
  <2>2. clock' \in 0 .. MaxClock /\ \A i \in Id : row[i].created <= clock'
    <3>1. \A i \in Id : row[i].created \in Nat
      BY <1>1 DEF Row
    <3> QED
      BY <1>1, <2>1, <3>1
  <2> QED
    BY <1>1, <2>1, <2>2 DEF TypeOK, Inserted, RowsKept, Seen
<1>4. ASSUME NEW u \in User, NEW i \in Id, NEW list \in ListsFor(u), Begin(u, i, list)
      PROVE  TypeOK' /\ IsFiniteSet(Inserted)' /\ RowsKept /\ walk' = walk
  <2> DEFINE new == [state |-> "begun", in |-> list, owner |-> u, created |-> clock]
  <2>1. row[i].state = "none" /\ row' = [row EXCEPT ![i] = new] /\ clock' = clock /\ walk' = walk
    BY <1>4 DEF Begin
  <2>2. new \in Row /\ new.created = clock
    BY <1>1 DEF Row, ListsFor
  <2>3. row' \in [Id -> Row] /\ \A j \in Id : row'[j].created <= clock
    BY <1>1, <2>1, <2>2
  <2>4. Inserted' \in SUBSET (Inserted \cup {i})
    BY <1>1, <2>1 DEF Inserted
  <2>5. IsFiniteSet(Inserted)'
    BY <2>4, FS_AddElement, FS_Subset
  <2>6. RowsKept
    BY <1>1, <2>1 DEF RowsKept, Seen
  <2> QED
    BY <1>1, <2>1, <2>3, <2>5, <2>6 DEF TypeOK
<1>5. ASSUME NEW i \in Id, Commit(i)
      PROVE  TypeOK' /\ IsFiniteSet(Inserted)' /\ RowsKept /\ walk' = walk
  <2>1. /\ row[i].state = "begun" /\ clock' = clock /\ walk' = walk
        /\ row' = [row EXCEPT ![i] = [row[i] EXCEPT !.state = "there"]]
             \/ row' = [row EXCEPT ![i] = NoRow]
    BY <1>5 DEF Commit
  <2>2. [row[i] EXCEPT !.state = "there"] \in Row
    <3>1. row[i] \in Row
      BY <1>1
    <3> QED
      BY <3>1 DEF Row
  <2>3. [row[i] EXCEPT !.state = "there"].created = row[i].created /\ NoRow.created = 0
    <3>1. row[i] \in Row
      BY <1>1
    <3> QED
      BY <3>1 DEF Row, NoRow
  <2>4. row' \in [Id -> Row] /\ \A j \in Id : row'[j].created <= clock
    <3>1. \E new \in Row : row' = [row EXCEPT ![i] = new] /\ new.created <= clock
      <4>1. CASE row' = [row EXCEPT ![i] = [row[i] EXCEPT !.state = "there"]]
        <5>1. row[i].created <= clock
          BY <1>1
        <5> QED
          BY <2>2, <2>3, <4>1, <5>1
      <4>2. CASE row' = [row EXCEPT ![i] = NoRow]
        <5>1. NoRow.created <= clock
          BY <1>1, <2>3
        <5> QED
          BY <1>2, <4>2, <5>1
      <4> QED
        BY <2>1, <4>1, <4>2
    <3> QED
      BY <1>1, <3>1
  <2>5. Inserted' \in SUBSET (Inserted \cup {i})
    BY <1>1, <2>1 DEF Inserted
  <2>6. IsFiniteSet(Inserted)'
    BY <2>5, FS_AddElement, FS_Subset
  <2>7. RowsKept
    BY <1>1, <2>1 DEF RowsKept, Seen
  <2> QED
    BY <1>1, <2>1, <2>4, <2>6, <2>7 DEF TypeOK
<1>6. ASSUME NEW p \in Id, DeletePersona(p)
      PROVE  TypeOK' /\ IsFiniteSet(Inserted)' /\ RowsKept /\ walk' = walk
  <2>1. /\ There(p) /\ clock' = clock /\ walk' = walk
        /\ row' = [i \in Id |-> IF i \in Below(p) THEN [row[i] EXCEPT !.state = "deleted"]
                                                  ELSE row[i]]
    BY <1>6 DEF DeletePersona
  <2>2. \A i \in Below(p) : There(i)
    BY <2>1 DEF Below
  <2>3. \A i \in Id : /\ [row[i] EXCEPT !.state = "deleted"] \in Row
                      /\ [row[i] EXCEPT !.state = "deleted"].state = "deleted"
                      /\ [row[i] EXCEPT !.state = "deleted"].in = row[i].in
                      /\ [row[i] EXCEPT !.state = "deleted"].owner = row[i].owner
                      /\ [row[i] EXCEPT !.state = "deleted"].created = row[i].created
    <3>1. SUFFICES ASSUME NEW i \in Id
                   PROVE  /\ [row[i] EXCEPT !.state = "deleted"] \in Row
                          /\ [row[i] EXCEPT !.state = "deleted"].state = "deleted"
                          /\ [row[i] EXCEPT !.state = "deleted"].in = row[i].in
                          /\ [row[i] EXCEPT !.state = "deleted"].owner = row[i].owner
                          /\ [row[i] EXCEPT !.state = "deleted"].created = row[i].created
      OBVIOUS
    <3>2. row[i] \in Row
      BY <1>1
    <3> QED
      BY <3>2 DEF Row
  <2>4. row' \in [Id -> Row] /\ \A j \in Id : row'[j].created <= clock
    BY <1>1, <2>1, <2>3
  <2>5. Inserted' = Inserted
    BY <2>1, <2>2, <2>3 DEF Inserted, There
  <2>6. RowsKept
    BY <2>1, <2>3 DEF RowsKept, Seen
  <2> QED
    BY <1>1, <2>1, <2>4, <2>5, <2>6 DEF TypeOK
<1> QED
  BY <1>3, <1>4, <1>5, <1>6 DEF WriteRow

-----------------------------------------------------------------------------
(* A page is asked.                                                        *)

LEMMA Joined ==
  ASSUME NEW S, NEW s \in Seq(S), NEW t \in Seq(S)
  PROVE  /\ s \o t \in Seq(S) /\ Len(s \o t) = Len(s) + Len(t)
         /\ \A n \in 1 .. Len(s) : (s \o t)[n] = s[n]
         /\ \A n \in 1 .. Len(t) : (s \o t)[Len(s) + n] = t[n]
         /\ \A n \in 1 .. Len(s) + Len(t) : n \in 1 .. Len(s) \/ n - Len(s) \in 1 .. Len(t)
         /\ Range(s \o t) = Range(s) \cup Range(t)
<1>1. /\ s \o t \in Seq(S) /\ Len(s \o t) = Len(s) + Len(t)
      /\ Len(s) \in Nat /\ Len(t) \in Nat
      /\ DOMAIN s = 1 .. Len(s) /\ DOMAIN t = 1 .. Len(t)
      /\ DOMAIN (s \o t) = 1 .. Len(s) + Len(t)
  OBVIOUS
<1>2. \A n \in 1 .. Len(s) : (s \o t)[n] = s[n]
  OBVIOUS
<1>3. \A n \in 1 .. Len(t) : (s \o t)[Len(s) + n] = t[n]
  OBVIOUS
<1>4. \A n \in 1 .. Len(s) + Len(t) : n \in 1 .. Len(s) \/ n - Len(s) \in 1 .. Len(t)
  BY <1>1
<1>5. Range(s \o t) = Range(s) \cup Range(t)
  <2>1. ASSUME NEW n \in 1 .. Len(s) + Len(t) PROVE (s \o t)[n] \in Range(s) \cup Range(t)
    <3>1. CASE n \in 1 .. Len(s)
      BY <1>1, <1>2, <3>1 DEF Range
    <3>2. CASE n - Len(s) \in 1 .. Len(t)
      <4>1. PICK m \in 1 .. Len(t) : m = n - Len(s)
        BY <3>2
      <4>2. n = Len(s) + m
        BY <1>1, <4>1
      <4> QED
        BY <1>1, <1>3, <4>2 DEF Range
    <3> QED
      BY <1>4, <3>1, <3>2
  <2>2. ASSUME NEW n \in 1 .. Len(s) PROVE s[n] \in Range(s \o t)
    <3>1. n \in 1 .. Len(s) + Len(t)
      BY <1>1
    <3> QED
      BY <1>1, <1>2, <3>1 DEF Range
  <2>3. ASSUME NEW n \in 1 .. Len(t) PROVE t[n] \in Range(s \o t)
    <3>1. Len(s) + n \in 1 .. Len(s) + Len(t)
      BY <1>1
    <3> QED
      BY <1>1, <1>3, <3>1 DEF Range
  <2> QED
    BY <1>1, <2>1, <2>2, <2>3 DEF Range
<1> QED
  BY <1>1, <1>2, <1>3, <1>4, <1>5

\* A page is what was found, but for the row that was asked for in addition.
LEMMA PageOfFound ==
  ASSUME NEW S, NEW found \in Seq(S), Len(found) <= Limit + 1
  PROVE  /\ Page(found) \in Seq(S) /\ Len(Page(found)) <= Len(found)
         /\ \A n \in 1 .. Len(Page(found)) : Page(found)[n] = found[n]
         /\ Len(found) <= Limit => Page(found) = found
         /\ Len(found) > Limit => Len(Page(found)) = Limit
<1>1. Limit \in Nat /\ Len(found) \in Nat
  BY ListingsAssumption
<1>2. CASE Len(found) < Limit
  BY <1>1, <1>2 DEF Page
<1>3. CASE ~(Len(found) < Limit)
  <2>1. Page(found) = SubSeq(found, 1, Limit)
    BY <1>3 DEF Page
  <2>2. /\ Page(found) \in Seq(S) /\ Len(Page(found)) = Limit
        /\ \A n \in 1 .. Limit : Page(found)[n] = found[n]
    BY <1>1, <1>3, <2>1
  <2>3. Len(found) <= Limit => Page(found) = found
    BY <1>1, <1>3, <2>1, <2>2
  <2> QED
    BY <1>1, <1>3, <2>2, <2>3
<1> QED
  BY <1>2, <1>3

LEMMA CursorTypes ==
  ASSUME TypeOK, NEW user \in User, NEW list \in Listing, NEW i \in Id
  PROVE  /\ Encode(user, list, i) \in Cursor /\ Encode(user, list, i) # Nothing
         /\ Encode(user, list, i).created = row[i].created /\ Encode(user, list, i).id = i
         /\ Encode(user, list, i).of = list
<1>1. row[i].created \in Nat
  BY DEF TypeOK, Row
<1>2. Scope(user, list) \in ({"owner"} \X User) \cup ({"conversation_id"} \X Id)
  BY DEF Scope, Listing
<1>3. Encode(user, list, i) \in Cursor
  BY <1>1, <1>2 DEF Encode, Cursor
<1> QED
  BY <1>3, ListingsAssumption DEF Encode

\* What a page brings: rows in their order, behind the cursor; and every row
\* behind the cursor is on it, or behind the next one.
LEMMA PageFacts ==
  ASSUME Inv, NEW user \in User, NEW list \in Listing, NEW cursor
  PROVE  LET S == RowsBehind(user, list, cursor)
             found == Found(user, list, cursor)
             page == Page(found)
             next == NextCursor(user, list, found)
         IN  /\ page \in Seq(S) /\ S \in SUBSET Id
             /\ \A m, n \in 1 .. Len(page) : m < n => Before(list, At(page[m]), At(page[n]))
             /\ next \in Cursor \cup {Nothing}
             /\ next # Nothing => /\ Len(page) >= 1
                                  /\ next.created = row[page[Len(page)]].created
                                  /\ next.id = page[Len(page)] /\ next.of = list
             /\ \A i \in S : i \in Range(page) \/ (next # Nothing /\ Before(list, next, At(i)))
<1> DEFINE S == RowsBehind(user, list, cursor)
           found == Found(user, list, cursor)
           page == Page(found)
           next == NextCursor(user, list, found)
<1>1. TypeOK /\ S \in SUBSET Id /\ Limit \in Nat /\ Limit >= 1
  BY RowsFinite, ListingsAssumption DEF Inv
<1>2. /\ found \in Seq(S) /\ Len(found) \in 0 .. Limit + 1
      /\ \A m, n \in 1 .. Len(found) : m < n => Before(list, At(found[m]), At(found[n]))
      /\ \A i \in S, n \in 1 .. Len(found) :
           \/ \E m \in 1 .. n : found[m] = i
           \/ Before(list, At(found[n]), At(i))
      /\ Len(found) <= Limit => \A i \in S : \E m \in 1 .. Len(found) : found[m] = i
  BY FoundIsSorted
<1>3. next = IF Len(found) > Limit THEN Encode(user, list, page[Len(page)]) ELSE Nothing
  BY DEF NextCursor, Last
<1> HIDE DEF found, S, next
<1>4. /\ page \in Seq(S) /\ Len(page) <= Len(found) /\ Len(page) \in Nat
      /\ \A n \in 1 .. Len(page) : page[n] = found[n]
      /\ Len(found) <= Limit => page = found
      /\ Len(found) > Limit => Len(page) = Limit
  BY <1>1, <1>2, PageOfFound
<1> HIDE DEF page
<1>5. ASSUME NEW m \in 1 .. Len(page), NEW n \in 1 .. Len(page), m < n
      PROVE  Before(list, At(page[m]), At(page[n]))
  <2>1. m \in 1 .. Len(found) /\ n \in 1 .. Len(found)
    BY <1>2, <1>4
  <2> QED
    BY <1>2, <1>4, <1>5, <2>1
<1>6. CASE Len(found) <= Limit
  <2>1. next = Nothing
    BY <1>1, <1>2, <1>3, <1>6
  <2>2. \A i \in S : i \in Range(page)
    BY <1>2, <1>4, <1>6 DEF Range
  <2> QED
    BY <1>1, <1>4, <1>5, <2>1, <2>2 DEF S, found, page, next
<1>7. CASE Len(found) > Limit
  <2>1. Len(page) = Limit /\ Limit \in 1 .. Len(page) /\ Limit \in 1 .. Len(found)
    BY <1>1, <1>2, <1>4, <1>7
  <2>2. page[Limit] \in Id /\ page[Limit] = found[Limit] /\ next = Encode(user, list, page[Limit])
    BY <1>1, <1>3, <1>4, <1>7, <2>1
  <2>3. /\ next \in Cursor /\ next # Nothing /\ next.created = row[page[Limit]].created
        /\ next.id = page[Limit] /\ next.of = list
    BY <1>1, <2>2, CursorTypes
  <2>4. ASSUME NEW i \in S PROVE i \in Range(page) \/ Before(list, next, At(i))
    <3>1. CASE \E m \in 1 .. Limit : found[m] = i
      BY <1>4, <2>1, <3>1 DEF Range
    <3>2. CASE Before(list, At(found[Limit]), At(i))
      BY <2>2, <2>3, <3>2 DEF Before, At
    <3> QED
      BY <1>2, <2>1, <3>1, <3>2
  <2> QED
    BY <1>1, <1>4, <1>5, <2>1, <2>3, <2>4 DEF S, found, page, next
<1> QED
  BY <1>1, <1>2, <1>6, <1>7

\* The walk after a page that is not refused, as AskPage sets it.
GoesOn(user, list, cursor) == cursor # Nothing /\ list = walk[user].list

NextWalk(user, list, cursor) ==
  LET goesOn == GoesOn(user, list, cursor)
      found  == Found(user, list, cursor)
      before == IF goesOn THEN walk[user].shown ELSE <<>>
  IN [list |-> list, status |-> "200",
      since |-> IF goesOn THEN walk[user].since
                ELSE IF cursor = Nothing THEN Nothing ELSE cursor.of,
      next |-> NextCursor(user, list, found),
      shown |-> before \o Page(found),
      steady |-> {i \in (IF goesOn THEN walk[user].steady ELSE Rows(user, list)) : There(i)}]

\* The cursor of a walk stands at the last row that the walk has shown.
LEMMA CursorIsLast ==
  ASSUME Inv, NEW user \in Reader, NEW cursor \in {Nothing, walk[user].next}, cursor # Nothing
  PROVE  /\ walk[user].status = "200" /\ walk[user].list \in Listing
         /\ NextIsLast(walk[user]) /\ cursor = walk[user].next /\ cursor.of = walk[user].list
<1>1. WalkOK(user, walk[user]) /\ cursor = walk[user].next /\ walk[user].next # Nothing
  BY DEF Inv
<1>2. walk[user].status = "200"
  BY <1>1 DEF WalkOK
<1>3. walk[user].list \in Listing /\ NextIsLast(walk[user])
  BY <1>1, <1>2 DEF WalkOK
<1> QED
  BY <1>1, <1>2, <1>3 DEF NextIsLast

LEMMA NextWalkOK ==
  ASSUME Inv, NEW user \in Reader, NEW list \in ListsFor(user),
         NEW cursor \in {Nothing, walk[user].next}
  PROVE  NextWalk(user, list, cursor) \in Walk /\ WalkOK(user, NextWalk(user, list, cursor))
<1> DEFINE w == walk[user]
           goesOn == GoesOn(user, list, cursor)
           S == RowsBehind(user, list, cursor)
           found == Found(user, list, cursor)
           page == Page(found)
           before == IF goesOn THEN w.shown ELSE <<>>
           shown == before \o page
           next == NextCursor(user, list, found)
           since == IF goesOn THEN w.since ELSE IF cursor = Nothing THEN Nothing ELSE cursor.of
           steady == {i \in (IF goesOn THEN w.steady ELSE Rows(user, list)) : There(i)}
           new == NextWalk(user, list, cursor)
<1>1. TypeOK /\ w \in Walk /\ WalkOK(user, w) /\ user \in User /\ list \in Listing
  BY ListingsAssumption DEF Inv, TypeOK, ListsFor
<1>2. /\ page \in Seq(S) /\ S \in SUBSET Id
      /\ \A m, n \in 1 .. Len(page) : m < n => Before(list, At(page[m]), At(page[n]))
      /\ next \in Cursor \cup {Nothing}
      /\ next # Nothing => /\ Len(page) >= 1
                           /\ next.created = row[page[Len(page)]].created
                           /\ next.id = page[Len(page)] /\ next.of = list
      /\ \A i \in S : i \in Range(page) \/ (next # Nothing /\ Before(list, next, At(i)))
  BY <1>1, PageFacts
<1>3. \A i \in S : There(i) /\ row[i].in = list /\ row[i].owner = user /\ Behind(list, cursor, i)
  BY DEF RowsBehind, Rows
<1>4. goesOn => /\ w.status = "200" /\ w.list = list /\ NextIsLast(w) /\ cursor = w.next
                /\ InOrder(w) /\ (w.since = Nothing => StillToCome(w))
                /\ \A i \in Range(w.shown) \cup w.steady : OfList(user, list, i)
  BY <1>1, CursorIsLast DEF GoesOn, WalkOK
<1>5. /\ new.list = list /\ new.status = "200" /\ new.since = since /\ new.next = next
      /\ new.shown = shown /\ new.steady = steady
      /\ new = [list |-> list, status |-> "200", since |-> since, next |-> next,
                shown |-> shown, steady |-> steady]
  BY DEF NextWalk
<1>6. before \in Seq(Id) /\ page \in Seq(Id)
  BY <1>1, <1>2 DEF Walk
<1>7. since \in Listing \cup {Nothing}
  BY <1>1, CursorIsLast DEF Walk
<1>8. steady \in SUBSET Id
  BY <1>1 DEF Walk, Rows
<1> HIDE DEF found, page, next, since, before, goesOn, steady, S, new
<1>9. /\ shown \in Seq(Id) /\ Len(shown) = Len(before) + Len(page)
      /\ \A n \in 1 .. Len(before) : shown[n] = before[n]
      /\ \A n \in 1 .. Len(page) : shown[Len(before) + n] = page[n]
      /\ \A n \in 1 .. Len(before) + Len(page) : n \in 1 .. Len(before) \/ n - Len(before) \in 1 .. Len(page)
      /\ Range(shown) = Range(before) \cup Range(page)
      /\ Len(before) \in Nat /\ Len(page) \in Nat
  BY <1>6, Joined
<1> HIDE DEF shown
<1>10. new \in Walk
  BY <1>1, <1>2, <1>5, <1>7, <1>8, <1>9 DEF Walk
<1>11. \A n \in 1 .. Len(page) : page[n] \in S
  BY <1>2, <1>9
<1>12. \A i \in Range(shown) \cup steady : OfList(user, list, i)
  <2>1. ASSUME NEW i \in Range(before) PROVE OfList(user, list, i)
    <3>1. goesOn
      <4>1. SUFFICES ASSUME ~goesOn PROVE FALSE
        OBVIOUS
      <4>2. before = <<>>
        BY <4>1 DEF before
      <4> QED
        BY <2>1, <4>2 DEF Range
    <3> QED
      BY <1>4, <2>1, <3>1 DEF before
  <2>2. ASSUME NEW i \in Range(page) PROVE OfList(user, list, i)
    <3>1. i \in S
      BY <1>2, <1>11, <2>2 DEF Range
    <3> QED
      BY <1>3, <3>1 DEF OfList, Seen, There
  <2>3. ASSUME NEW i \in steady PROVE OfList(user, list, i)
    <3>1. CASE goesOn
      BY <1>4, <2>3, <3>1 DEF steady
    <3>2. CASE ~goesOn
      BY <2>3, <3>2 DEF steady, Rows, OfList, Seen, There
    <3> QED
      BY <3>1, <3>2
  <2> QED
    BY <1>9, <2>1, <2>2, <2>3
<1>13. ASSUME NEW m \in 1 .. Len(before), NEW n \in 1 .. Len(page)
       PROVE  Before(list, At(before[m]), At(page[n]))
  <2>1. goesOn /\ before = w.shown
    <3>1. SUFFICES ASSUME ~goesOn PROVE FALSE
      BY DEF before
    <3>2. Len(before) = 0
      BY <3>1 DEF before
    <3> QED
      BY <1>13, <3>2
  <2>2. /\ cursor # Nothing /\ Len(before) >= 1 /\ cursor.id = before[Len(before)]
        /\ cursor.created = row[before[Len(before)]].created
    BY <1>4, <1>9, <1>13, <2>1 DEF NextIsLast, Last, goesOn, GoesOn
  <2>3. before[m] \in Id /\ before[Len(before)] \in Id /\ page[n] \in Id
    BY <1>6, <1>9, <2>2
  <2>4. Before(list, At(before[Len(before)]), At(page[n]))
    <3>1. Before(list, cursor, At(page[n]))
      BY <1>3, <1>11, <2>2 DEF Behind
    <3> QED
      BY <2>2, <3>1 DEF Before, At
  <2>5. m = Len(before) \/ Before(list, At(before[m]), At(before[Len(before)]))
    <3>1. Len(before) \in 1 .. Len(before) /\ (m = Len(before) \/ m < Len(before))
      BY <1>9, <2>2
    <3>2. InOrder(w) /\ w.list = list
      BY <1>4, <2>1
    <3> QED
      BY <2>1, <3>1, <3>2 DEF InOrder
  <2> QED
    BY <1>1, <2>3, <2>4, <2>5, RowOrder
<1>14. InOrder(new)
  <2>1. SUFFICES ASSUME NEW m \in 1 .. Len(shown), NEW n \in 1 .. Len(shown), m < n
                 PROVE  Before(list, At(shown[m]), At(shown[n]))
    BY <1>5 DEF InOrder
  <2>2. CASE n \in 1 .. Len(before)
    <3>1. m \in 1 .. Len(before) /\ shown[m] = before[m] /\ shown[n] = before[n]
      BY <1>9, <2>1, <2>2
    <3>2. goesOn /\ before = w.shown
      <4>1. SUFFICES ASSUME ~goesOn PROVE FALSE
        BY DEF before
      <4>2. Len(before) = 0
        BY <4>1 DEF before
      <4> QED
        BY <2>2, <4>2
    <3> QED
      BY <1>4, <2>1, <2>2, <3>1, <3>2 DEF InOrder
  <2>3. CASE n \notin 1 .. Len(before)
    <3>1. PICK q \in 1 .. Len(page) : q = n - Len(before)
      BY <1>9, <2>3
    <3>2. shown[n] = page[q]
      <4>1. n = Len(before) + q
        BY <1>9, <3>1
      <4> QED
        BY <1>9, <4>1
    <3>3. CASE m \in 1 .. Len(before)
      BY <1>9, <1>13, <3>2, <3>3
    <3>4. CASE m \notin 1 .. Len(before)
      <4>1. PICK p \in 1 .. Len(page) : p = m - Len(before)
        BY <1>9, <3>4
      <4>2. m = Len(before) + p /\ p < q
        BY <1>9, <2>1, <3>1, <4>1
      <4>3. shown[m] = page[p]
        BY <1>9, <4>2
      <4> QED
        BY <1>2, <3>2, <4>2, <4>3
    <3> QED
      BY <3>3, <3>4
  <2> QED
    BY <2>2, <2>3
<1>15. ASSUME next # Nothing PROVE NextIsLast(new)
  <2>1. Len(page) \in 1 .. Len(page) /\ Len(shown) > 0
    BY <1>2, <1>9, <1>15
  <2>2. Last(shown) = page[Len(page)] /\ shown # <<>>
    BY <1>9, <2>1 DEF Last
  <2> QED
    BY <1>2, <1>5, <1>15, <2>2 DEF NextIsLast
<1>16. ASSUME since = Nothing PROVE StillToCome(new)
  <2>1. SUFFICES ASSUME NEW i \in steady
                 PROVE  i \in Range(shown) \/ (next # Nothing /\ Before(list, next, At(i)))
    BY <1>5 DEF StillToCome
  <2>2. SUFFICES i \in Range(before) \/ i \in S
    BY <1>2, <1>9
  <2>3. CASE goesOn
    <3>1. w.since = Nothing /\ i \in w.steady /\ There(i)
      BY <1>16, <2>1, <2>3 DEF since, steady
    <3>2. i \in Range(before) \/ Before(list, cursor, At(i))
      BY <1>4, <2>3, <3>1 DEF StillToCome, before
    <3>3. OfList(user, list, i) /\ i \in Id
      BY <1>8, <1>12, <2>1
    <3> QED
      BY <3>1, <3>2, <3>3 DEF S, RowsBehind, Rows, Behind, OfList
  <2>4. CASE ~goesOn
    <3>1. cursor = Nothing
      <4>1. SUFFICES ASSUME cursor # Nothing PROVE FALSE
        OBVIOUS
      <4>2. since = w.list /\ w.list \in Listing
        BY <2>4, <4>1, CursorIsLast DEF since
      <4> QED
        BY <1>16, <4>2, ListingsAssumption
    <3>2. i \in Rows(user, list)
      BY <2>1, <2>4 DEF steady
    <3> QED
      BY <3>1, <3>2 DEF S, RowsBehind, Behind
  <2> QED
    BY <2>3, <2>4
<1> QED
  BY <1>1, <1>5, <1>10, <1>12, <1>14, <1>15, <1>16 DEF WalkOK, new

LEMMA AskPageOK ==
  ASSUME Inv, NEW user \in Reader, NEW list \in ListsFor(user),
         NEW cursor \in {Nothing, walk[user].next}, AskPage(user, list, cursor)
  PROVE  Inv'
<1>1. clock' = clock /\ row' = row
  BY DEF AskPage
<1>2. PICK new : /\ walk' = [walk EXCEPT ![user] = new]
                 /\ \/ new = [NoWalk EXCEPT !.status = "400"]
                    \/ new = [NoWalk EXCEPT !.status = "404"]
                    \/ new = NextWalk(user, list, cursor)
  BY DEF AskPage, NextWalk, GoesOn
<1>3. new \in Walk /\ WalkOK(user, new)
  <2>1. CASE new = NextWalk(user, list, cursor)
    BY <2>1, NextWalkOK
  <2>2. CASE \E s \in {"400", "404"} : new = [NoWalk EXCEPT !.status = s]
    <3>1. /\ new.status \in {"400", "404"} /\ new.shown = <<>> /\ new.next = Nothing
          /\ new.list = Nothing /\ new.since = Nothing /\ new.steady = {}
          /\ new = [list |-> new.list, since |-> new.since, status |-> new.status,
                    next |-> new.next, shown |-> new.shown, steady |-> new.steady]
      BY <2>2 DEF NoWalk
    <3>2. new.shown \in Seq(Id) /\ new.steady \in SUBSET Id
      BY <3>1
    <3>3. new \in Walk
      BY <3>1, <3>2 DEF Walk
    <3> QED
      BY <3>1, <3>3 DEF WalkOK
  <2> QED
    BY <1>2, <2>1, <2>2
<1>4. RowsKept
  BY <1>1 DEF RowsKept, Seen
<1>5. walk \in [Reader -> Walk] /\ \A v \in Reader : WalkOK(v, walk[v])
  BY DEF Inv, TypeOK
<1>6. ASSUME NEW v \in Reader PROVE WalkOK(v, walk[v])'
  <2>1. PICK w \in Walk : w = walk'[v] /\ WalkOK(v, w)
    BY <1>2, <1>3, <1>5
  <2>2. WalkOK(v, w)'
    BY <1>4, <2>1, WalkKept
  <2> QED
    BY <2>1, <2>2
<1>7. TypeOK' /\ IsFiniteSet(Inserted)'
  BY <1>1, <1>2, <1>3, <1>5 DEF Inv, TypeOK, Inserted
<1> QED
  BY <1>6, <1>7 DEF Inv

-----------------------------------------------------------------------------
(* The invariant holds, and what follows.                                  *)

LEMMA InvInit == Init => Inv
<1> SUFFICES ASSUME Init PROVE Inv
  OBVIOUS
<1>1. NoRow \in Row /\ NoRow.state = "none" /\ NoRow.created = 0
  BY DEF NoRow, Row
<1>2. NoWalk \in Walk /\ NoWalk.status = "none" /\ NoWalk.shown = <<>> /\ NoWalk.next = Nothing
  <2>1. <<>> \in Seq(Id)
    OBVIOUS
  <2> QED
    BY <2>1 DEF NoWalk, Walk
<1>3. TypeOK
  BY <1>1, <1>2, ListingsAssumption DEF Init, TypeOK
<1>4. Inserted = {}
  BY <1>1 DEF Init, Inserted
<1>5. \A user \in Reader : WalkOK(user, walk[user])
  BY <1>2 DEF Init, WalkOK
<1> QED
  BY <1>3, <1>4, <1>5, FS_EmptySet DEF Inv

LEMMA InvStep == Inv /\ [Next]_vars => Inv'
<1> SUFFICES ASSUME Inv, [Next]_vars PROVE Inv'
  OBVIOUS
<1>1. CASE WriteRow
  <2>1. TypeOK' /\ IsFiniteSet(Inserted)' /\ RowsKept /\ walk' = walk
    BY <1>1, WriteRowKeeps DEF Inv
  <2>2. ASSUME NEW user \in Reader PROVE WalkOK(user, walk[user])'
    <3>1. PICK w \in Walk : w = walk[user] /\ WalkOK(user, w)
      BY DEF Inv, TypeOK
    <3>2. WalkOK(user, w)'
      BY <2>1, <3>1, WalkKept
    <3> QED
      BY <2>1, <3>1, <3>2
  <2> QED
    BY <2>1, <2>2 DEF Inv
<1>2. CASE \E u \in Reader : \E list \in ListsFor(u), cursor \in {Nothing, walk[u].next} :
             AskPage(u, list, cursor)
  BY <1>2, AskPageOK
<1>3. CASE UNCHANGED vars
  <2>1. clock' = clock /\ row' = row /\ walk' = walk
    BY <1>3 DEF vars
  <2>2. TypeOK' /\ IsFiniteSet(Inserted)' /\ RowsKept
    BY <2>1 DEF Inv, TypeOK, Inserted, RowsKept, Seen
  <2>3. ASSUME NEW user \in Reader PROVE WalkOK(user, walk[user])'
    <3>1. PICK w \in Walk : w = walk[user] /\ WalkOK(user, w)
      BY DEF Inv, TypeOK
    <3>2. WalkOK(user, w)'
      BY <2>2, <3>1, WalkKept
    <3> QED
      BY <2>1, <3>1, <3>2
  <2> QED
    BY <2>2, <2>3 DEF Inv
<1> QED
  BY <1>1, <1>2, <1>3 DEF Next, WriteRow

LEMMA InvAlways == Spec => []Inv
BY InvInit, InvStep, PTL DEF Spec

\* Rows, walks and cursors keep their types: a cursor names a row and a list.
THEOREM TypeCorrect == Spec => []TypeOK
<1>1. Inv => TypeOK
  BY DEF Inv
<1> QED
  BY <1>1, InvAlways, PTL

\* Whatever rows come and go while a client pages through a list, it sees the
\* list: in order, with every row that stayed, and no row of somebody else.
THEOREM PagesAreAlwaysTheList == Spec => []PagesAreTheList
<1>1. Inv => PagesAreTheList
  <2> SUFFICES ASSUME Inv, NEW u \in Reader
               PROVE  /\ InOrder(walk[u])
                      /\ NothingSkipped(walk[u])
                      /\ \A i \in Range(walk[u].shown) : row[i].owner = u
    BY DEF PagesAreTheList
  <2>1. WalkOK(u, walk[u])
    BY DEF Inv
  <2>2. CASE walk[u].status # "200"
    <3>1. walk[u].shown = <<>> /\ Len(walk[u].shown) = 0 /\ Range(walk[u].shown) = {}
      <4>1. walk[u].shown = <<>>
        BY <2>1, <2>2 DEF WalkOK
      <4> QED
        BY <4>1 DEF Range
    <3> QED
      BY <2>2, <3>1 DEF InOrder, NothingSkipped
  <2>3. CASE walk[u].status = "200"
    BY <2>1, <2>3 DEF WalkOK, OfList, NothingSkipped, StillToCome
  <2> QED
    BY <2>2, <2>3
<1> QED
  BY <1>1, InvAlways, PTL

=============================================================================

------------------------------- MODULE Listings -------------------------------
(***************************************************************************)
(* The three lists a client pages through: the characters of a user, the   *)
(* conversations of a character (both newest first) and the messages of a  *)
(* conversation (oldest first).  A page is asked with a signed cursor, the *)
(* position after which it begins (main.py, cursor.py, and the list        *)
(* queries of repository.py and chat/repository.py).                       *)
(*                                                                         *)
(* A row's created_at is the time at which its transaction began, and the  *)
(* row is seen when that transaction commits, so a row may appear at a     *)
(* position that a client has long passed.                                 *)
(***************************************************************************)
EXTENDS Integers, FiniteSets, Sequences, SequencesExt

CONSTANTS
  User,
  Reader,      \* the users that read lists
  Id,          \* identifiers, ordered as the database orders them
  Limit,       \* the length of a page
  MaxClock,    \* bound: the time stands still there
  Nothing

\* What holds the rows of a kind: a user, a persona or a conversation.
Listing == [kind : {"persona"}, parent : User]
             \cup [kind : {"conversation", "message"}, parent : Id]

\* The position after which a page begins.
Cursor == [scope : ({"owner"} \X User) \cup ({"conversation_id"} \X Id),
           created : Nat, id : Id, of : Listing]

ASSUME ListingsAssumption ==
  /\ Reader \subseteq User
  /\ Id \subseteq Nat /\ Limit \in Nat \ {0} /\ MaxClock \in Nat
  /\ User \cap Id = {} /\ Nothing \notin User \cup Id \cup Listing \cup Cursor

\* The lists that a user can ask for: of characters, only its own.
ListsFor(user) == {list \in Listing : list.kind = "persona" => list.parent = user}

VARIABLES
  clock,
  row,     \* what is stored under an identifier
  walk     \* a reader's way through the pages of one list

vars == <<clock, row, walk>>

-----------------------------------------------------------------------------
(* Rows.                                                                   *)

NoRow == [state |-> "none", in |-> Nothing, owner |-> Nothing, created |-> 0]

There(i) == row[i].state = "there"

\* The parent is locked when the row is inserted: it must exist then.
ParentThere(list, user) ==
  IF list.kind = "persona" THEN list.parent = user
  ELSE /\ There(list.parent) /\ row[list.parent].owner = user
       /\ row[list.parent].in.kind = (IF list.kind = "message" THEN "conversation" ELSE "persona")

Tick ==
  /\ clock < MaxClock
  /\ clock' = clock + 1
  /\ UNCHANGED <<row, walk>>

\* The transaction of create_persona, create_conversation or a question begins.
Begin(user, i, list) ==
  /\ row[i].state = "none" /\ ParentThere(list, user)
  /\ row' = [row EXCEPT ![i] =
       [state |-> "begun", in |-> list, owner |-> user, created |-> clock]]
  /\ UNCHANGED <<clock, walk>>

Commit(i) ==
  /\ row[i].state = "begun"
  /\ row' = [row EXCEPT ![i] =
       IF ParentThere(row[i].in, row[i].owner) THEN [@ EXCEPT !.state = "there"] ELSE NoRow]
  /\ UNCHANGED <<clock, walk>>

\* What goes with persona p: its conversations and their messages.
Below(p) ==
  LET Of(S) == {i \in Id : row[i].in # Nothing /\ row[i].in.kind # "persona"
                             /\ row[i].in.parent \in S /\ There(i)}
  IN {p} \cup Of({p}) \cup Of(Of({p}))

DeletePersona(p) ==
  /\ There(p) /\ row[p].in.kind = "persona"
  /\ row' = [i \in Id |-> IF i \in Below(p) THEN [row[i] EXCEPT !.state = "deleted"] ELSE row[i]]
  /\ UNCHANGED <<clock, walk>>

-----------------------------------------------------------------------------
(* Cursors.                                                                *)

\* What a cursor is signed for.  The list it was made for is not in it: the field
\* "of" stands for what a client knows, and the code never looks at it.
Scope(user, list) ==
  IF list.kind = "message" THEN <<"conversation_id", list.parent>> ELSE <<"owner", user>>

Encode(user, list, i) ==
  [scope |-> Scope(user, list), created |-> row[i].created, id |-> i, of |-> list]

\* decode_cursor, decode_conversation_cursor, decode_message_cursor.
Accepted(cursor, user, list) == cursor = Nothing \/ cursor.scope = Scope(user, list)

-----------------------------------------------------------------------------
(* Pages.                                                                  *)

\* Is (created, id) of a before that of b in this list?
Before(list, a, b) ==
  LET first  == IF list.kind = "message" THEN a ELSE b
      second == IF list.kind = "message" THEN b ELSE a
  IN \/ first.created < second.created
     \/ first.created = second.created /\ first.id < second.id

At(i) == [created |-> row[i].created, id |-> i]

Behind(list, cursor, i) == cursor = Nothing \/ Before(list, cursor, At(i))

Rows(user, list) == {i \in Id : There(i) /\ row[i].in = list /\ row[i].owner = user}

\* How many of these rows come before row i?
RowsBefore(list, rows, i) == Cardinality({j \in rows : Before(list, At(j), At(i))})

\* What the query returns: the first limit + 1 rows behind the cursor.
Found(user, list, cursor) ==
  LET rows == {i \in Rows(user, list) : Behind(list, cursor, i)}
      size == IF Cardinality(rows) < Limit + 1 THEN Cardinality(rows) ELSE Limit + 1
  IN [n \in 1 .. size |-> CHOOSE i \in rows : RowsBefore(list, rows, i) = n - 1]

Page(found) == SubSeq(found, 1, IF Len(found) < Limit THEN Len(found) ELSE Limit)

\* Mutant: the next page begins behind the row that was asked for in addition.
NextCursorOfExtra(user, list, found) ==
  IF Len(found) > Limit THEN Encode(user, list, Last(found)) ELSE Nothing
NextCursor(user, list, found) ==
  IF Len(found) > Limit THEN Encode(user, list, Last(Page(found))) ELSE Nothing

\* A message page first looks for the conversation.
Found404(user, list) ==
  list.kind = "message"
    /\ ~(There(list.parent) /\ row[list.parent].owner = user
           /\ row[list.parent].in.kind = "conversation")

NoWalk == [list |-> Nothing, since |-> Nothing, status |-> "none", next |-> Nothing,
           shown |-> <<>>, steady |-> {}]

\* A page of a list.  A client follows the cursor it was given (the walk goes on)
\* or asks for another list, from the beginning or with the cursor it has.
\* steady: the rows that were there when the walk began and are there still.
AskPage(user, list, cursor) ==
  LET goesOn == cursor # Nothing /\ list = walk[user].list
      found  == Found(user, list, cursor)
      before == IF goesOn THEN walk[user].shown ELSE <<>>
  IN
  /\ walk' = [walk EXCEPT ![user] =
       IF ~Accepted(cursor, user, list)
         THEN [NoWalk EXCEPT !.status = "400"]
       ELSE IF Found404(user, list)
         THEN [NoWalk EXCEPT !.status = "404"]
       ELSE [list |-> list, status |-> "200",
             since |-> IF goesOn THEN walk[user].since
                       ELSE IF cursor = Nothing THEN Nothing ELSE cursor.of,
             next |-> NextCursor(user, list, found),
             shown |-> before \o Page(found),
             steady |-> {i \in (IF goesOn THEN walk[user].steady ELSE Rows(user, list)) :
                           There(i)}]]
  /\ UNCHANGED <<clock, row>>

-----------------------------------------------------------------------------
Init ==
  /\ clock = 0
  /\ row = [i \in Id |-> NoRow]
  /\ walk = [u \in Reader |-> NoWalk]

Next ==
  \/ Tick
  \/ \E u \in User, i \in Id : \E list \in ListsFor(u) : Begin(u, i, list)
  \/ \E i \in Id : Commit(i) \/ DeletePersona(i)
  \/ \E u \in Reader : \E list \in ListsFor(u), cursor \in {Nothing, walk[u].next} :
       AskPage(u, list, cursor)

Spec == Init /\ [][Next]_vars

-----------------------------------------------------------------------------
(* Properties.                                                             *)

Row == [state : {"none", "begun", "there", "deleted"}, in : Listing \cup {Nothing},
        owner : User \cup {Nothing}, created : Nat]
Walk == [list : Listing \cup {Nothing}, since : Listing \cup {Nothing},
         status : {"none", "200", "400", "404"}, next : Cursor \cup {Nothing},
         shown : Seq(Id), steady : SUBSET Id]

TypeOK ==
  /\ clock \in 0 .. MaxClock
  /\ row \in [Id -> Row] /\ \A i \in Id : row[i].created <= clock
  /\ walk \in [Reader -> Walk]

\* Following the cursors, a client sees the rows in their order, and none twice,
\* although rows come and go between the pages.
InOrder(w) ==
  \A m, n \in 1 .. Len(w.shown) :
    m < n => Before(w.list, At(w.shown[m]), At(w.shown[n]))

\* A client that reads to the last page has seen every row that was there all the
\* time from its first page on.
NothingSkipped(w) ==
  (w.status = "200" /\ w.since = Nothing /\ w.next = Nothing)
    => w.steady \subseteq Range(w.shown)

\* The pages a client is shown, with whatever cursor it asks for them, are its
\* list: in order, without a gap, and of rows of its own only.
PagesAreTheList ==
  \A u \in Reader :
    /\ InOrder(walk[u])
    /\ NothingSkipped(walk[u])
    /\ \A i \in Range(walk[u].shown) : row[i].owner = u

-----------------------------------------------------------------------------
\* service-api-v1.md: a cursor must match the owner, the parent resource and the
\* order.
CursorMatchesParent ==
  \A u \in Reader : walk[u].status = "200" => walk[u].since \in {Nothing, walk[u].list}

=============================================================================

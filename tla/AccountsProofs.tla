--------------------------- MODULE AccountsProofs ---------------------------
(***************************************************************************)
(* For any accounts, ids and bounds: type correctness of Accounts; that no *)
(* account changes but by a request that names it; that a server which has *)
(* started has an administrator unless an accepted request took the last   *)
(* one; and that the users page shows the accounts there are.              *)
(*                                                                         *)
(* The third needs to know where requests can be when nobody is an         *)
(* administrator (Barred), the last what the page makes of an answer that  *)
(* is still on its way to it (PageInv: Dialog, Fetching and Shown).        *)
(***************************************************************************)
EXTENDS Accounts, SequenceTheorems, FiniteSetTheorems, TLAPS

-----------------------------------------------------------------------------
(* Types.                                                                  *)

\* Sending a request, moving it on, answering it.
LEMMA SendType ==
    ASSUME TypeOK, NEW c \in Caller,
           NEW kind \in {"list", "create", "update", "delete"}, NEW by \in Email,
           NEW id \in Id \cup {NoId}, NEW email \in Email \cup {None}, NEW role \in Role,
           NEW at \in {"check", "read", "act", "answer"},
           Send(c, kind, by, id, email, role, at)
    PROVE  call' \in [Caller -> Call \cup {None}]
<1>1. <<>> \in Seq(Row)
  OBVIOUS
<1>2. [kind |-> kind, by |-> by, id |-> id, email |-> email, role |-> role, at |-> at,
       ok |-> FALSE, shown |-> c # "client", rows |-> <<>>] \in Call
  BY <1>1 DEF Call
<1> QED
  BY <1>2 DEF TypeOK, Send

LEMMA GotoType ==
    ASSUME TypeOK, NEW c \in Caller, ~Idle(c), NEW at \in {"check", "read", "act", "answer"},
           Goto(c, at)
    PROVE  call' \in [Caller -> Call \cup {None}]
<1>1. [call[c] EXCEPT !.at = at] \in Call
  BY DEF TypeOK, Idle, Call
<1> QED
  BY <1>1 DEF TypeOK, Goto

LEMMA AnswerType ==
    ASSUME TypeOK, NEW c \in Caller, ~Idle(c), NEW ok \in BOOLEAN, Answer(c, ok)
    PROVE  call' \in [Caller -> Call \cup {None}]
<1>1. [call[c] EXCEPT !.at = "answer", !.ok = ok] \in Call
  BY DEF TypeOK, Idle, Call
<1> QED
  BY <1>1 DEF TypeOK, Answer

\* An INSERT, and the ids that rows have.
LEMMA InsertType ==
    ASSUME TypeOK, NEW e \in Email \cup {None}, NEW role \in Role, Insert(e, role)
    PROVE  /\ users' \in [Email -> User \cup {None}]
           /\ nextId' \in 1 .. MaxId + 1
           /\ \A f \in Email : users'[f] # None => users'[f].id < nextId'
           /\ \A f, g \in Email :
                 f # g /\ None \notin {users'[f], users'[g]} => users'[f].id # users'[g].id
<1>1. nextId \in Id /\ nextId' = nextId + 1 /\ nextId' \in 1 .. MaxId + 1
  BY AccountsAssumption DEF TypeOK, Insert, Id
<1>2. [id |-> nextId, role |-> role] \in User
  BY <1>1 DEF User
<1>3. users' = [users EXCEPT ![e] = [id |-> nextId, role |-> role]]
  BY DEF Insert
<1>4. \A f \in Email : users'[f] = users[f] \/ (f = e /\ users'[f].id = nextId)
  BY <1>3 DEF TypeOK
<1>5. \A f \in Email : users[f] # None => users[f].id \in Nat /\ users[f].id < nextId
  BY DEF TypeOK, User, Id
<1>6. users' \in [Email -> User \cup {None}]
  BY <1>2, <1>3 DEF TypeOK
<1>7. ASSUME NEW f \in Email, users'[f] # None
      PROVE  users'[f].id < nextId'
  BY <1>1, <1>4, <1>5, <1>7 DEF Id
<1>8. ASSUME NEW f \in Email, NEW g \in Email, f # g, users'[f] # None, users'[g] # None
      PROVE  users'[f].id # users'[g].id
  <2>1. CASE users'[f] = users[f] /\ users'[g] = users[g]
    BY <1>8, <2>1 DEF TypeOK
  <2>2. CASE f = e /\ users'[f].id = nextId
    BY <1>1, <1>4, <1>5, <1>8, <2>2 DEF Id
  <2>3. CASE g = e /\ users'[g].id = nextId
    BY <1>1, <1>4, <1>5, <1>8, <2>3 DEF Id
  <2> QED
    BY <1>4, <2>1, <2>2, <2>3
<1> QED
  BY <1>1, <1>6, <1>7, <1>8

\* What a row that was there has kept of its id, whatever else became of it.
LEMMA RowsKept ==
    ASSUME TypeOK, users' \in [Email -> User \cup {None}], nextId' = nextId,
           \A e \in Email : users'[e] # None => users[e] # None /\ users'[e].id = users[e].id
    PROVE  /\ nextId' \in 1 .. MaxId + 1
           /\ \A f \in Email : users'[f] # None => users'[f].id < nextId'
           /\ \A f, g \in Email :
                 f # g /\ None \notin {users'[f], users'[g]} => users'[f].id # users'[g].id
BY DEF TypeOK

\* The states of the page.
LEMMA FreshType ==
    ASSUME NEW token \in Email \cup {None}
    PROVE  /\ Fresh(token) \in Page /\ Fresh(token).token = token
           /\ Fresh(token).at = "home" /\ Fresh(token).dialog = "none"
<1>1. <<>> \in Seq(Row)
  OBVIOUS
<1>2. Blank \in Row
  BY DEF Blank, Row, Role
<1> QED
  BY <1>1, <1>2 DEF Fresh, Page

\* What closing a dialog leaves of a row is a row,
LEMMA UntypedType == ASSUME NEW item \in Row PROVE Untyped(item) \in Row
BY DEF Untyped, Blank, Row, Role

\* and the page stays a page.
LEMMA ClosedType ==
    ASSUME NEW p \in Page
    PROVE  /\ Closed(p) \in Page /\ Closed(p).token = p.token
           /\ Closed(p).at = p.at /\ Closed(p).dialog = "none"
<1>1. Untyped(p.item) \in Row
  BY UntypedType DEF Page
<1> QED
  BY <1>1 DEF Closed, Page

\* A list with an element taken out is a list.
LEMMA SplicedType ==
    ASSUME NEW s \in Seq(Row), NEW index \in Nat
    PROVE  Spliced(s, index) \in Seq(Row)
<1> DEFINE gone == IF index = 0 THEN Len(s) ELSE index
           n == Len(s) - (IF gone \in 1 .. Len(s) THEN 1 ELSE 0)
<1>1. Len(s) \in Nat /\ n \in Nat /\ n <= Len(s)
  OBVIOUS
<1>2. ASSUME NEW i \in 1 .. n
      PROVE  (IF i < gone THEN s[i] ELSE s[i + 1]) \in Row
  <2>1. CASE i < gone
    <3>1. i \in 1 .. Len(s)
      BY <1>1
    <3> QED
      BY <2>1, <3>1, ElementOfSeq
  <2>2. CASE ~(i < gone)
    <3>1. i + 1 \in 1 .. Len(s)
      BY <1>1, <2>2
    <3> QED
      BY <2>2, <3>1, ElementOfSeq
  <2> QED
    BY <2>1, <2>2
<1>3. Spliced(s, index) = [i \in 1 .. n |-> IF i < gone THEN s[i] ELSE s[i + 1]]
  BY DEF Spliced
<1> HIDE DEF n, gone
<1>4. \A i \in 1 .. n : (IF i < gone THEN s[i] ELSE s[i + 1]) \in Row
  BY <1>2
<1>5. [i \in 1 .. n |-> IF i < gone THEN s[i] ELSE s[i + 1]] \in [1 .. n -> Row]
  BY <1>4
<1> QED
  BY <1>1, <1>3, <1>5

\* What the user does to the page keeps it a page.
LEMMA TouchType ==
    ASSUME TypeOK, NEW p \in Page, Touch(p), p.token = page.token,
           p.at = "users" => page.at = "users", p.at = "home" => p.dialog = "none",
           p.dialog = "delete" => p.index # 0
    PROVE  TypeOK'
<1>1. Untyped(p.item) \in Row
  BY UntypedType DEF Page
<1>2. /\ page' \in Page /\ page'.token = p.token /\ page'.at = p.at
      /\ page'.dialog = p.dialog /\ page'.index = p.index
  BY <1>1 DEF Touch, Page
<1> QED
  BY <1>2 DEF TypeOK, Touch, Page

-----------------------------------------------------------------------------
\* The server's start, and its routes.
LEMMA ServerTypes ==
    ASSUME TypeOK,
           CheckAdmins \/ CreateAdmin \/ Restart \/ List \/ Client
             \/ \E c \in Caller : Check(c) \/ Read(c) \/ Create(c) \/ Update(c) \/ Delete(c)
    PROVE  TypeOK'
<1>1. CASE CheckAdmins
  BY <1>1 DEF TypeOK, CheckAdmins
<1>2. CASE CreateAdmin
  <2>1. CASE users[AdminEmail] = None
    <3>1. Insert(AdminEmail, "ADMIN") /\ server' = "up" /\ UNCHANGED <<call, page, events>>
      BY <1>2, <2>1 DEF CreateAdmin
    <3>2. AdminEmail \in Email /\ "ADMIN" \in Role
      BY AccountsAssumption DEF Role
    <3> QED
      BY <3>1, <3>2, InsertType DEF TypeOK
  <2>2. CASE users[AdminEmail] # None
    BY <1>2, <2>2 DEF TypeOK, CreateAdmin
  <2> QED
    BY <2>1, <2>2
<1>3. CASE Restart
  BY <1>3, AccountsAssumption DEF TypeOK, Restart
<1>4. ASSUME NEW c \in Caller, Check(c)
      PROVE  TypeOK'
  <2>1. call' \in [Caller -> Call \cup {None}]
    BY <1>4, GotoType, AnswerType DEF Check, At
  <2> QED
    BY <1>4, <2>1 DEF TypeOK, Check
<1>5. ASSUME NEW c \in Caller, Read(c)
      PROVE  TypeOK'
  <2>1. call' \in [Caller -> Call \cup {None}]
    BY <1>5, GotoType, AnswerType DEF Read, At
  <2> QED
    BY <1>5, <2>1 DEF TypeOK, Read
<1>6. ASSUME NEW c \in Caller, Create(c)
      PROVE  TypeOK'
  <2>1. call' \in [Caller -> Call \cup {None}]
    BY <1>6, AnswerType DEF Create, At
  <2>2. call[c].email \in Email \cup {None} /\ call[c].role \in Role
    BY <1>6 DEF TypeOK, Create, At, Idle, Call
  <2>3. UNCHANGED <<server, page, events>>
    BY <1>6 DEF Create
  <2>4. CASE Insert(call[c].email, call[c].role)
    BY <2>1, <2>2, <2>3, <2>4, InsertType DEF TypeOK
  <2>5. CASE UNCHANGED <<users, nextId>>
    BY <2>1, <2>3, <2>5 DEF TypeOK
  <2> QED
    BY <1>6, <2>4, <2>5 DEF Create
<1>7. ASSUME NEW c \in Caller, Update(c)
      PROVE  TypeOK'
  <2>1. call' \in [Caller -> Call \cup {None}]
    BY <1>7, AnswerType DEF Update, At
  <2>2. call[c].role \in Role
    BY <1>7 DEF TypeOK, Update, At, Idle, Call
  <2>3. UNCHANGED <<nextId, server, page, events>> /\ users' = Updated(call[c])
    BY <1>7 DEF Update
  <2>4. \A e \in Email : users[e] # None => [users[e] EXCEPT !.role = call[c].role] \in User
    BY <2>2 DEF TypeOK, User
  <2>5. users' \in [Email -> User \cup {None}]
    BY <2>3, <2>4 DEF TypeOK, Updated
  <2>6. \A e \in Email : users'[e] # None => users[e] # None /\ users'[e].id = users[e].id
    BY <2>3 DEF TypeOK, Updated, User
  <2> QED
    BY <2>1, <2>3, <2>5, <2>6, RowsKept DEF TypeOK
<1>8. ASSUME NEW c \in Caller, Delete(c)
      PROVE  TypeOK'
  <2>1. call' \in [Caller -> Call \cup {None}]
    BY <1>8, AnswerType DEF Delete, At
  <2>2. UNCHANGED <<nextId, server, page, events>>
    BY <1>8 DEF Delete
  <2>3. users' \in [Email -> User \cup {None}]
    BY <1>8 DEF TypeOK, Delete, Deleted
  <2>4. \A e \in Email : users'[e] # None => users[e] # None /\ users'[e].id = users[e].id
    BY <1>8 DEF TypeOK, Delete, Deleted
  <2> QED
    BY <2>1, <2>2, <2>3, <2>4, RowsKept DEF TypeOK
<1>9. CASE List
  <2> DEFINE Listed == {e \in Email : users[e] # None}
  <2>1. PICK order \in [1 .. Cardinality(Listed) -> Listed] :
           call' = [call EXCEPT !["fetch"] =
                      [@ EXCEPT !.at = "answer", !.ok = TRUE,
                                !.rows = [i \in DOMAIN order |-> Listing(order[i])]]]
    BY <1>9 DEF List
  <2>2. \A e \in Listed : Listing(e) \in Row
    BY DEF TypeOK, Listing, User, Row
  <2>3. [i \in DOMAIN order |-> Listing(order[i])] \in Seq(Row)
    <3>1. CASE Cardinality(Listed) \in Nat
      <4> DEFINE n == Cardinality(Listed)
      <4>1. DOMAIN order = 1 .. n /\ \A i \in 1 .. n : Listing(order[i]) \in Row
        BY <2>2
      <4> HIDE DEF n, Listed
      <4>2. [i \in 1 .. n |-> Listing(order[i])] \in [1 .. n -> Row]
        BY <4>1
      <4> QED
        BY <3>1, <4>1, <4>2 DEF n
    <3> QED
      BY <3>1, FS_CardinalityType, AccountsAssumption, FS_Subset
  <2>4. "fetch" \in Caller /\ call["fetch"] \in Call
    BY <1>9 DEF TypeOK, List, At, Idle, Caller
  <2>5. [call["fetch"] EXCEPT !.at = "answer", !.ok = TRUE,
           !.rows = [i \in DOMAIN order |-> Listing(order[i])]] \in Call
    BY <2>3, <2>4 DEF Call
  <2>6. call' \in [Caller -> Call \cup {None}]
    BY <2>1, <2>4, <2>5 DEF TypeOK
  <2> QED
    BY <1>9, <2>6 DEF TypeOK, List
<1>10. CASE Client
  <2>1. PICK e \in Email, role \in Role :
           \/ Send("client", "create", e, NoId, e, role, "act")
           \/ users[e] # None /\ Send("client", "update", e, users[e].id, e, role, "act")
           \/ Send("client", "delete", e, NoId, e, "USER", "act")
    BY <1>10 DEF Client
  <2>2. "client" \in Caller /\ "USER" \in Role /\ (users[e] # None => users[e].id \in Id)
    BY DEF TypeOK, Caller, Role, User
  <2>3. call' \in [Caller -> Call \cup {None}]
    BY <2>1, <2>2, SendType
  <2>4. events' \in 0 .. MaxEvents
    BY <1>10, AccountsAssumption DEF TypeOK, Client
  <2> QED
    BY <1>10, <2>3, <2>4 DEF TypeOK, Client
<1> QED
  BY <1>1, <1>2, <1>3, <1>4, <1>5, <1>6, <1>7, <1>8, <1>9, <1>10

\* The admin app.
LEMMA PageTypes ==
    ASSUME TypeOK,
           Login \/ Leave \/ OpenUsers \/ Fetched
             \/ Pick \/ New \/ Cancel \/ Hide \/ Save \/ Remove \/ Answered
    PROVE  TypeOK'
<1> USE DEF TypeOK
<1>1. CASE Login
  <2>1. PICK e \in Email : page' = Fresh(e)
    BY <1>1 DEF Login
  <2> QED
    BY <1>1, <2>1, FreshType DEF Login
<1>2. CASE Leave
  <2>1. PICK token \in Email \cup {None} : page' = Fresh(token)
    BY <1>2 DEF Leave, Page
  <2>2. call["page"] # None => [call["page"] EXCEPT !.shown = FALSE] \in Call
    BY DEF Caller, Call
  <2>3. call' \in [Caller -> Call \cup {None}]
    BY <1>2, <2>2 DEF Leave, Idle, Caller
  <2> QED
    BY <1>2, <2>1, <2>3, FreshType DEF Leave
<1>3. CASE OpenUsers
  <2>1. page.token \in Email
    BY <1>3 DEF OpenUsers, Page
  <2>2. "fetch" \in Caller /\ "USER" \in Role /\ NoId \in Id \cup {NoId}
    BY DEF Caller, Role
  <2>3. call' \in [Caller -> Call \cup {None}]
    BY <1>3, <2>1, <2>2, SendType DEF OpenUsers
  <2>4. page' = [Fresh(page.token) EXCEPT !.at = "users"]
    BY <1>3 DEF OpenUsers
  <2>5. /\ page' \in Page /\ page'.token = page.token
        /\ page'.at = "users" /\ page'.dialog = "none"
    BY <2>1, <2>4, FreshType DEF Page
  <2> QED
    BY <1>3, <2>1, <2>3, <2>5, AccountsAssumption DEF OpenUsers
<1>4. CASE Fetched
  <2>1. call["fetch"].rows \in Seq(Row)
    BY <1>4 DEF Fetched, At, Idle, Caller, Call
  <2>2. /\ page' \in Page /\ page'.token = page.token /\ page'.at = page.at
        /\ page'.dialog = page.dialog /\ page'.index = page.index
    BY <1>4, <2>1 DEF Fetched, Page
  <2>3. call' \in [Caller -> Call \cup {None}]
    BY <1>4 DEF Fetched
  <2> QED
    BY <1>4, <2>2, <2>3 DEF Fetched
<1>5. CASE Pick
  <2>1. PICK i \in 1 .. Len(page.rows), dialog \in {"edit", "delete"} :
           Touch([page EXCEPT !.index = i, !.item = page.rows[i], !.dialog = dialog])
    BY <1>5 DEF Pick
  <2>2. page.rows \in Seq(Row) /\ page.rows[i] \in Row
    BY ElementOfSeq DEF Page
  <2>3. i \in Nat /\ i # 0
    BY <2>2
  <2> DEFINE p == [page EXCEPT !.index = i, !.item = page.rows[i], !.dialog = dialog]
  <2>4. /\ p \in Page /\ p.token = page.token /\ p.at = page.at
        /\ p.index = i /\ p.dialog = dialog
    BY <2>2, <2>3 DEF Page
  <2>5. page.at = "users"
    BY <1>5 DEF Pick
  <2> HIDE DEF p
  <2> QED
    BY <2>1, <2>3, <2>4, <2>5, TouchType DEF p
<1>6. CASE New
  <2> DEFINE p == [page EXCEPT !.dialog = "edit"]
  <2>1. p \in Page /\ p.token = page.token /\ p.at = page.at /\ p.dialog = "edit"
    BY DEF Page
  <2>2. page.at = "users" /\ Touch(p)
    BY <1>6 DEF New
  <2> HIDE DEF p
  <2> QED
    BY <2>1, <2>2, TouchType
<1>7. CASE Cancel
  BY <1>7, ClosedType, TouchType DEF Cancel
<1>8. CASE Hide
  <2> DEFINE p == [page EXCEPT !.dialog = "none"]
  <2>1. p \in Page /\ p.token = page.token /\ p.at = page.at /\ p.dialog = "none"
    BY DEF Page
  <2>2. Touch(p)
    BY <1>8 DEF Hide
  <2> HIDE DEF p
  <2> QED
    BY <2>1, <2>2, TouchType
<1>9. CASE Save
  <2>1. page.token \in Email /\ page.item.id \in Id \cup {NoId} /\ "page" \in Caller
    BY <1>9 DEF Save, Page, Row, Caller
  <2>2. PICK e \in Email, role \in Role :
           /\ page' = [page EXCEPT !.item = [@ EXCEPT !.email = e, !.role = role]]
           /\ \/ Send("page", "create", page.token, page.item.id, e, role, "check")
              \/ Send("page", "update", page.token, page.item.id, e, role, "check")
              \/ Send("page", "update", page.token, page.item.id, e, role, "answer")
    <3>1. PICK e \in Email, role \in Role :
             LET kind == IF page.index = 0 THEN "create" ELSE "update"
                 lost == kind = "update" /\ page.item.id = NoId
             IN  /\ page' = [page EXCEPT !.item = [@ EXCEPT !.email = e, !.role = role]]
                 /\ Send("page", kind, page.token, page.item.id, e, role,
                         IF lost THEN "answer" ELSE "check")
      BY <1>9 DEF Save
    <3> QED
      BY <3>1
  <2>3. call' \in [Caller -> Call \cup {None}]
    BY <2>1, <2>2, SendType
  <2>4. [page.item EXCEPT !.email = e, !.role = role] \in Row
    BY DEF Page, Row
  <2>5. /\ page' \in Page /\ page'.token = page.token /\ page'.at = page.at
        /\ page'.dialog = page.dialog /\ page'.index = page.index
    BY <2>2, <2>4 DEF Page
  <2> QED
    BY <1>9, <2>3, <2>5 DEF Save
<1>10. CASE Remove
  <2>1. page.token \in Email /\ page.item.id \in Id \cup {NoId} /\ "page" \in Caller /\ "USER" \in Role
    BY <1>10 DEF Remove, Page, Row, Caller, Role
  <2>2. \/ Send("page", "delete", page.token, page.item.id, None, "USER", "answer")
        \/ Send("page", "delete", page.token, page.item.id, None, "USER", "check")
    BY <1>10 DEF Remove
  <2>3. call' \in [Caller -> Call \cup {None}]
    BY <2>1, <2>2, SendType
  <2> QED
    BY <1>10, <2>3 DEF Remove
<1>11. CASE Answered
  <2>1. call["page"] \in Call /\ "page" \in Caller
    BY <1>11 DEF Answered, At, Idle, Caller
  <2>2. call' \in [Caller -> Call \cup {None}]
    BY <1>11 DEF Answered
  <2>3. page.rows \in Seq(Row) /\ page.item \in Row /\ page.index \in Nat
    BY DEF Page
  <2>4. /\ page' \in Page /\ page'.token = page.token /\ page'.at = page.at
        /\ \/ page'.dialog = page.dialog /\ page'.index = page.index
           \/ page'.dialog = "none"
    <3>1. CASE page' = [page EXCEPT !.item = Untyped(@)]
      BY <2>3, <3>1, UntypedType DEF Page
    <3>2. CASE page' = Closed([page EXCEPT !.rows = Append(@, page.item)])
      <4> DEFINE p == [page EXCEPT !.rows = Append(@, page.item)]
      <4>0. Append(page.rows, page.item) \in Seq(Row)
        BY <2>3
      <4>1. p \in Page /\ p.token = page.token /\ p.at = page.at
        BY <4>0 DEF Page
      <4> HIDE DEF p
      <4>2. page' = Closed(p)
        BY <3>2 DEF p
      <4> QED
        BY <4>1, <4>2, ClosedType
    <3>3. CASE /\ page.index \in 1 .. Len(page.rows)
               /\ page' = Closed([page EXCEPT !.rows[page.index] = page.item])
      <4> DEFINE p == [page EXCEPT !.rows[page.index] = page.item]
      <4>1. [page.rows EXCEPT ![page.index] = page.item] \in Seq(Row)
        BY <2>3, <3>3, ExceptSeq
      <4>2. p \in Page /\ p.token = page.token /\ p.at = page.at
        BY <4>1 DEF Page
      <4> HIDE DEF p
      <4>3. page' = Closed(p)
        BY <3>3 DEF p
      <4> QED
        BY <4>2, <4>3, ClosedType
    <3>4. CASE page' = [page EXCEPT !.rows = Spliced(@, page.index),
                                    !.dialog = IF @ = "delete" THEN "none" ELSE @]
      <4>1. Spliced(page.rows, page.index) \in Seq(Row)
        BY <2>3, SplicedType
      <4> QED
        BY <3>4, <4>1 DEF Page
    <3>5. \/ page' = [page EXCEPT !.item = Untyped(@)]
          \/ page' = Closed([page EXCEPT !.rows = Append(@, page.item)])
          \/ /\ page.index \in 1 .. Len(page.rows)
             /\ page' = Closed([page EXCEPT !.rows[page.index] = page.item])
          \/ page' = [page EXCEPT !.rows = Spliced(@, page.index),
                                  !.dialog = IF @ = "delete" THEN "none" ELSE @]
      BY <1>11 DEF Answered
    <3> QED
      BY <3>1, <3>2, <3>3, <3>4, <3>5
  <2> QED
    BY <1>11, <2>2, <2>4 DEF Answered
<1> QED
  BY <1>1, <1>2, <1>3, <1>4, <1>5, <1>6, <1>7, <1>8, <1>9, <1>10, <1>11

\* Every reachable state is well typed: ids are given out once, and the dialogs of
\* the page (UsersView.vue) are open only there.
THEOREM Typing == Spec => []TypeOK
<1>1. Init => TypeOK
  BY FreshType, AccountsAssumption DEF Init, TypeOK, Fresh
<1>2. TypeOK /\ [Next]_vars => TypeOK'
  <2>1. CASE UNCHANGED vars
    BY <2>1 DEF TypeOK, vars
  <2> QED
    BY <2>1, ServerTypes, PageTypes DEF Next
<1> QED
  BY <1>1, <1>2, PTL DEF Spec

-----------------------------------------------------------------------------
(* Accounts change only by their name.                                     *)

\* An answer is a change of the call it answers.
LEMMA Answers ==
    ASSUME TypeOK, NEW c \in Caller, At(c, "act"), NEW ok \in BOOLEAN, Answer(c, ok)
    PROVE  call'[c] # call[c]
<1>1. call[c] \in Call /\ call[c] # None /\ call[c].at = "act"
  BY DEF TypeOK, At, Idle
<1>2. call'[c] = IF call[c].shown THEN [call[c] EXCEPT !.at = "answer", !.ok = ok] ELSE None
  BY DEF TypeOK, Answer
<1>3. [call[c] EXCEPT !.at = "answer", !.ok = ok].at = "answer"
  BY <1>1 DEF Call
<1> QED
  BY <1>1, <1>2, <1>3

\* No route writes to an account but the one its request names, whatever ids the
\* requests carry, nor does the start of the server but to the initial one.
LEMMA OneAccount ==
    ASSUME TypeOK, Next, NEW e \in Email, users'[e] # users[e]
    PROVE  \/ e = AdminEmail /\ server = "creating"
           \/ \E c \in Caller : At(c, "act") /\ call[c].email = e /\ call'[c] # call[c]
<1>1. CASE CreateAdmin
  BY <1>1 DEF CreateAdmin, Insert, TypeOK
<1>2. ASSUME NEW c \in Caller, Create(c)
      PROVE  At(c, "act") /\ call[c].email = e /\ call'[c] # call[c]
  BY <1>2, Answers DEF Create, Insert, TypeOK
<1>3. ASSUME NEW c \in Caller, Update(c)
      PROVE  At(c, "act") /\ call[c].email = e /\ call'[c] # call[c]
  BY <1>3, Answers DEF Update, Updated, TypeOK
<1>4. ASSUME NEW c \in Caller, Delete(c)
      PROVE  At(c, "act") /\ call[c].email = e /\ call'[c] # call[c]
  BY <1>4, Answers DEF Delete, Deleted, TypeOK
<1>5. CASE \/ CheckAdmins \/ Restart \/ List \/ Client
           \/ \E c \in Caller : Check(c) \/ Read(c)
  BY <1>5 DEF CheckAdmins, Restart, List, Client, Check, Read
<1>6. CASE Login \/ Leave \/ OpenUsers \/ Fetched
             \/ Pick \/ New \/ Cancel \/ Hide \/ Save \/ Remove \/ Answered
  BY <1>6 DEF Login, Leave, OpenUsers, Fetched, Pick, New, Cancel, Hide, Touch, Save, Remove,
              Answered
<1> QED
  BY <1>1, <1>2, <1>3, <1>4, <1>5, <1>6 DEF Next

\* However requests interleave, an account changes only by a request with its own
\* email, or when the server makes the initial administrator (UserStore.ts).
THEOREM AccountsChangeByName == Spec => OthersKept
<1>1. TypeOK /\ [Next]_vars =>
        [\A e \in Email : users'[e] # users[e] =>
            \/ e = AdminEmail /\ server = "creating"
            \/ \E c \in Caller : At(c, "act") /\ call[c].email = e /\ call'[c] # call[c]]_vars
  BY OneAccount DEF vars
<1> QED
  BY <1>1, Typing, PTL DEF Spec, OthersKept

-----------------------------------------------------------------------------
(* Administrators.                                                         *)

\* Nobody who is no administrator has got past the middleware.
Barred == \A c \in Caller : Idle(c) \/ call[c].at \in {"check", "answer"}

AdminsInv ==
    lastGone \/
        /\ server = "up" => Somebody
        /\ server = "creating" => ~Somebody
        /\ server = "failed" => users[AdminEmail] # None /\ ~Somebody
        /\ ~Somebody => Barred

\* A step that leaves the accounts and the server alone, and takes nobody past the
\* middleware while there is no administrator.
LEMMA AdminsFrame ==
    ASSUME AdminsInv, UNCHANGED <<users, server, lastGone>>, ~Somebody /\ Barred => Barred'
    PROVE  AdminsInv'
BY DEF AdminsInv, Somebody, Admin

\* The moves of a request keep it barred.
LEMMA AnswerBarred ==
    ASSUME TypeOK, Barred, NEW c \in Caller, ~Idle(c), NEW ok \in BOOLEAN, Answer(c, ok)
    PROVE  Barred'
<1>1. call[c] \in Call
  BY DEF TypeOK, Idle
<1>2. [call[c] EXCEPT !.at = "answer", !.ok = ok].at = "answer"
  BY <1>1 DEF Call
<1> QED
  BY <1>2 DEF TypeOK, Answer, Barred, Idle

\* A request that has not been checked is barred as well.
LEMMA SendBarred ==
    ASSUME TypeOK, Barred, NEW c \in Caller, NEW kind, NEW by, NEW id, NEW email, NEW role, NEW at,
           at \in {"check", "answer"}, Send(c, kind, by, id, email, role, at)
    PROVE  Barred'
BY DEF TypeOK, Send, Barred, Idle

\* A write that the middleware let through, and that records what it does.
LEMMA WriteAdmins ==
    ASSUME TypeOK, AdminsInv, NEW c \in Caller, Serving, At(c, "act"), Record(c), server' = server
    PROVE  AdminsInv'
<1>1. CASE lastGone'
  BY <1>1 DEF AdminsInv
<1>2. CASE ~lastGone'
  <2>1. ~lastGone /\ (Somebody => Somebody')
    BY <1>2 DEF Record
  <2>2. Somebody
    BY <2>1 DEF AdminsInv, Barred, At
  <2>3. Somebody' /\ server \notin {"creating", "failed"}
    BY <2>1, <2>2 DEF AdminsInv
  <2> QED
    BY <2>3 DEF AdminsInv
<1> QED
  BY <1>1, <1>2

\* Every step keeps AdminsInv.
LEMMA AdminsStep == ASSUME TypeOK, AdminsInv, Next PROVE AdminsInv'
<1>1. CASE CheckAdmins
  BY <1>1 DEF CheckAdmins, AdminsInv, HasAdmin, Somebody, Admin, Barred, Idle
<1>2. CASE CreateAdmin
  <2>1. CASE users[AdminEmail] = None
    <3>1. users'[AdminEmail] = [id |-> nextId, role |-> "ADMIN"] /\ server' = "up"
      BY <1>2, <2>1, AccountsAssumption DEF CreateAdmin, Insert, TypeOK
    <3>2. [id |-> nextId, role |-> "ADMIN"] \in [id : Nat, role : {"ADMIN", "USER"}]
      BY AccountsAssumption DEF TypeOK
    <3>3. Somebody'
      BY <3>1, <3>2, AccountsAssumption DEF Somebody, Admin
    <3> QED
      BY <3>1, <3>3 DEF AdminsInv
  <2>2. CASE users[AdminEmail] # None
    <3>1. /\ server = "creating" /\ server' = "failed" /\ UNCHANGED <<users, lastGone>>
          /\ call' = [c \in Caller |-> None]
      BY <1>2, <2>2 DEF CreateAdmin
    <3>2. Barred' /\ Somebody' = Somebody
      BY <3>1 DEF Barred, Idle, Somebody, Admin
    <3> QED
      BY <2>2, <3>1, <3>2 DEF AdminsInv
  <2> QED
    BY <2>1, <2>2
<1>3. CASE Restart
  <2>1. server' = "starting" /\ call' = [c \in Caller |-> None]
    BY <1>3 DEF Restart
  <2>2. Barred'
    BY <2>1 DEF Barred, Idle
  <2> QED
    BY <2>1, <2>2 DEF AdminsInv
<1>4. ASSUME NEW c \in Caller, Check(c)
      PROVE  AdminsInv'
  <2>1. call[c].by \in Email /\ ~Idle(c)
    BY <1>4 DEF Check, At, Idle, TypeOK, Call
  <2>2. ~Somebody /\ Barred => Barred'
    BY <1>4, <2>1, AnswerBarred DEF Check, Somebody
  <2> QED
    BY <1>4, <2>2, AdminsFrame DEF Check
<1>5. ASSUME NEW c \in Caller, Read(c)
      PROVE  AdminsInv'
  <2>1. ~Barred
    BY <1>5 DEF Read, At, Barred
  <2> QED
    BY <1>5, <2>1, AdminsFrame DEF Read
<1>6. ASSUME NEW c \in Caller, Create(c) \/ Update(c) \/ Delete(c)
      PROVE  AdminsInv'
  <2>1. Serving /\ At(c, "act") /\ Record(c) /\ server' = server
    BY <1>6 DEF Create, Update, Delete
  <2> QED
    BY <2>1, WriteAdmins
<1>7. CASE List
  <2>1. ~Barred
    BY <1>7 DEF List, At, Barred, Caller
  <2> QED
    BY <1>7, <2>1, AdminsFrame DEF List
<1>8. CASE Client
  <2>1. Somebody
    BY <1>8 DEF Client, Somebody
  <2> QED
    BY <1>8, <2>1, AdminsFrame DEF Client
<1>9. CASE Leave
  <2>1. call["page"] # None => call["page"] \in Call
    BY DEF TypeOK, Caller
  <2>2. call["page"] # None =>
           [call["page"] EXCEPT !.shown = FALSE].at = call["page"].at
    BY <2>1 DEF Call
  <2>3. Barred => Barred'
    BY <1>9, <2>2 DEF Leave, TypeOK, Barred, Idle, Caller
  <2> QED
    BY <1>9, <2>3, AdminsFrame DEF Leave
<1>10. CASE OpenUsers
  <2>1. Send("fetch", "list", page.token, NoId, None, "USER", "check") /\ "fetch" \in Caller
    BY <1>10 DEF OpenUsers, Caller
  <2>2. Barred => Barred'
    BY <2>1, SendBarred
  <2> QED
    BY <1>10, <2>2, AdminsFrame DEF OpenUsers
<1>11. CASE Save
  <2>1. PICK e \in Email, role \in Role :
           \/ Send("page", "create", page.token, page.item.id, e, role, "check")
           \/ Send("page", "update", page.token, page.item.id, e, role, "check")
           \/ Send("page", "update", page.token, page.item.id, e, role, "answer")
    BY <1>11 DEF Save
  <2>2. Barred => Barred'
    BY <2>1, SendBarred DEF Caller
  <2> QED
    BY <1>11, <2>2, AdminsFrame DEF Save
<1>12. CASE Remove
  <2>1. \/ Send("page", "delete", page.token, page.item.id, None, "USER", "check")
        \/ Send("page", "delete", page.token, page.item.id, None, "USER", "answer")
    BY <1>12 DEF Remove
  <2>2. Barred => Barred'
    BY <2>1, SendBarred DEF Caller
  <2> QED
    BY <1>12, <2>2, AdminsFrame DEF Remove
<1>13. CASE Fetched \/ Answered
  <2>1. Barred => Barred'
    BY <1>13 DEF Fetched, Answered, TypeOK, Barred, Idle
  <2> QED
    BY <1>13, <2>1, AdminsFrame DEF Fetched, Answered
<1>14. CASE Login \/ Pick \/ New \/ Cancel \/ Hide
  <2>1. UNCHANGED <<users, server, lastGone, call>>
    BY <1>14 DEF Login, Pick, New, Cancel, Hide, Touch
  <2>2. Barred' = Barred
    BY <2>1 DEF Barred, Idle
  <2> QED
    BY <2>1, <2>2, AdminsFrame
<1> QED
  BY <1>1, <1>2, <1>3, <1>4, <1>5, <1>6, <1>7, <1>8, <1>9, <1>10, <1>11, <1>12, <1>13, <1>14 DEF Next

\* A server that has started has an administrator, and one that cannot start has
\* none and no address for the initial one, unless an accepted request took the
\* last administrator since the start (syncServer.ts, userRoutes.ts).
THEOREM StartsWithAnAdministrator == Spec => []AdminsKnown
<1>1. Init => AdminsInv
  BY DEF Init, AdminsInv, Somebody, Admin, Barred, Idle
<1>2. AdminsInv /\ TypeOK /\ [Next]_vars => AdminsInv'
  <2>1. CASE UNCHANGED vars
    BY <2>1 DEF vars, AdminsInv, Somebody, Admin, Barred, Idle
  <2> QED
    BY <2>1, AdminsStep
<1>3. AdminsInv => AdminsKnown
  BY DEF AdminsInv, AdminsKnown
<1> QED
  BY <1>1, <1>2, <1>3, Typing, PTL DEF Spec

-----------------------------------------------------------------------------
(* The users page.                                                         *)

\* rows lists the accounts of the table, each once.
Showing(table, rows) ==
    /\ \A i \in 1 .. Len(rows) :
          /\ rows[i].email \in Email /\ table[rows[i].email] # None
          /\ table[rows[i].email].role = rows[i].role
    /\ \A e \in Email : table[e] # None => \E i \in 1 .. Len(rows) : rows[i].email = e
    /\ \A i, j \in 1 .. Len(rows) : rows[i].email = rows[j].email => i = j

\* The page waits for the answer to a request of its own; the answer is a success.
Waited == ~Idle("page") /\ call["page"].shown
Ahead == Waited /\ call["page"].at = "answer" /\ call["page"].ok

\* Who sends what, and where answers are shown.
Callers ==
    /\ ~Idle("fetch") => call["fetch"].kind = "list"
    /\ ~Idle("client") => ~call["client"].shown
    /\ ~Idle("page") /\ call["page"].kind = "delete" => call["page"].email = None
    /\ page.at = "home" => Idle("fetch") /\ ~page.loaded /\ ~Waited

\* The request says what the dialog says, and names the row that is remembered.
Dialog ==
    /\ page.index <= Len(page.rows)
    /\ Waited =>
         /\ call["page"].kind \in {"create", "update"} =>
              page.item.email = call["page"].email /\ page.item.role = call["page"].role
         /\ call["page"].kind = "update" =>
              page.index # 0 /\ call["page"].email = page.rows[page.index].email
    /\ Ahead => call["page"].kind \in {"create", "update"}

\* While the list is fetched there is nothing on the page, nor has it changed
\* anything; the answer is the table.
Fetching ==
    ~Idle("fetch") =>
        /\ page.rows = <<>> /\ ~page.loaded /\ ~Ahead
        /\ call["fetch"].at = "answer" /\ call["fetch"].ok => Showing(users, call["fetch"].rows)

\* The rows as the answer to the request will leave them.
Amended ==
    IF call["page"].kind = "create" THEN Append(page.rows, page.item)
    ELSE [page.rows EXCEPT ![page.index] = page.item]

Shown == page.loaded => Showing(users, IF Ahead THEN Amended ELSE page.rows)

PageInv == page.at = "users" /\ ~off => Dialog /\ Fetching /\ Shown

\* The table as the page and the property have it.
LEMMA ShowingIsEqual ==
    ASSUME TypeOK, Showing(users, page.rows)
    PROVE  /\ {[email |-> page.rows[i].email, role |-> page.rows[i].role] : i \in 1 .. Len(page.rows)}
                = {[email |-> e, role |-> users[e].role] : e \in {f \in Email : users[f] # None}}
           /\ \A i, j \in 1 .. Len(page.rows) :
                 page.rows[i].email = page.rows[j].email => i = j
<1> DEFINE Shows == {[email |-> page.rows[i].email, role |-> page.rows[i].role] :
                       i \in 1 .. Len(page.rows)}
           There == {[email |-> e, role |-> users[e].role] : e \in {f \in Email : users[f] # None}}
<1>1. ASSUME NEW x \in Shows
      PROVE  x \in There
  <2>1. PICK i \in 1 .. Len(page.rows) :
           x = [email |-> page.rows[i].email, role |-> page.rows[i].role]
    OBVIOUS
  <2>2. /\ page.rows[i].email \in {f \in Email : users[f] # None}
        /\ users[page.rows[i].email].role = page.rows[i].role
    BY DEF Showing
  <2> QED
    BY <2>1, <2>2
<1>2. ASSUME NEW x \in There
      PROVE  x \in Shows
  <2>1. PICK e \in {f \in Email : users[f] # None} : x = [email |-> e, role |-> users[e].role]
    OBVIOUS
  <2>2. PICK i \in 1 .. Len(page.rows) : page.rows[i].email = e
    BY <2>1 DEF Showing
  <2>3. page.rows[i].role = users[e].role
    BY <2>2 DEF Showing
  <2> QED
    BY <2>1, <2>2, <2>3
<1>3. Shows = There
  BY <1>1, <1>2
<1> QED
  BY <1>3 DEF Showing

\* One account more, of an address that no row has.
LEMMA ShowingMore ==
    ASSUME NEW rows \in Seq(Row), NEW item \in Row, NEW table \in [Email -> User \cup {None}],
           Showing(users, rows), item.email \in Email, users[item.email] = None,
           \A e \in Email : e # item.email => table[e] = users[e],
           table[item.email] # None, table[item.email].role = item.role
    PROVE  Showing(table, Append(rows, item))
<1> DEFINE more == Append(rows, item)
           n == Len(rows)
<1>1. /\ Len(more) = n + 1 /\ n \in Nat /\ more[n + 1] = item
      /\ \A i \in 1 .. n : more[i] = rows[i]
  BY AppendProperties
<1>2. \A i \in 1 .. n : /\ rows[i].email \in Email /\ rows[i].email # item.email
                        /\ users[rows[i].email] # None
                        /\ users[rows[i].email].role = rows[i].role
  BY DEF Showing
<1>3. \A i, j \in 1 .. n : rows[i].email = rows[j].email => i = j
  BY DEF Showing
<1>4. \A e \in Email : users[e] # None => \E i \in 1 .. n : rows[i].email = e
  BY DEF Showing
<1> HIDE DEF more, n
<1>5. \A i \in 1 .. n + 1 : i \in 1 .. n \/ i = n + 1
  BY <1>1
<1>6. ASSUME NEW i \in 1 .. n + 1
      PROVE  /\ more[i].email \in Email /\ table[more[i].email] # None
             /\ table[more[i].email].role = more[i].role
  <2>1. CASE i \in 1 .. n
    BY <1>1, <1>2, <2>1
  <2>2. CASE i = n + 1
    BY <1>1, <2>2
  <2> QED
    BY <1>5, <2>1, <2>2
<1>7. ASSUME NEW e \in Email, table[e] # None
      PROVE  \E i \in 1 .. n + 1 : more[i].email = e
  <2>1. CASE e = item.email
    BY <1>1, <2>1
  <2>2. CASE e # item.email
    <3>1. PICK i \in 1 .. n : rows[i].email = e
      BY <1>4, <1>7, <2>2
    <3>2. i \in 1 .. n + 1 /\ more[i].email = e
      BY <1>1, <3>1
    <3> QED
      BY <3>2
  <2> QED
    BY <2>1, <2>2
<1>8. ASSUME NEW i \in 1 .. n + 1, NEW j \in 1 .. n + 1, more[i].email = more[j].email
      PROVE  i = j
  <2>1. CASE i \in 1 .. n /\ j \in 1 .. n
    BY <1>1, <1>3, <1>8, <2>1
  <2>2. CASE i = n + 1 \/ j = n + 1
    BY <1>1, <1>2, <1>5, <1>8, <2>2
  <2> QED
    BY <1>5, <2>1, <2>2
<1> QED
  BY <1>1, <1>6, <1>7, <1>8 DEF Showing, more

\* One account with another role, and its row.
LEMMA ShowingChanged ==
    ASSUME NEW rows \in Seq(Row), NEW item \in Row, NEW table \in [Email -> User \cup {None}],
           NEW k \in 1 .. Len(rows),
           Showing(users, rows), item.email = rows[k].email,
           \A e \in Email : e # item.email => table[e] = users[e],
           table[item.email] # None, table[item.email].role = item.role
    PROVE  Showing(table, [rows EXCEPT ![k] = item])
<1> DEFINE changed == [rows EXCEPT ![k] = item]
           n == Len(rows)
<1>1. /\ Len(changed) = n /\ changed[k] = item /\ k \in 1 .. n
      /\ \A i \in 1 .. n : i # k => changed[i] = rows[i]
  BY ExceptSeq
<1>2. \A i \in 1 .. n : /\ rows[i].email \in Email /\ (i # k => rows[i].email # item.email)
                        /\ users[rows[i].email] # None
                        /\ users[rows[i].email].role = rows[i].role
  BY DEF Showing
<1>3. \A i, j \in 1 .. n : rows[i].email = rows[j].email => i = j
  BY DEF Showing
<1>4. \A e \in Email : users[e] # None => \E i \in 1 .. n : rows[i].email = e
  BY DEF Showing
<1> HIDE DEF changed, n
<1>5. \A i \in 1 .. n : changed[i].email = rows[i].email
  BY <1>1
<1>6. ASSUME NEW i \in 1 .. n
      PROVE  /\ changed[i].email \in Email /\ table[changed[i].email] # None
             /\ table[changed[i].email].role = changed[i].role
  <2>1. CASE i = k
    BY <1>1, <1>2, <2>1
  <2>2. CASE i # k
    BY <1>1, <1>2, <2>2
  <2> QED
    BY <2>1, <2>2
<1>7. ASSUME NEW e \in Email, table[e] # None
      PROVE  \E i \in 1 .. n : changed[i].email = e
  <2>1. CASE e = item.email
    BY <1>1, <2>1
  <2>2. CASE e # item.email
    BY <1>4, <1>5, <1>7, <2>2
  <2> QED
    BY <2>1, <2>2
<1>8. \A i, j \in 1 .. n : changed[i].email = changed[j].email => i = j
  BY <1>3, <1>5
<1> QED
  BY <1>1, <1>6, <1>7, <1>8 DEF Showing, changed

\* A listing in a strict order leaves nobody out.
LEMMA ListingShows ==
    ASSUME TypeOK,
           NEW order \in [1 .. Cardinality({e \in Email : users[e] # None}) ->
                            {e \in Email : users[e] # None}],
           \A i, j \in DOMAIN order : i < j => users[order[i]].id < users[order[j]].id
    PROVE  Showing(users, [i \in DOMAIN order |-> Listing(order[i])])
<1> DEFINE Listed == {e \in Email : users[e] # None}
           n == Cardinality(Listed)
           rows == [i \in DOMAIN order |-> Listing(order[i])]
<1>1. IsFiniteSet(Listed) /\ n \in Nat
  <2>1. Listed \in SUBSET Email
    OBVIOUS
  <2> HIDE DEF Listed
  <2>2. IsFiniteSet(Listed)
    BY <2>1, AccountsAssumption, FS_Subset
  <2> QED
    BY <2>2, FS_CardinalityType
<1>2. \A e \in Listed : e \in Email /\ users[e] # None /\ users[e].id \in Nat
  BY DEF TypeOK, User, Id
<1> HIDE DEF Listed
<1>3. order \in [1 .. n -> Listed] /\ DOMAIN order = 1 .. n
  BY DEF Listed
<1> HIDE DEF n
<1>4. ASSUME NEW i \in 1 .. n, NEW j \in 1 .. n, order[i] = order[j]
      PROVE  i = j
  <2>1. i \in Nat /\ j \in Nat /\ order[i] \in Listed /\ users[order[i]].id \in Nat
    <3>1. order[i] \in Listed
      BY <1>3
    <3>2. users[order[i]].id \in Nat
      BY <1>2, <3>1
    <3> QED
      BY <1>1, <3>1, <3>2
  <2>2. CASE i < j
    BY <1>3, <1>4, <2>1, <2>2
  <2>3. CASE j < i
    BY <1>3, <1>4, <2>1, <2>3
  <2> QED
    BY <2>1, <2>2, <2>3
<1>5. order \in Injection(1 .. n, Listed)
  BY <1>3, <1>4 DEF Injection, IsInjective
<1>6. Cardinality(1 .. n) = n
  BY <1>1, FS_Interval
<1>7. order \in Surjection(1 .. n, Listed)
  BY <1>1, <1>5, <1>6, FS_Injection DEF n
<1>8. \A e \in Listed : \E i \in 1 .. n : order[i] = e
  BY <1>7 DEF Surjection
<1>9. Len(rows) = n /\ DOMAIN rows = 1 .. n
  BY <1>1, <1>3
<1>10. \A i \in 1 .. n : rows[i].email = order[i] /\ rows[i].role = users[order[i]].role
  BY <1>3 DEF Listing
<1> HIDE DEF rows
<1>11. ASSUME NEW i \in 1 .. n
       PROVE  /\ rows[i].email \in Email /\ users[rows[i].email] # None
              /\ users[rows[i].email].role = rows[i].role
  BY <1>2, <1>3, <1>10
<1>12. ASSUME NEW e \in Email, users[e] # None
       PROVE  \E i \in 1 .. n : rows[i].email = e
  BY <1>8, <1>10, <1>12 DEF Listed
<1>13. \A i, j \in 1 .. n : rows[i].email = rows[j].email => i = j
  BY <1>4, <1>10
<1> QED
  BY <1>9, <1>11, <1>12, <1>13 DEF Showing, rows

\* The answer to a call, and the calls it leaves alone.
LEMMA AnswerCall ==
    ASSUME TypeOK, NEW c \in Caller, ~Idle(c), NEW ok \in BOOLEAN, Answer(c, ok)
    PROVE  /\ \A d \in Caller : d # c => call'[d] = call[d]
           /\ ~call[c].shown => call'[c] = None
           /\ call[c].shown =>
                /\ call'[c] # None /\ call'[c] \in Call
                /\ call'[c].at = "answer" /\ call'[c].ok = ok
                /\ call'[c].kind = call[c].kind /\ call'[c].email = call[c].email
                /\ call'[c].role = call[c].role /\ call'[c].shown
<1>1. call[c] \in Call
  BY DEF TypeOK, Idle
<1>2. call' = [call EXCEPT ![c] = IF call[c].shown THEN [call[c] EXCEPT !.at = "answer", !.ok = ok]
                                  ELSE None]
  BY DEF Answer
<1>3. [call[c] EXCEPT !.at = "answer", !.ok = ok] \in Call
  BY <1>1 DEF Call
<1>4. None \notin Call
  BY NoneIsNoCall
<1>5. call'[c] = IF call[c].shown THEN [call[c] EXCEPT !.at = "answer", !.ok = ok] ELSE None
  BY <1>2 DEF TypeOK
<1>6. \A d \in Caller : d # c => call'[d] = call[d]
  BY <1>2 DEF TypeOK
<1> DEFINE q == [call[c] EXCEPT !.at = "answer", !.ok = ok]
<1>7. /\ q.at = "answer" /\ q.ok = ok /\ q.kind = call[c].kind /\ q.email = call[c].email
      /\ q.role = call[c].role /\ q.shown = call[c].shown
  BY <1>1 DEF Call
<1> HIDE DEF q
<1> QED
  BY <1>3, <1>4, <1>5, <1>6, <1>7 DEF q

\* A call that moves on,
LEMMA GotoCall ==
    ASSUME TypeOK, NEW c \in Caller, ~Idle(c), NEW at \in {"read", "act"}, Goto(c, at)
    PROVE  /\ \A d \in Caller : d # c => call'[d] = call[d]
           /\ call'[c] # None /\ call'[c].at = at
           /\ call'[c].ok = call[c].ok /\ call'[c].rows = call[c].rows
           /\ call'[c].kind = call[c].kind /\ call'[c].email = call[c].email
           /\ call'[c].role = call[c].role /\ call'[c].shown = call[c].shown
<1>1. call[c] \in Call
  BY DEF TypeOK, Idle
<1>2. \A d \in Caller : call'[d] = IF d = c THEN [call[c] EXCEPT !.at = at] ELSE call[d]
  BY DEF TypeOK, Goto
<1> DEFINE q == [call[c] EXCEPT !.at = at]
<1>3. q \in Call
  BY <1>1 DEF Call
<1>4. /\ q.at = at /\ q.ok = call[c].ok /\ q.rows = call[c].rows /\ q.kind = call[c].kind
      /\ q.email = call[c].email /\ q.role = call[c].role /\ q.shown = call[c].shown
  BY <1>1 DEF Call
<1> HIDE DEF q
<1>5. call'[c] = q /\ \A d \in Caller : d # c => call'[d] = call[d]
  BY <1>2 DEF q
<1> QED
  BY <1>3, <1>4, <1>5, NoneIsNoCall

\* and one that is sent.
LEMMA SendCall ==
    ASSUME TypeOK, NEW c \in Caller,
           NEW kind \in {"list", "create", "update", "delete"}, NEW by \in Email,
           NEW id \in Id \cup {NoId}, NEW email \in Email \cup {None}, NEW role \in Role,
           NEW at \in {"check", "read", "act", "answer"},
           Send(c, kind, by, id, email, role, at)
    PROVE  /\ \A d \in Caller : d # c => call'[d] = call[d]
           /\ call'[c] # None /\ call'[c].at = at /\ ~call'[c].ok
           /\ call'[c].kind = kind /\ call'[c].email = email
           /\ call'[c].role = role /\ call'[c].shown = (c # "client")
<1> DEFINE q == [kind |-> kind, by |-> by, id |-> id, email |-> email, role |-> role, at |-> at,
                 ok |-> FALSE, shown |-> c # "client", rows |-> <<>>]
<1>1. call'[c] = q /\ \A d \in Caller : d # c => call'[d] = call[d]
  BY DEF TypeOK, Send
<1>2. /\ q.at = at /\ ~q.ok /\ q.kind = kind /\ q.email = email
      /\ q.role = role /\ q.shown = (c # "client")
  OBVIOUS
<1>3. <<>> \in Seq(Row)
  OBVIOUS
<1>4. q \in Call
  BY <1>3 DEF Call
<1> HIDE DEF q
<1> QED
  BY <1>1, <1>2, <1>4, NoneIsNoCall

\* A step that has nothing to do with the page.
LEMMA Elsewhere ==
    ASSUME PageInv, UNCHANGED <<users, page, off>>,
           call'["page"] = call["page"], call'["fetch"] = call["fetch"]
    PROVE  PageInv'
BY DEF PageInv, Dialog, Fetching, Shown, Amended, Waited, Ahead, Idle

\* A request moves on, or is answered with an error.
LEMMA Moves ==
    ASSUME TypeOK, PageInv, UNCHANGED <<users, page>>, page.at = "users" /\ ~off' => ~off,
           NEW c \in Caller, ~Idle(c),
           call[c].at # "answer", Answer(c, FALSE) \/ Goto(c, "read") \/ Goto(c, "act")
    PROVE  PageInv'
<1> SUFFICES ASSUME page.at = "users", ~off
             PROVE  Dialog' /\ Fetching' /\ Shown'
  BY DEF PageInv
<1>1. Dialog /\ Fetching /\ Shown
  BY DEF PageInv
<1>2. \A d \in Caller : d # c => call'[d] = call[d]
  BY AnswerCall, GotoCall
<1>3. /\ call'[c] # None => /\ call'[c].shown = call[c].shown /\ call'[c].kind = call[c].kind
                            /\ call'[c].email = call[c].email /\ call'[c].role = call[c].role
                            /\ ~(call'[c].at = "answer" /\ call'[c].ok)
  <2>1. CASE Answer(c, FALSE)
    <3>1. call[c].shown =>
            /\ call'[c].shown /\ call'[c].kind = call[c].kind
            /\ call'[c].email = call[c].email /\ call'[c].role = call[c].role
            /\ call'[c].ok = FALSE
      BY <2>1, AnswerCall
    <3>2. ~call[c].shown => call'[c] = None
      BY <2>1, AnswerCall
    <3>3. call[c] \in Call
      BY DEF TypeOK, Idle
    <3>4. call[c].shown \in BOOLEAN
      BY <3>3 DEF Call
    <3>5. call'[c] \in Call \cup {None}
      BY <2>1, AnswerType
    <3>6. call'[c] # None => call'[c].shown \in BOOLEAN
      BY <3>5 DEF Call
    <3> QED
      BY <3>1, <3>2, <3>4, <3>6
  <2>2. ASSUME NEW at \in {"read", "act"}, Goto(c, at)
        PROVE  /\ call'[c].at \in {"read", "act"} /\ call'[c].shown = call[c].shown
               /\ call'[c].kind = call[c].kind
               /\ call'[c].email = call[c].email /\ call'[c].role = call[c].role
    BY <2>2, GotoCall
  <2> QED
    BY <2>1, <2>2
<1>4. "page" \in Caller /\ "fetch" \in Caller
  BY DEF Caller
<1>5. ~Idle("page")' => ~Idle("page") /\ call'["page"].shown = call["page"].shown
           /\ call'["page"].kind = call["page"].kind /\ call'["page"].email = call["page"].email
           /\ call'["page"].role = call["page"].role
  BY <1>2, <1>3, <1>4 DEF Idle
<1>6. Ahead' = Ahead /\ (Ahead => call'["page"] = call["page"])
  BY <1>2, <1>3, <1>4 DEF Ahead, Waited, Idle
<1>7. /\ ~Idle("fetch")' => ~Idle("fetch")
      /\ ~Idle("fetch")' /\ call'["fetch"].at = "answer" /\ call'["fetch"].ok =>
           call["fetch"].at = "answer" /\ call["fetch"].ok /\ call'["fetch"].rows = call["fetch"].rows
  BY <1>2, <1>3, <1>4 DEF Idle
<1>8. Dialog'
  BY <1>1, <1>5, <1>6 DEF Dialog, Waited, Ahead
<1>9. Fetching'
  BY <1>1, <1>6, <1>7 DEF Fetching
<1>10. Shown'
  BY <1>1, <1>6 DEF Shown, Amended
<1> QED
  BY <1>8, <1>9, <1>10

\* A write that was recorded.  With ~off' it is one that changed the accounts, of
\* a request the page waits for, or one that did not, of some other request.
LEMMA WriteKind ==
    ASSUME TypeOK, Callers, NEW c \in Caller, ~Idle(c), call[c].kind # "list", Record(c),
           page' = page, page.at = "users", ~off'
    PROVE  /\ ~off
           /\ users' # users => c = "page" /\ Waited /\ Idle("fetch")
           /\ users' = users /\ c = "page" /\ call["page"].shown => ~call'["page"].ok
           /\ c # "fetch"
<1>1. ~off /\ ~Unaccounted(c)
  BY DEF Record, Misses
<1>2. c # "fetch"
  BY DEF Callers
<1>3. c = "client" => ~call[c].shown
  BY DEF Callers
<1> QED
  BY <1>1, <1>2, <1>3 DEF Unaccounted, Waited, Caller

\* A write whose request changes nothing is of another request, or an error.
LEMMA WriteIdle ==
    ASSUME TypeOK, Callers, PageInv, NEW c \in Caller, ~Idle(c), call[c].kind # "list",
           call[c].at = "act", Record(c), Answer(c, TRUE), UNCHANGED <<page, users>>
    PROVE  PageInv'
<1> SUFFICES ASSUME page.at = "users", ~off'
             PROVE  PageInv'
  BY DEF PageInv
<1>1. /\ ~off /\ c # "fetch"
      /\ c = "page" /\ call["page"].shown => ~call'["page"].ok
  BY WriteKind
<1>2. call[c].shown => call'[c].ok
  BY AnswerCall
<1>3. ~call[c].shown
  BY <1>1, <1>2 DEF Callers, Caller
<1>4. call'[c] = None /\ \A d \in Caller : d # c => call'[d] = call[d]
  BY <1>3, AnswerCall
<1>5. "page" \in Caller /\ "fetch" \in Caller
  BY DEF Caller
<1>6. Waited' = Waited /\ (Waited => call'["page"] = call["page"]) /\ call'["fetch"] = call["fetch"]
  BY <1>1, <1>3, <1>4, <1>5 DEF Waited, Idle
<1> QED
  BY <1>1, <1>6 DEF PageInv, Dialog, Fetching, Shown, Amended, Ahead, Idle

\* A write of the page's own request: what the dialog says is what the table has.
LEMMA WriteShows ==
    ASSUME TypeOK, Callers, PageInv, NEW c \in Caller, ~Idle(c), call[c].at = "act",
           call[c].kind \in {"create", "update"}, Record(c), Answer(c, TRUE), page' = page,
           users' \in [Email -> User \cup {None}], users' # users, call[c].email \in Email,
           \A e \in Email : e # call[c].email => users'[e] = users[e],
           users'[call[c].email] # None, users'[call[c].email].role = call[c].role,
           users[call[c].email] = None <=> call[c].kind = "create"
    PROVE  PageInv'
<1> SUFFICES ASSUME page.at = "users", ~off'
             PROVE  Dialog' /\ Fetching' /\ Shown'
  BY DEF PageInv
<1>1. ~off /\ c = "page" /\ Waited /\ Idle("fetch")
  BY WriteKind
<1>2. Dialog /\ Shown
  BY <1>1 DEF PageInv
<1>3. /\ call'["fetch"] = call["fetch"]
      /\ call'["page"] # None /\ call'["page"].at = "answer" /\ call'["page"].ok
      /\ call'["page"].kind = call["page"].kind /\ call'["page"].email = call["page"].email
      /\ call'["page"].role = call["page"].role /\ call'["page"].shown
  BY <1>1, AnswerCall DEF Waited, Caller
<1>4. Waited' /\ Ahead' /\ ~Ahead
  BY <1>1, <1>3 DEF Waited, Ahead, Idle
<1>5. Dialog'
  BY <1>1, <1>2, <1>3 DEF Dialog
<1>6. Fetching'
  BY <1>1, <1>3 DEF Fetching, Idle
<1>7. page.rows \in Seq(Row) /\ page.item \in Row /\ page.index \in Nat
  BY DEF TypeOK, Page
<1>8. page.item.email = call["page"].email /\ page.item.role = call["page"].role
  BY <1>1, <1>2 DEF Dialog
<1>9. ASSUME page.loaded
      PROVE  Showing(users', Amended')
  <2>1. Showing(users, page.rows)
    BY <1>2, <1>4, <1>9 DEF Shown
  <2>2. CASE call["page"].kind = "create"
    <3>1. Amended' = Append(page.rows, page.item)
      BY <1>3, <2>2 DEF Amended
    <3>2. users[page.item.email] = None /\ page.item.email \in Email
      BY <1>1, <1>8, <2>2
    <3> QED
      BY <1>1, <1>7, <1>8, <2>1, <3>1, <3>2, ShowingMore
  <2>3. CASE call["page"].kind = "update"
    <3>1. Amended' = [page.rows EXCEPT ![page.index] = page.item]
      BY <1>3, <2>3 DEF Amended
    <3>2. page.index \in 1 .. Len(page.rows) /\ page.item.email = page.rows[page.index].email
      BY <1>1, <1>2, <1>7, <1>8, <2>3 DEF Dialog
    <3> QED
      BY <1>1, <1>7, <1>8, <2>1, <3>1, <3>2, ShowingChanged
  <2> QED
    BY <1>1, <2>2, <2>3
<1>10. Shown'
  BY <1>4, <1>9 DEF Shown
<1> QED
  BY <1>5, <1>6, <1>10

\* The routes.
LEMMA RoutesPage ==
    ASSUME TypeOK, Callers, PageInv, TypeOK', NEW c \in Caller,
           Check(c) \/ Read(c) \/ Create(c) \/ Update(c) \/ Delete(c)
    PROVE  PageInv'
<1>1. ~Idle(c) /\ call[c] \in Call
  BY DEF Check, Read, Create, Update, Delete, At, TypeOK, Idle
<1>2. CASE Check(c)
  <2>1. /\ UNCHANGED <<users, page, off>> /\ call[c].at # "answer"
        /\ Answer(c, FALSE) \/ Goto(c, "read") \/ Goto(c, "act")
    BY <1>2 DEF Check, At
  <2> QED
    BY <1>1, <2>1, Moves
<1>3. CASE Read(c)
  <2>1. /\ UNCHANGED <<users, page, off>> /\ call[c].at # "answer"
        /\ Answer(c, FALSE) \/ Goto(c, "act")
    BY <1>3 DEF Read, At
  <2> QED
    BY <1>1, <2>1, Moves
<1>4. CASE Create(c)
  <2>1. call[c].at = "act" /\ call[c].kind = "create" /\ Record(c) /\ page' = page
    BY <1>4 DEF Create, At
  <2>2. call[c].email \in Email \cup {None} /\ call[c].role \in Role
    BY <1>1 DEF Call
  <2>3. CASE users[call[c].email] # None
    <3>1. Answer(c, FALSE) /\ UNCHANGED users
      BY <1>4, <2>3 DEF Create
    <3>2. page.at = "users" /\ ~off' => ~off
      BY <2>1 DEF Record, Misses
    <3> QED
      BY <1>1, <2>1, <3>1, <3>2, Moves
  <2>4. CASE users[call[c].email] = None /\ call[c].email \in Email
    <3>1. Insert(call[c].email, call[c].role) /\ Answer(c, TRUE)
      BY <1>4, <2>4 DEF Create
    <3>2. users' = [users EXCEPT ![call[c].email] = [id |-> nextId, role |-> call[c].role]]
      BY <3>1 DEF Insert
    <3>3. users'[call[c].email] = [id |-> nextId, role |-> call[c].role]
      BY <2>4, <3>2 DEF TypeOK
    <3>4. [id |-> nextId, role |-> call[c].role] \in [id : Nat, role : {"ADMIN", "USER"}]
      BY <2>2, AccountsAssumption DEF TypeOK, Role
    <3>5. users'[call[c].email] # None /\ users'[call[c].email].role = call[c].role
      BY <3>3, <3>4, AccountsAssumption
    <3>6. \A e \in Email : e # call[c].email => users'[e] = users[e]
      BY <3>2 DEF TypeOK
    <3>7. users' \in [Email -> User \cup {None}] /\ users' # users
      BY <2>4, <3>5 DEF TypeOK
    <3> QED
      BY <1>1, <2>1, <2>4, <3>1, <3>5, <3>6, <3>7, WriteShows
  <2>5. CASE users[call[c].email] = None /\ call[c].email = None
    \* A call of nobody's address: no row is made.
    <3>1. Insert(None, call[c].role) /\ Answer(c, TRUE)
      BY <1>4, <2>5 DEF Create
    <3>2. users' = users
      BY <3>1, AccountsAssumption DEF Insert, TypeOK
    <3> QED
      BY <1>1, <2>1, <3>1, <3>2, WriteIdle
  <2> QED
    BY <2>2, <2>3, <2>4, <2>5
<1>5. CASE Update(c)
  <2>1. /\ call[c].at = "act" /\ call[c].kind = "update" /\ Record(c) /\ page' = page
        /\ Answer(c, TRUE) /\ users' = Updated(call[c])
    BY <1>5 DEF Update, At
  <2>2. CASE users' = users
    BY <1>1, <2>1, <2>2, WriteIdle
  <2>3. CASE users' # users
    <3>1. \A e \in Email : e # call[c].email => users'[e] = users[e]
      BY <2>1 DEF Updated
    <3>2. users \in [Email -> User \cup {None}] /\ users' \in [Email -> User \cup {None}]
      BY DEF TypeOK
    <3>3. PICK e \in Email : users'[e] # users[e]
      BY <2>3, <3>2
    <3>4. e = call[c].email /\ users[e] # None /\ users[e].id = call[c].id
      BY <2>1, <3>3 DEF Updated
    <3>5. users'[e] = [users[e] EXCEPT !.role = call[c].role]
      BY <2>1, <3>4 DEF Updated
    <3>6. users[e] \in User
      BY <3>2, <3>4
    <3>7. users'[e].role = call[c].role
      BY <3>5, <3>6 DEF User
    <3>8. users'[e] # None
      <4>1. call[c].role \in Role
        BY <1>1 DEF Call
      <4>2. [users[e] EXCEPT !.role = call[c].role] \in [id : Nat, role : {"ADMIN", "USER"}]
        BY <3>6, <4>1 DEF User, Id, Role
      <4> QED
        BY <3>5, <4>2, AccountsAssumption
    <3> QED
      BY <1>1, <2>1, <2>3, <3>1, <3>2, <3>4, <3>7, <3>8, WriteShows
  <2> QED
    BY <2>2, <2>3
<1>6. CASE Delete(c)
  <2>1. /\ call[c].at = "act" /\ call[c].kind = "delete" /\ Record(c) /\ page' = page
        /\ Answer(c, TRUE) /\ users' = Deleted(call[c].email)
    BY <1>6 DEF Delete, At
  <2>2. CASE users' = users
    BY <1>1, <2>1, <2>2, WriteIdle
  <2>3. CASE users' # users
    <3> SUFFICES ASSUME page.at = "users", ~off'
                 PROVE  FALSE
      BY <2>1 DEF PageInv
    <3>1. c = "page"
      BY <1>1, <2>1, <2>3, WriteKind
    <3>2. call[c].email = None
      BY <1>1, <2>1, <3>1 DEF Callers
    <3>3. users' = [e \in Email |-> users[e]]
      BY <2>1, <3>2, AccountsAssumption DEF Deleted
    <3> QED
      BY <2>3, <3>3 DEF TypeOK
  <2> QED
    BY <2>2, <2>3
<1> QED
  BY <1>2, <1>3, <1>4, <1>5, <1>6

\* The rest of the server, and the client.
LEMMA ServerPage ==
    ASSUME TypeOK, Callers, PageInv, CheckAdmins \/ CreateAdmin \/ Restart \/ List \/ Client
    PROVE  PageInv'
<1>1. CASE CheckAdmins
  BY <1>1, Elsewhere DEF CheckAdmins
<1>2. CASE CreateAdmin
  BY <1>2 DEF CreateAdmin, Misses, PageInv
<1>3. CASE Restart
  <2>1. page' = page /\ users' = users /\ call' = [c \in Caller |-> None]
    BY <1>3 DEF Restart
  <2>2. Idle("page")' /\ Idle("fetch")' /\ ~Waited' /\ ~Ahead'
    BY <2>1 DEF Idle, Caller, Waited, Ahead
  <2> SUFFICES ASSUME page.at = "users", ~off'
               PROVE  Dialog' /\ Fetching' /\ Shown'
    BY <2>1 DEF PageInv
  <2>3. ~off /\ Idle("page") /\ ~Ahead
    BY <1>3 DEF Restart, Misses, Ahead, Waited
  <2> QED
    BY <2>1, <2>2, <2>3 DEF PageInv, Dialog, Fetching, Shown
<1>4. CASE List
  <2> DEFINE Listed == {e \in Email : users[e] # None}
  <2>1. PICK order \in [1 .. Cardinality(Listed) -> Listed] :
           /\ \A i, j \in DOMAIN order : i < j => users[order[i]].id < users[order[j]].id
           /\ call' = [call EXCEPT !["fetch"] =
                        [@ EXCEPT !.at = "answer", !.ok = TRUE,
                                  !.rows = [i \in DOMAIN order |-> Listing(order[i])]]]
    BY <1>4 DEF List
  <2>2. Showing(users, [i \in DOMAIN order |-> Listing(order[i])])
    BY <2>1, ListingShows
  <2>3. "fetch" \in Caller /\ "page" \in Caller /\ call["fetch"] \in Call /\ ~Idle("fetch")
    BY <1>4 DEF TypeOK, List, At, Idle, Caller
  <2>4. call'["fetch"].rows = [i \in DOMAIN order |-> Listing(order[i])]
    <3> HIDE DEF Listed
    <3>1. call'["fetch"] =
            [call["fetch"] EXCEPT !.at = "answer", !.ok = TRUE,
                                  !.rows = [i \in DOMAIN order |-> Listing(order[i])]]
      BY <2>1, <2>3 DEF TypeOK
    <3> QED
      BY <2>3, <3>1 DEF Call
  <2>5. UNCHANGED <<users, page, off>> /\ call'["page"] = call["page"]
    BY <1>4, <2>1 DEF List, TypeOK, Caller
  <2> SUFFICES ASSUME page.at = "users", ~off
               PROVE  Dialog' /\ Fetching' /\ Shown'
    BY <2>5 DEF PageInv
  <2>6. Waited' = Waited /\ Ahead' = Ahead
    BY <2>5 DEF Waited, Ahead, Idle
  <2>7. Dialog' /\ Shown'
    BY <2>5, <2>6 DEF PageInv, Dialog, Shown, Amended
  <2>8. Fetching'
    BY <2>2, <2>3, <2>4, <2>5, <2>6 DEF PageInv, Fetching
  <2> QED
    BY <2>7, <2>8
<1>5. CASE Client
  <2>1. UNCHANGED <<users, page, off>>
    BY <1>5 DEF Client
  <2>2. call'["page"] = call["page"] /\ call'["fetch"] = call["fetch"]
    BY <1>5 DEF Client, Send, TypeOK, Caller
  <2> QED
    BY <2>1, <2>2, Elsewhere
<1> QED
  BY <1>1, <1>2, <1>3, <1>4, <1>5

\* What the user does to the page: off', unless the page's call is idle.
LEMMA TouchPage ==
    ASSUME TypeOK, Callers, PageInv, NEW p \in Page, Touch(p), p.rows = page.rows,
           p.loaded = page.loaded, p.at = page.at, p.index <= Len(page.rows) \/ p.index = page.index
    PROVE  PageInv'
<1>1. UNCHANGED <<users, call>> /\ (~off' => ~off /\ Idle("page"))
  BY DEF Touch
<1>2. page'.rows = page.rows /\ page'.loaded = page.loaded /\ page'.at = page.at
      /\ page'.index = p.index
  BY DEF Touch, Page
<1> SUFFICES ASSUME page.at = "users", ~off'
             PROVE  Dialog' /\ Fetching' /\ Shown'
  BY <1>2 DEF PageInv
<1>3. Dialog /\ Fetching /\ Shown
  BY <1>1 DEF PageInv
<1>4. ~Waited /\ ~Waited' /\ ~Ahead /\ ~Ahead'
  BY <1>1 DEF Waited, Ahead, Idle
<1> QED
  BY <1>1, <1>2, <1>3, <1>4 DEF Dialog, Fetching, Shown, Idle

\* The answer to the page's request.
LEMMA AnsweredPage == ASSUME TypeOK, Callers, PageInv, Answered PROVE PageInv'
<1>1. call["page"] \in Call /\ ~Idle("page") /\ call["page"].at = "answer"
  BY DEF Answered, At, TypeOK, Idle, Caller
<1>2. UNCHANGED <<users, off>> /\ call'["page"] = None /\ call'["fetch"] = call["fetch"]
  BY DEF Answered, TypeOK, Caller
<1>3. page \in Page /\ page.rows \in Seq(Row) /\ page.item \in Row /\ page.index \in Nat
  BY DEF TypeOK, Page
<1>4. ~Waited' /\ ~Ahead'
  BY <1>2 DEF Waited, Ahead, Idle
<1>5. Takes(call["page"]) <=> Ahead
  BY <1>1 DEF Takes, Ahead, Waited
<1>6. CASE ~Ahead
  <2>1. page' = [page EXCEPT !.item = Untyped(@)]
    BY <1>5, <1>6 DEF Answered
  <2>2. /\ page'.rows = page.rows /\ page'.loaded = page.loaded /\ page'.at = page.at
        /\ page'.index = page.index
    BY <1>3, <2>1 DEF Page
  <2> QED
    BY <1>2, <1>4, <1>6, <2>2 DEF PageInv, Dialog, Fetching, Shown, Idle
<1>7. CASE Ahead
  <2>1. page'.at = page.at
    <3>1. \/ page' = [page EXCEPT !.item = Untyped(@)]
          \/ page' = Closed([page EXCEPT !.rows = Append(@, page.item)])
          \/ page' = Closed([page EXCEPT !.rows[page.index] = page.item])
          \/ page' = [page EXCEPT !.rows = Spliced(@, page.index),
                                  !.dialog = IF @ = "delete" THEN "none" ELSE @]
      BY DEF Answered
    <3> QED
      BY <1>3, <3>1 DEF Page, Closed
  <2> SUFFICES ASSUME page.at = "users", ~off
               PROVE  Dialog' /\ Fetching' /\ Shown'
    BY <1>2, <2>1 DEF PageInv
  <2>2. Dialog /\ Fetching /\ Shown
    BY DEF PageInv
  <2>3. call["page"].kind \in {"create", "update"} /\ Idle("fetch") /\ Waited
    BY <1>7, <2>2 DEF Dialog, Fetching, Ahead
  <2>4. page'.rows = Amended /\ page'.loaded = page.loaded /\ page'.index = 0
    <3>1. CASE call["page"].kind = "create"
      <4>1. page' = Closed([page EXCEPT !.rows = Append(@, page.item)])
        BY <1>5, <1>7, <3>1 DEF Answered
      <4> QED
        BY <1>3, <3>1, <4>1 DEF Closed, Page, Amended
    <3>2. CASE call["page"].kind = "update"
      <4>1. page.index \in 1 .. Len(page.rows)
        BY <1>3, <2>2, <2>3, <3>2 DEF Dialog
      <4>2. page' = Closed([page EXCEPT !.rows[page.index] = page.item])
        BY <1>5, <1>7, <3>2, <4>1 DEF Answered
      <4> QED
        BY <1>3, <3>2, <4>2 DEF Closed, Page, Amended
    <3> QED
      BY <2>3, <3>1, <3>2
  <2>5. Len(page'.rows) \in Nat
    <3>1. CASE call["page"].kind = "create"
      BY <1>3, <2>4, <3>1, AppendProperties DEF Amended
    <3>2. CASE call["page"].kind = "update"
      <4>1. page.index \in 1 .. Len(page.rows)
        BY <1>3, <2>2, <2>3, <3>2 DEF Dialog
      <4>2. Amended = [page.rows EXCEPT ![page.index] = page.item]
        BY <3>2 DEF Amended
      <4> QED
        BY <1>3, <2>4, <4>1, <4>2, ExceptSeq
    <3> QED
      BY <2>3, <3>1, <3>2
  <2>6. Dialog'
    BY <1>4, <2>4, <2>5 DEF Dialog
  <2>7. Fetching'
    BY <1>2, <2>3 DEF Fetching, Idle
  <2>8. Shown'
    BY <1>2, <1>4, <1>7, <2>2, <2>4 DEF Shown
  <2> QED
    BY <2>6, <2>7, <2>8
<1> QED
  BY <1>6, <1>7

\* The admin app.
LEMMA AppPage ==
    ASSUME TypeOK, Callers, PageInv,
           Login \/ Leave \/ OpenUsers \/ Fetched
             \/ Pick \/ New \/ Cancel \/ Hide \/ Save \/ Remove \/ Answered
    PROVE  PageInv'
<1>0. /\ page \in Page /\ page.rows \in Seq(Row) /\ page.item \in Row /\ page.index \in Nat
      /\ "page" \in Caller /\ "fetch" \in Caller
  BY DEF TypeOK, Page, Caller
<1>1. CASE Login \/ Leave
  <2>1. page'.at = "home"
    BY <1>1, FreshType DEF Login, Leave, Fresh
  <2> QED
    BY <2>1 DEF PageInv
<1>2. CASE OpenUsers
  <2>1. page' = [Fresh(page.token) EXCEPT !.at = "users"] /\ users' = users /\ page.at = "home"
    BY <1>2 DEF OpenUsers
  <2>2. page'.rows = <<>> /\ page'.index = 0 /\ ~page'.loaded
    BY <2>1 DEF Fresh
  <2>3. page.token \in Email
    BY <1>2 DEF OpenUsers, TypeOK, Page
  <2>4. "USER" \in Role /\ NoId \in Id \cup {NoId}
    BY DEF Role
  <2>5. /\ \A d \in Caller : d # "fetch" => call'[d] = call[d]
        /\ call'["fetch"].at = "check"
    <3>1. Send("fetch", "list", page.token, NoId, None, "USER", "check")
      BY <1>2 DEF OpenUsers
    <3>2. /\ "list" \in {"list", "create", "update", "delete"} /\ None \in Email \cup {None}
          /\ "check" \in {"check", "read", "act", "answer"}
      OBVIOUS
    <3> QED
      BY <1>0, <2>3, <2>4, <3>1, <3>2, SendCall, Zenon
  <2>6. ~Waited' /\ ~Ahead'
    BY <1>0, <2>1, <2>5 DEF Callers, Waited, Ahead, Idle
  <2> QED
    BY <2>2, <2>5, <2>6 DEF PageInv, Dialog, Fetching, Shown
<1>3. CASE Fetched
  <2>1. /\ call["fetch"].at = "answer" /\ ~Idle("fetch") /\ UNCHANGED <<users, off>>
        /\ call'["fetch"] = None /\ call'["page"] = call["page"]
    BY <1>0, <1>3 DEF Fetched, At, TypeOK
  <2>2. page'.at = page.at /\ page'.index = page.index /\ page'.item = page.item
    BY <1>0, <1>3 DEF Fetched, Page
  <2> SUFFICES ASSUME page.at = "users", ~off
               PROVE  Dialog' /\ Fetching' /\ Shown'
    BY <2>1, <2>2 DEF PageInv
  <2>3. Dialog /\ Fetching
    BY DEF PageInv
  <2>4. /\ page.rows = <<>> /\ ~page.loaded /\ ~Ahead /\ page.index = 0
        /\ call["fetch"].ok => Showing(users, call["fetch"].rows)
    BY <1>0, <2>1, <2>3 DEF Dialog, Fetching
  <2>5. Waited' = Waited /\ ~Ahead'
    BY <2>1, <2>4 DEF Waited, Ahead, Idle
  <2>6. call["fetch"].rows \in Seq(Row)
    BY <2>1 DEF TypeOK, Caller, Call, Idle
  <2>7. /\ page'.rows \in Seq(Row)
        /\ page'.loaded => Showing(users, page'.rows)
    BY <1>0, <1>3, <2>4, <2>6 DEF Fetched, Page
  <2>8. Dialog'
    <3>1. ~(Waited /\ call["page"].kind = "update")
      BY <2>3, <2>4 DEF Dialog
    <3>2. page'.index <= Len(page'.rows)
      BY <2>2, <2>4, <2>7
    <3> QED
      BY <2>1, <2>2, <2>3, <2>5, <3>1, <3>2 DEF Dialog
  <2>9. Fetching' /\ Shown'
    BY <2>1, <2>5, <2>7 DEF Fetching, Shown, Idle
  <2> QED
    BY <2>8, <2>9
<1>4. CASE Pick
  <2>1. PICK i \in 1 .. Len(page.rows), dialog \in {"edit", "delete"} :
           Touch([page EXCEPT !.index = i, !.item = page.rows[i], !.dialog = dialog])
    BY <1>4 DEF Pick
  <2>2. page.rows[i] \in Row
    BY <1>0, ElementOfSeq
  <2>3. i \in Nat /\ i <= Len(page.rows)
    BY <1>0
  <2> DEFINE p == [page EXCEPT !.index = i, !.item = page.rows[i], !.dialog = dialog]
  <2>4. p \in Page /\ p.at = page.at /\ p.index = i /\ p.rows = page.rows /\ p.loaded = page.loaded
    BY <1>0, <2>2, <2>3 DEF Page
  <2>5. Touch(p)
    BY <2>1
  <2> HIDE DEF p
  <2> QED
    BY <2>3, <2>4, <2>5, TouchPage
<1>5. CASE New \/ Hide
  <2>1. PICK dialog \in {"edit", "none"} : Touch([page EXCEPT !.dialog = dialog])
    BY <1>5 DEF New, Hide
  <2> DEFINE p == [page EXCEPT !.dialog = dialog]
  <2>2. /\ p \in Page /\ p.at = page.at /\ p.index = page.index /\ p.rows = page.rows
        /\ p.loaded = page.loaded
    BY <1>0 DEF Page
  <2>3. Touch(p)
    BY <2>1
  <2> HIDE DEF p
  <2> QED
    BY <2>2, <2>3, TouchPage
<1>6. CASE Cancel
  <2> DEFINE p == Closed(page)
  <2>1. /\ p \in Page /\ p.at = page.at /\ p.index = 0 /\ p.rows = page.rows
        /\ p.loaded = page.loaded
    BY <1>0, ClosedType DEF Closed, Page
  <2>2. Touch(p)
    BY <1>6 DEF Cancel
  <2>3. 0 <= Len(page.rows)
    BY <1>0
  <2> HIDE DEF p
  <2> QED
    BY <2>1, <2>2, <2>3, TouchPage
<1>7. CASE Save
  <2>1. page.token \in Email /\ page.item.id \in Id \cup {NoId}
    BY <1>0, <1>7 DEF Save, TypeOK, Page, Row
  <2>2. PICK e \in Email, role \in Role :
          LET kind == IF page.index = 0 THEN "create" ELSE "update"
              lost == kind = "update" /\ page.item.id = NoId
          IN  /\ page' = [page EXCEPT !.item = [@ EXCEPT !.email = e, !.role = role]]
              /\ Misses(kind = "update" /\ e # page.rows[page.index].email)
              /\ Send("page", kind, page.token, page.item.id, e, role,
                      IF lost THEN "answer" ELSE "check")
    BY <1>7 DEF Save
  <2> DEFINE kind == IF page.index = 0 THEN "create" ELSE "update"
             at == IF kind = "update" /\ page.item.id = NoId THEN "answer" ELSE "check"
  <2>3. /\ kind \in {"create", "update"} /\ at \in {"answer", "check"}
        /\ kind = "update" => page.index # 0
    OBVIOUS
  <2>4. /\ page' = [page EXCEPT !.item = [@ EXCEPT !.email = e, !.role = role]]
        /\ Misses(kind = "update" /\ e # page.rows[page.index].email)
        /\ Send("page", kind, page.token, page.item.id, e, role, at)
    BY <2>2
  <2> HIDE DEF kind, at
  <2>5. /\ call'["fetch"] = call["fetch"] /\ call'["page"].kind = kind /\ ~call'["page"].ok
        /\ call'["page"].email = e /\ call'["page"].role = role
    BY <1>0, <2>4 DEF Send, TypeOK
  <2>6. /\ page'.at = page.at /\ page'.rows = page.rows /\ page'.index = page.index
        /\ page'.loaded = page.loaded /\ page'.item.email = e /\ page'.item.role = role
    BY <1>0, <2>4 DEF Page, Row
  <2> SUFFICES ASSUME page.at = "users", ~off'
               PROVE  Dialog' /\ Fetching' /\ Shown'
    BY <2>6 DEF PageInv
  <2>7. ~off /\ (kind = "update" => e = page.rows[page.index].email)
    BY <2>4 DEF Misses
  <2>8. Dialog /\ Fetching /\ Shown
    BY <2>7 DEF PageInv
  <2>9. ~Ahead /\ ~Ahead' /\ users' = users
    BY <1>7, <2>5 DEF Save, Ahead, Waited
  <2> QED
    BY <2>3, <2>5, <2>6, <2>7, <2>8, <2>9 DEF Dialog, Fetching, Shown, Idle
<1>8. CASE Remove
  <2>1. page.token \in Email /\ page.item.id \in Id \cup {NoId} /\ "USER" \in Role
    BY <1>0, <1>8 DEF Remove, TypeOK, Page, Row, Role
  <2>2. PICK at \in {"answer", "check"} :
           Send("page", "delete", page.token, page.item.id, None, "USER", at)
    BY <1>8 DEF Remove
  <2>3. /\ call'["fetch"] = call["fetch"] /\ call'["page"].kind = "delete" /\ ~call'["page"].ok
    BY <1>0, <2>2 DEF Send, TypeOK
  <2>4. ~Ahead /\ ~Ahead' /\ UNCHANGED <<users, page, off>>
    BY <1>8, <2>3 DEF Remove, Ahead, Waited
  <2> QED
    BY <2>3, <2>4 DEF PageInv, Dialog, Fetching, Shown, Idle
<1>9. CASE Answered
  BY <1>9, AnsweredPage
<1> QED
  BY <1>1, <1>2, <1>3, <1>4, <1>5, <1>6, <1>7, <1>8, <1>9

\* Who calls: every action keeps it.
LEMMA CallersStep == ASSUME TypeOK, Callers, Next PROVE Callers'
<1>0. "page" \in Caller /\ "fetch" \in Caller /\ "client" \in Caller
  BY DEF Caller
<1>1. CASE CheckAdmins
  BY <1>1 DEF CheckAdmins, Callers, Waited, Idle
<1>2. CASE CreateAdmin \/ Restart
  <2>1. page' = page /\ (call' = call \/ call' = [c \in Caller |-> None])
    BY <1>2 DEF CreateAdmin, Restart
  <2> QED
    BY <1>0, <2>1 DEF Callers, Waited, Idle
<1>3. ASSUME NEW c \in Caller, Check(c) \/ Read(c) \/ Create(c) \/ Update(c) \/ Delete(c)
      PROVE  Callers'
  <2>1. ~Idle(c) /\ page' = page
    BY <1>3 DEF Check, Read, Create, Update, Delete, At
  <2>2. \/ \E ok \in BOOLEAN : Answer(c, ok)
        \/ \E at \in {"read", "act"} : Goto(c, at)
    BY <1>3 DEF Check, Read, Create, Update, Delete
  <2>3. /\ \A d \in Caller : d # c => call'[d] = call[d]
        /\ call'[c] # None => /\ call'[c].kind = call[c].kind /\ call'[c].email = call[c].email
                              /\ call'[c].shown => call[c].shown
    <3>1. CASE \E ok \in BOOLEAN : Answer(c, ok)
      BY <2>1, <3>1, AnswerCall
    <3>2. CASE \E at \in {"read", "act"} : Goto(c, at)
      BY <2>1, <3>2, GotoCall
    <3> QED
      BY <2>2, <3>1, <3>2
  <2> QED
    BY <1>0, <2>1, <2>3 DEF Callers, Waited, Idle
<1>4. CASE List
  <2>1. page' = page /\ call["fetch"] \in Call /\ ~Idle("fetch")
    BY <1>0, <1>4 DEF List, At, TypeOK, Idle
  <2>2. PICK rows : call' = [call EXCEPT !["fetch"] =
                              [@ EXCEPT !.at = "answer", !.ok = TRUE, !.rows = rows]]
    BY <1>4 DEF List
  <2>3. call'["fetch"].kind = call["fetch"].kind
    BY <1>0, <2>1, <2>2 DEF TypeOK, Call
  <2>4. \A d \in Caller : d # "fetch" => call'[d] = call[d]
    BY <2>2 DEF TypeOK
  <2> QED
    BY <1>0, <2>1, <2>3, <2>4 DEF Callers, Waited, Idle
<1>5. CASE Client
  <2>1. page' = page
    BY <1>5 DEF Client
  <2>2. PICK kind, by, id, email, role : Send("client", kind, by, id, email, role, "act")
    BY <1>5 DEF Client
  <2>3. /\ \A d \in Caller : d # "client" => call'[d] = call[d]
        /\ call'["client"] =
             [kind |-> kind, by |-> by, id |-> id, email |-> email, role |-> role, at |-> "act",
              ok |-> FALSE, shown |-> "client" # "client", rows |-> <<>>]
    BY <1>0, <2>2 DEF Send, TypeOK
  <2>4. ~call'["client"].shown
    <3>1. call'["client"].shown = ("client" # "client")
      BY <2>3
    <3> QED
      BY <3>1
  <2> QED
    BY <1>0, <2>1, <2>3, <2>4 DEF Callers, Waited, Idle
<1>6. CASE Login
  <2>1. call' = call /\ page.at = "home" /\ ~page'.loaded
    BY <1>6 DEF Login, Fresh, TypeOK, Page
  <2> QED
    BY <2>1 DEF Callers, Waited, Idle
<1>7. CASE Leave
  <2>1. ~page'.loaded
    BY <1>7 DEF Leave, Fresh
  <2>2. /\ call'["fetch"] = None /\ call'["client"] = call["client"]
        /\ call'["page"] = IF Idle("page") \/ At("page", "answer") THEN None
                           ELSE [call["page"] EXCEPT !.shown = FALSE]
    BY <1>0, <1>7 DEF Leave, TypeOK
  <2>3. /\ call'["page"] # None => ~Idle("page") /\ ~call'["page"].shown
               /\ call'["page"].kind = call["page"].kind /\ call'["page"].email = call["page"].email
    BY <1>0, <2>2 DEF TypeOK, Call, Idle
  <2> QED
    BY <2>1, <2>2, <2>3 DEF Callers, Waited, Idle
<1>8. CASE OpenUsers
  <2>1. page'.at = "users"
    BY <1>8 DEF OpenUsers, Fresh
  <2>2. /\ \A d \in Caller : d # "fetch" => call'[d] = call[d]
        /\ call'["fetch"].kind = "list"
    BY <1>0, <1>8 DEF OpenUsers, Send, TypeOK
  <2> QED
    BY <1>0, <2>1, <2>2 DEF Callers, Waited, Idle
<1>9. CASE Fetched
  <2>1. /\ call'["fetch"] = None /\ call'["page"] = call["page"] /\ call'["client"] = call["client"]
        /\ ~Idle("fetch")
    BY <1>0, <1>9 DEF Fetched, TypeOK, At
  <2>2. page'.at = page.at
    BY <1>9 DEF Fetched, TypeOK, Page
  <2> QED
    BY <2>1, <2>2 DEF Callers, Waited, Idle
<1>10. CASE Pick \/ New \/ Cancel \/ Hide
  <2>1. call' = call /\ page.at = "users"
    BY <1>10 DEF Pick, New, Cancel, Hide, Touch, TypeOK, Page
  <2>2. page'.at = "users"
    <3>1. PICK p : Touch(p) /\ p.at = "users" /\ p \in Page
      <4>1. CASE Pick
        <5>1. PICK i \in 1 .. Len(page.rows), dialog \in {"edit", "delete"} :
                 Touch([page EXCEPT !.index = i, !.item = page.rows[i], !.dialog = dialog])
          BY <4>1 DEF Pick
        <5>2. page \in Page /\ page.rows \in Seq(Row) /\ page.rows[i] \in Row /\ i \in Nat
          BY ElementOfSeq DEF TypeOK, Page
        <5>3. /\ [page EXCEPT !.index = i, !.item = page.rows[i], !.dialog = dialog] \in Page
              /\ [page EXCEPT !.index = i, !.item = page.rows[i], !.dialog = dialog].at = "users"
          BY <2>1, <5>2 DEF Page
        <5> QED
          BY <5>1, <5>3
      <4>2. CASE New \/ Hide
        <5>1. PICK dialog \in {"edit", "none"} : Touch([page EXCEPT !.dialog = dialog])
          BY <4>2 DEF New, Hide
        <5>2. [page EXCEPT !.dialog = dialog] \in Page /\ [page EXCEPT !.dialog = dialog].at = "users"
          BY <2>1 DEF TypeOK, Page
        <5> QED
          BY <5>1, <5>2
      <4>3. CASE Cancel
        BY <2>1, <4>3, ClosedType DEF Cancel, TypeOK
      <4> QED
        BY <1>10, <4>1, <4>2, <4>3
    <3> QED
      BY <3>1 DEF Touch, Page
  <2> QED
    BY <2>1, <2>2 DEF Callers, Waited, Idle
<1>11. CASE Save \/ Remove
  <2>1. page.at = "users" /\ page'.at = page.at
    BY <1>11 DEF Save, Remove, TypeOK, Page
  <2>2. PICK kind, id, by, email, role, at :
           /\ kind \in {"create", "update", "delete"}
           /\ Send("page", kind, by, id, email, role, at)
           /\ kind = "delete" => email = None
    <3>1. CASE Save
      <4>1. PICK e \in Email, role \in Role :
              LET kind == IF page.index = 0 THEN "create" ELSE "update"
                  lost == kind = "update" /\ page.item.id = NoId
              IN  Send("page", kind, page.token, page.item.id, e, role,
                       IF lost THEN "answer" ELSE "check")
        BY <3>1 DEF Save
      <4> QED
        BY <4>1
    <3>2. CASE Remove
      BY <3>2 DEF Remove
    <3> QED
      BY <1>11, <3>1, <3>2
  <2>3. /\ \A d \in Caller : d # "page" => call'[d] = call[d]
        /\ call'["page"].kind = kind /\ call'["page"].email = email
    BY <1>0, <2>2 DEF Send, TypeOK
  <2> QED
    BY <1>0, <2>1, <2>2, <2>3 DEF Callers, Waited, Idle
<1>12. CASE Answered
  <2>1. /\ call'["page"] = None /\ call'["fetch"] = call["fetch"] /\ call'["client"] = call["client"]
        /\ ~Idle("page")
    BY <1>0, <1>12 DEF Answered, TypeOK, At
  <2>2. page'.at = page.at /\ page'.loaded = page.loaded
    <3>1. \/ page' = [page EXCEPT !.item = Untyped(@)]
          \/ page' = Closed([page EXCEPT !.rows = Append(@, page.item)])
          \/ page' = Closed([page EXCEPT !.rows[page.index] = page.item])
          \/ page' = [page EXCEPT !.rows = Spliced(@, page.index),
                                  !.dialog = IF @ = "delete" THEN "none" ELSE @]
      BY <1>12 DEF Answered
    <3> QED
      BY <3>1 DEF TypeOK, Page, Closed
  <2> QED
    BY <2>1, <2>2 DEF Callers, Waited, Idle
<1> QED
  BY <1>1, <1>2, <1>3, <1>4, <1>5, <1>6, <1>7, <1>8, <1>9, <1>10, <1>11, <1>12 DEF Next

\* The users page shows the accounts there are, each once, whatever its requests
\* met on the way, unless one that changed nothing was answered "successfully", the
\* dialog moved on under it, or another caller or a restart came in between
\* (UsersView.vue, userRoutes.ts).
THEOREM PageShowsTheAccounts == Spec => []PageKnown
<1>1. Init => Callers /\ PageInv
  BY DEF Init, Fresh, Callers, PageInv, Idle, Waited, Caller
<1>2. TypeOK /\ TypeOK' /\ Callers /\ PageInv /\ [Next]_vars => Callers' /\ PageInv'
  <2>1. CASE UNCHANGED vars
    BY <2>1 DEF vars, Callers, PageInv, Dialog, Fetching, Shown, Amended, Waited, Ahead, Idle
  <2>2. ASSUME TypeOK, TypeOK', Callers, PageInv, Next
        PROVE  PageInv'
    BY <2>2, RoutesPage, ServerPage, AppPage DEF Next
  <2> QED
    BY <2>1, <2>2, CallersStep
<1>3. TypeOK /\ Callers /\ PageInv => PageKnown
  <2> SUFFICES ASSUME TypeOK, Callers, PageInv, page.loaded, ~off, Idle("page"), Idle("fetch")
               PROVE  /\ {[email |-> page.rows[i].email, role |-> page.rows[i].role] :
                             i \in 1 .. Len(page.rows)}
                           = {[email |-> e, role |-> users[e].role] :
                                e \in {f \in Email : users[f] # None}}
                      /\ \A i, j \in 1 .. Len(page.rows) :
                            page.rows[i].email = page.rows[j].email => i = j
    BY DEF PageKnown
  <2>1. page.at = "users"
    BY DEF Callers, TypeOK, Page
  <2>2. ~Ahead
    BY DEF Ahead, Waited
  <2>3. Showing(users, page.rows)
    BY <2>1, <2>2 DEF PageInv, Shown
  <2> QED
    BY <2>3, ShowingIsEqual
<1> QED
  BY <1>1, <1>2, <1>3, Typing, PTL DEF Spec
=============================================================================

------------------------------ MODULE Accounts ------------------------------
(***************************************************************************)
(* The accounts of the server: the users table, the routes of /api/users   *)
(* behind the admin middleware, the start of the server, which makes an    *)
(* initial administrator when there is none, and the users page of the     *)
(* admin app.  "client" stands for every other administrator, who calls    *)
(* the documented routes.  A step ends at an await, so requests interleave *)
(* between the check of a token, the reads and the write they lead to.     *)
(*                                                                         *)
(* Passwords are left out: a login succeeds for an account that is there.  *)
(***************************************************************************)
EXTENDS Naturals, Sequences, FiniteSets

CONSTANTS
    Email,       \* what accounts are named by
    AdminEmail,  \* ADMIN_EMAIL, of the initial administrator
    None,
    MaxId,       \* bound: how many ids the table gives out
    MaxEvents    \* bound: how many requests of the client, or restarts, there are

ASSUME AccountsAssumption ==
    /\ IsFiniteSet(Email) /\ AdminEmail \in Email
    /\ None \notin Email \cup [id : Nat, role : {"ADMIN", "USER"}]
    /\ MaxId \in Nat \ {0} /\ MaxEvents \in Nat

VARIABLES
    users,       \* users[e]: the row whose email is e
    nextId,      \* the SERIAL of the table
    server,      \* how far the server is with its start
    page,        \* the users page of the admin app
    call,        \* requests: of the page, its fetch of the list, of the client
    events,      \* requests of the client, and restarts
    lastGone,    \* history: since the start an accepted request took the last administrator
    off          \* history: something this users page does not account for (see Misses)

vars == <<users, nextId, server, page, call, events, lastGone, off>>

Role == {"ADMIN", "USER"}
Id == 1 .. MaxId
NoId == 0                                \* the page's ''
User == [id : Id, role : Role]
Row == [id : Id \cup {NoId}, email : Email \cup {None}, role : Role]
Caller == {"page", "fetch", "client"}
Call == [kind : {"list", "create", "update", "delete"}, by : Email, id : Id \cup {NoId},
         email : Email \cup {None}, role : Role,
         at : {"check", "read", "act", "answer"}, ok : BOOLEAN, shown : BOOLEAN, rows : Seq(Row)]

ASSUME NoneIsNoCall == None \notin Call

Page == [token : Email \cup {None}, at : {"home", "users"}, rows : Seq(Row), loaded : BOOLEAN,
         index : Nat, item : Row, dialog : {"none", "edit", "delete"}]

\* The state of UsersView when it is created; index 0 is editedIndex -1.
Blank == [id |-> NoId, email |-> None, role |-> "USER"]
Fresh(token) ==
    [token |-> token, at |-> "home", rows |-> <<>>, loaded |-> FALSE,
     index |-> 0, item |-> Blank, dialog |-> "none"]

Idle(c) == call[c] = None
Misses(what) == off' = (page.at = "users" /\ (off \/ what))
Serving == server \in {"starting", "creating", "up"}

\* Mutant: any account with the address of the initial administrator will do.
HasAdmin_Initial(table) == table[AdminEmail] # None

\* hasAtLeastOneAdmin
HasAdmin(table) == \E e \in Email : table[e] # None /\ table[e].role = "ADMIN"

TypeOK ==
    /\ users \in [Email -> User \cup {None}]
    /\ nextId \in 1 .. MaxId + 1
    /\ server \in {"starting", "creating", "up", "failed"}
    /\ page \in Page
    /\ call \in [Caller -> Call \cup {None}]
    /\ events \in 0 .. MaxEvents
    /\ \A e \in Email : users[e] # None => users[e].id < nextId
    /\ \A e, f \in Email : e # f /\ None \notin {users[e], users[f]} => users[e].id # users[f].id
    /\ page.at = "users" => page.token # None
    /\ page.at = "home" => page.dialog = "none"
    /\ page.dialog = "delete" => page.index # 0

Init ==
    /\ users = [e \in Email |-> None]
    /\ nextId = 1
    /\ server = "starting"
    /\ page = Fresh(None)
    /\ call = [c \in Caller |-> None]
    /\ events = 0
    /\ lastGone = FALSE /\ off = FALSE

-----------------------------------------------------------------------------
(* run(): the server listens, looks for an administrator, and makes one.   *)

CheckAdmins ==
    /\ server = "starting"
    /\ server' = IF HasAdmin(users) THEN "up" ELSE "creating"
    /\ UNCHANGED <<users, nextId, page, call, events, lastGone, off>>

\* Mutant: ids are counted, not drawn from a sequence.
Insert_Counted(e, role) ==
    /\ nextId <= MaxId /\ nextId' = nextId + 1
    /\ users' = [users EXCEPT ![e] =
          [id |-> 1 + Cardinality({f \in Email : users[f] # None}), role |-> role]]

\* saveUser, for a new email: the UNIQUE constraint.  (The ids a failed INSERT
\* uses up are seen nowhere.)
Insert(e, role) ==
    /\ nextId <= MaxId /\ nextId' = nextId + 1
    /\ users' = [users EXCEPT ![e] = [id |-> nextId, role |-> role]]

\* The INSERT of the initial administrator; when the address is taken, the
\* error of run() is an unhandled rejection, and the process exits.
CreateAdmin ==
    /\ server = "creating"
    /\ IF users[AdminEmail] = None
       THEN Insert(AdminEmail, "ADMIN") /\ server' = "up"
            /\ UNCHANGED call
       ELSE server' = "failed" /\ call' = [c \in Caller |-> None] /\ UNCHANGED <<users, nextId>>
    /\ Misses(TRUE)
    /\ UNCHANGED <<page, events, lastGone>>

\* The server stops and starts again.  The requests it works on are lost, and with
\* them the answers that are still on their way.
Restart ==
    /\ events < MaxEvents /\ events' = events + 1
    /\ server' = "starting" /\ lastGone' = FALSE
    /\ call' = [c \in Caller |-> None]
    /\ Misses(~Idle("page"))
    /\ UNCHANGED <<users, nextId, page>>

-----------------------------------------------------------------------------
(* The routes: createAuthAdminMiddleware, then the handler.                *)

Send(c, kind, by, id, email, role, at) ==
    call' = [call EXCEPT ![c] = [kind |-> kind, by |-> by, id |-> id, email |-> email,
        role |-> role, at |-> at, ok |-> FALSE, shown |-> c # "client", rows |-> <<>>]]

Goto(c, at) == call' = [call EXCEPT ![c].at = at]
Answer(c, ok) ==
    call' = [call EXCEPT ![c] = IF @.shown THEN [@ EXCEPT !.at = "answer", !.ok = ok] ELSE None]
At(c, at) == ~Idle(c) /\ call[c].at = at

\* Whether the account that has the email of the token by now may go on.
Admin(e) == users[e] # None /\ users[e].role = "ADMIN"

Somebody == \E e \in Email : Admin(e)

Check(c) ==
    /\ Serving /\ At(c, "check")
    /\ IF Admin(call[c].by)
       THEN Goto(c, IF call[c].kind = "update" THEN "read" ELSE "act")
       ELSE Answer(c, FALSE)
    /\ UNCHANGED <<users, nextId, server, page, events, lastGone, off>>

\* getUserById, of PUT /:id
Read(c) ==
    /\ Serving /\ At(c, "read")
    /\ IF \E e \in Email : users[e] # None /\ users[e].id = call[c].id
       THEN Goto(c, "act") ELSE Answer(c, FALSE)
    /\ UNCHANGED <<users, nextId, server, page, events, lastGone, off>>

\* What a write leaves behind: whether the last administrator went, and whether
\* the page cannot know of it.
Unaccounted(c) ==
    IF users' = users THEN c = "page" /\ call[c].shown /\ call'[c].ok
    ELSE ~call[c].shown \/ ~Idle("fetch")
Record(c) ==
    /\ lastGone' = (lastGone \/ (Somebody /\ ~Somebody'))
    /\ Misses(Unaccounted(c))

\* POST /
Create(c) ==
    /\ Serving /\ At(c, "act") /\ call[c].kind = "create"
    /\ IF users[call[c].email] = None
       THEN Insert(call[c].email, call[c].role) /\ Answer(c, TRUE)
       ELSE Answer(c, FALSE) /\ UNCHANGED <<users, nextId>>
    /\ Record(c)
    /\ UNCHANGED <<server, page, events>>

\* Mutant: UPDATE ... WHERE id = $1
Updated_ById(q) ==
    [e \in Email |-> IF users[e] # None /\ users[e].id = q.id
                     THEN [users[e] EXCEPT !.role = q.role] ELSE users[e]]

\* UPDATE ... WHERE id = $1 AND email = $2
Updated(q) ==
    [e \in Email |-> IF e = q.email /\ users[e] # None /\ users[e].id = q.id
                     THEN [users[e] EXCEPT !.role = q.role] ELSE users[e]]

\* PUT /:id succeeds whether a row matched or not,
Update(c) ==
    /\ Serving /\ At(c, "act") /\ call[c].kind = "update"
    /\ users' = Updated(call[c])
    /\ Answer(c, TRUE)
    /\ Record(c)
    /\ UNCHANGED <<nextId, server, page, events>>

\* DELETE ... WHERE email = $1
Deleted(email) == [e \in Email |-> IF e = email THEN None ELSE users[e]]

\* and so does DELETE /:email, of which the page sends the id in its place.
Delete(c) ==
    /\ Serving /\ At(c, "act") /\ call[c].kind = "delete"
    /\ users' = Deleted(call[c].email)
    /\ Answer(c, TRUE)
    /\ Record(c)
    /\ UNCHANGED <<nextId, server, page, events>>

Listing(e) == [id |-> users[e].id, email |-> e, role |-> users[e].role]

\* GET /: all rows.  Their order decides nothing; here it is that of the ids.
List ==
    /\ Serving /\ At("fetch", "act")
    /\ LET Listed == {e \in Email : users[e] # None}
       IN  \E order \in [1 .. Cardinality(Listed) -> Listed] :
              /\ \A i, j \in DOMAIN order : i < j => users[order[i]].id < users[order[j]].id
              /\ call' = [call EXCEPT !["fetch"] =
                    [@ EXCEPT !.at = "answer", !.ok = TRUE,
                              !.rows = [i \in DOMAIN order |-> Listing(order[i])]]]
    /\ UNCHANGED <<users, nextId, server, page, events, lastGone, off>>

\* Another administrator, from a script or an API client that knows the accounts:
\* a request that has passed the check (whose token it had decides nothing any
\* more), and the read of an update.
Client ==
    /\ Serving /\ Idle("client")
    /\ events < MaxEvents /\ events' = events + 1
    /\ \E by \in Email : Admin(by)
    /\ \E e \in Email, role \in Role :
          \/ users[e] = None /\ Send("client", "create", e, NoId, e, role, "act")
          \/ users[e] # None /\ Send("client", "update", e, users[e].id, e, role, "act")
          \/ users[e] # None /\ Send("client", "delete", e, NoId, e, "USER", "act")
    /\ UNCHANGED <<users, nextId, server, page, lastGone, off>>

-----------------------------------------------------------------------------
(* The admin app: login, and the users page.                               *)

\* POST /login; the page goes on to the home view.
Login ==
    /\ Serving /\ page.token = None
    /\ \E e \in Email : users[e] # None /\ page' = Fresh(e)
    /\ UNCHANGED <<users, nextId, server, call, events, lastGone, off>>

\* The view is left, or the user logs out: nobody shows the answers any more.
Leave ==
    /\ page.at = "users"
    /\ \E token \in {page.token, None} : page' = Fresh(token)
    /\ call' = [call EXCEPT !["fetch"] = None,
                  !["page"] = IF Idle("page") \/ At("page", "answer") THEN None
                               ELSE [@ EXCEPT !.shown = FALSE]]
    /\ off' = FALSE
    /\ UNCHANGED <<users, nextId, server, events, lastGone>>

\* The view is mounted, and fetches the accounts.
OpenUsers ==
    /\ Serving /\ page.at = "home" /\ page.token # None
    /\ page' = [Fresh(page.token) EXCEPT !.at = "users"]
    /\ Send("fetch", "list", page.token, NoId, None, "USER", "check")
    /\ off' = FALSE
    /\ UNCHANGED <<users, nextId, server, events, lastGone>>

Fetched ==
    /\ At("fetch", "answer")
    /\ page' = IF call["fetch"].ok
               THEN [page EXCEPT !.rows = call["fetch"].rows, !.loaded = TRUE] ELSE page
    /\ call' = [call EXCEPT !["fetch"] = None]
    /\ UNCHANGED <<users, nextId, server, events, lastGone, off>>

\* The user may close a dialog while its request is under way, and open another
\* (but is not followed while the server is down).  What a dialog holds, but for
\* the id, is typed over before the next request.
Untyped(item) == [Blank EXCEPT !.id = item.id]
Touch(p) ==
    /\ Serving
    /\ page' = IF Idle("page") THEN [p EXCEPT !.item = Untyped(@)] ELSE p
    /\ off' = (off \/ ~Idle("page"))
    /\ UNCHANGED <<users, nextId, server, call, events, lastGone>>

\* editUser and confirmDelete remember the row,
Pick ==
    /\ page.at = "users" /\ page.dialog = "none"
    /\ \E i \in 1 .. Len(page.rows), dialog \in {"edit", "delete"} :
          Touch([page EXCEPT !.index = i, !.item = page.rows[i], !.dialog = dialog])

\* "Create User" forgets nothing of it,
New ==
    /\ page.at = "users" /\ page.dialog = "none"
    /\ Touch([page EXCEPT !.dialog = "edit"])

\* closeDialog all but the id.
Closed(p) == [p EXCEPT !.index = 0, !.dialog = "none", !.item = Untyped(@)]
Cancel == page.dialog = "edit" /\ Touch(Closed(page))

\* A click beside a dialog, or on the Cancel of the delete dialog, only hides it.
Hide == page.dialog # "none" /\ Touch([page EXCEPT !.dialog = "none"])

\* saveUser: an update if a row is remembered.  Without an id there is no route.
Save ==
    /\ Serving /\ page.dialog = "edit" /\ Idle("page")
    /\ \E e \in Email, role \in Role :
          LET kind == IF page.index = 0 THEN "create" ELSE "update"
              lost == kind = "update" /\ page.item.id = NoId
          IN  /\ page' = [page EXCEPT !.item = [@ EXCEPT !.email = e, !.role = role]]
              /\ Misses(kind = "update" /\ e # page.rows[page.index].email)
              /\ Send("page", kind, page.token, page.item.id, e, role,
                      IF lost THEN "answer" ELSE "check")
    /\ UNCHANGED <<users, nextId, server, events, lastGone>>

\* deleteUser
Remove ==
    /\ Serving /\ page.dialog = "delete" /\ Idle("page")
    /\ Send("page", "delete", page.token, page.item.id, None, "USER",
            IF page.item.id = NoId THEN "answer" ELSE "check")
    /\ UNCHANGED <<users, nextId, server, page, events, lastGone, off>>

\* Mutant: the page shows what it has sent, whatever the answer is.
Takes_Failed(q) == q.shown

\* After an error the page stays as it is.
Takes(q) == q.shown /\ q.ok

\* Array.splice(editedIndex, 1), where -1 is the last element.
Spliced(s, index) ==
    LET gone == IF index = 0 THEN Len(s) ELSE index
    IN  [i \in 1 .. Len(s) - (IF gone \in 1 .. Len(s) THEN 1 ELSE 0) |->
            IF i < gone THEN s[i] ELSE s[i + 1]]

\* The answer to the page's request.  An update of a row that is not there any
\* more throws, and leaves the dialog open.
Answered ==
    LET q == call["page"]
    IN  /\ At("page", "answer")
        /\ call' = [call EXCEPT !["page"] = None]
        /\ page' = IF ~Takes(q) THEN [page EXCEPT !.item = Untyped(@)]
                   ELSE CASE q.kind = "create" ->
                               Closed([page EXCEPT !.rows = Append(@, page.item)])
                          [] q.kind = "update" ->
                               IF page.index \in 1 .. Len(page.rows)
                               THEN Closed([page EXCEPT !.rows[page.index] = page.item])
                               ELSE [page EXCEPT !.item = Untyped(@)]
                          [] OTHER ->  \* "delete"
                               [page EXCEPT !.rows = Spliced(@, page.index),
                                            !.dialog = IF @ = "delete" THEN "none" ELSE @]
        /\ UNCHANGED <<users, nextId, server, events, lastGone, off>>

-----------------------------------------------------------------------------
Next ==
    \/ CheckAdmins \/ CreateAdmin \/ Restart
    \/ \E c \in Caller : Check(c) \/ Read(c) \/ Create(c) \/ Update(c) \/ Delete(c)
    \/ List \/ Client
    \/ Login \/ Leave \/ OpenUsers \/ Fetched
    \/ Pick \/ New \/ Cancel \/ Hide \/ Save \/ Remove \/ Answered

Spec == Init /\ [][Next]_vars

-----------------------------------------------------------------------------
\* An account is made, changed or deleted only by a request that names its
\* email, or as the initial administrator: the page keeps ids of other rows and
\* of rows that are gone, and sends them with the email of this one.
OthersKept ==
    [][\A e \in Email : users'[e] # users[e] =>
          \/ e = AdminEmail /\ server = "creating"
          \/ \E c \in Caller : At(c, "act") /\ call[c].email = e /\ call'[c] # call[c]]_vars

\* A server that has started has an administrator, unless an accepted request
\* took the last one since; unless one did, it fails to start only when nobody is
\* an administrator and the address of the initial one has another role.
AdminsKnown ==
    lastGone \/
        /\ server = "up" => Somebody
        /\ server = "failed" => users[AdminEmail] # None /\ ~Somebody

\* The page shows the accounts there are, unless a request of the page that
\* changed nothing was answered "successfully", the dialog moved on while a
\* request ran, or another caller or a restart came in between.
PageKnown ==
    page.loaded /\ ~off /\ Idle("page") /\ Idle("fetch") =>
        /\ {[email |-> page.rows[i].email, role |-> page.rows[i].role] : i \in 1 .. Len(page.rows)}
             = {[email |-> e, role |-> users[e].role] : e \in {f \in Email : users[f] # None}}
        /\ \A i, j \in 1 .. Len(page.rows) :
              page.rows[i].email = page.rows[j].email => i = j
=============================================================================

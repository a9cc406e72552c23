----------------------------- MODULE AccountsMC -----------------------------
(* The accounts of two addresses, one of them ADMIN_EMAIL, for TLC. *)
EXTENDS Accounts

CONSTANTS root, ann

\* What TLC tells states apart by: once `off` is set, and until the view is left,
\* nothing reads which addresses and roles the rows and the dialog show, nor
\* whether the list has arrived.
Ids(rows) == [i \in 1 .. Len(rows) |-> rows[i].id]
Shown ==
    IF off
    THEN <<[page EXCEPT !.rows = Ids(@), !.item = @.id, !.loaded = TRUE],
           IF Idle("fetch") THEN call ELSE [call EXCEPT !["fetch"].rows = Ids(@)]>>
    ELSE <<page, call>>
Seen == <<users, nextId, server, Shown, events, lastGone, off>>
=============================================================================

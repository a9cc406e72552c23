------------------------------ MODULE EventLog ------------------------------
(***************************************************************************)
(* What event replication promises, without cursors, chunks, pages, retries*)
(* or failures: every replica has a log of events that only grows, events  *)
(* travel between devices by way of the server, one at a time, and a       *)
(* replica applies an event of its log once at the most.                   *)
(***************************************************************************)
CONSTANTS Device, Server, Event, Home

VARIABLES log, applied

Replica == Device \cup {Server}

Init ==
    /\ log = [r \in Replica |-> {}]
    /\ applied = [r \in Replica |-> {}]

\* r stores an event that it did not have.
Store(r, e) ==
    /\ e \notin log[r]
    /\ log' = [log EXCEPT ![r] = @ \cup {e}]
    /\ UNCHANGED applied

\* A user's event enters the system at home,
Write(e) == Store(Home[e], e)

\* goes up from the device that wrote it,
Upload(e) == Home[e] \in Device /\ e \in log[Home[e]] /\ Store(Server, e)

\* and down to any device.
Download(d, e) == e \in log[Server] /\ Store(d, e)

\* submitForm comes to its end.
Apply(r, e) ==
    /\ e \in log[r] \ applied[r]
    /\ applied' = [applied EXCEPT ![r] = @ \cup {e}]
    /\ UNCHANGED log

Next ==
    \E e \in Event :
        \/ Write(e)
        \/ Upload(e)
        \/ \E d \in Device : Download(d, e)
        \/ \E r \in Replica : Apply(r, e)

Spec == Init /\ [][Next]_<<log, applied>>
=============================================================================

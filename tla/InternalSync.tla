---------------------------- MODULE InternalSync ----------------------------
(***************************************************************************)
(* Event replication between the devices of a DataCollect deployment and   *)
(* its sync server: InternalSyncManager (device) and routes/syncRoute.ts   *)
(* (server), over the event stores they read and write.                    *)
(*                                                                         *)
(* A replica (a device or the server) keeps the log of form submissions    *)
(* ("events") it has stored and applies each to its entities.  A device    *)
(* uploads the events written after its local cursor in chunks, each chunk *)
(* one POST with up to MaxAttempts attempts, and then downloads, page by   *)
(* page, what the server stored with a timestamp above its remote cursor.  *)
(*                                                                         *)
(* Covered: forms submitted while a sync runs; POST handlers that overlap  *)
(* because the connection broke and the device retried; lost requests and  *)
(* lost responses; errors in a store; crash and restart of a device or of  *)
(* the server between any two awaits; equal timestamps; the gate that      *)
(* potential duplicates put before a sync and before a pull.               *)
(*                                                                         *)
(* Abstracted: what an event does to the entities ("applied" means that    *)
(* submitForm ran to its end, see EntityApply for what it does there), the *)
(* Merkle root saved next to an event, and clocks: all replicas read one.  *)
(***************************************************************************)
EXTENDS Naturals, FiniteSets

CONSTANTS
    Device,       \* devices that run a sync manager
    Server,       \* the sync server
    Slot,         \* POST /push handlers the server can have in flight
    Event,        \* form submissions that may ever be written
    Home,         \* Home[e]: the replica whose user writes e
    Flags,        \* events whose application may flag a potential duplicate
    Settles,      \* Settles[e]: flags that e clears (a resolve-duplicate form)
    NoEvent,      \* "no submitForm call under way"
    NoSlot,       \* "no open connection"
    ChunkSize,    \* events per POST (10 in the code)
    PageSize,     \* events per GET (10 in the code)
    MaxAttempts,  \* attempts per POST (3 in the code)
    FaultKinds,   \* the faults the environment may cause, among "net", "auth",
                  \* "device" and "server" (a step there throws), "crash"
    MaxFaults,    \* bound: how many faults a behaviour may have
    MaxClock      \* bound: where the clock stops

Replica == Device \cup {Server}
Worker  == Device \cup Slot      \* whoever submits a list of events, in order

ASSUME SetAssumption ==
    /\ Server \notin Device
    /\ Slot \cap Replica = {}
    /\ NoSlot \notin Slot
    /\ NoEvent \notin Event
    /\ IsFiniteSet(Event)

ASSUME EventAssumption ==
    /\ Home \in [Event -> Replica]
    /\ Flags \subseteq Event
    /\ Settles \in [Event -> SUBSET Event]

ASSUME BoundAssumption ==
    /\ ChunkSize \in Nat \ {0}
    /\ PageSize \in Nat \ {0}
    /\ MaxAttempts \in Nat \ {0}
    /\ MaxFaults \in Nat
    /\ MaxClock \in Nat \ {0}

VARIABLES
    clock,         \* the time, in the unit two timestamps can differ by
    stamp,         \* stamp[e]: timestamp of the form, 0 while it is not filled in
    log,           \* log[r]: events in the event store of r
    applied,       \* applied[r]: events whose submitForm finished on r
    writing,       \* writing[r]: forms of r's own user, stored, not applied yet
    dups,          \* dups[r]: events with an unresolved potential duplicate on r
    pc,            \* pc[d]: where the sync of d stands
    batch,         \* batch[d]: events read for upload and not yet confirmed
    chunk,         \* chunk[d]: the part of batch[d] in the current POST
    sent,          \* sent[d]: events of the chunks confirmed so far
    attempt,       \* attempt[d]: attempts made for the current chunk
    conn,          \* conn[d]: handler at the other end of d's open POST
    next,          \* next[d]: nextCursor of the download loop
    more,          \* devices whose last page came with a nextCursor
    good,          \* good[d]: lastSuccessfulTimestamp, 0 for null
    localCursor,   \* lastLocalSyncTimestamp, 0 for ""
    remoteCursor,  \* lastRemoteSyncTimestamp, 0 for ""
    remote,        \* remote[d]: events of d whose syncLevel is REMOTE
    busy,          \* handlers in use
    todo,          \* todo[w]: events w has still to submit
    cur,           \* cur[w]: the event w has stored and is applying
    faults,        \* faults so far
    raced,         \* history: own events stored too late for the upload list
    late,          \* history: late[d], stored on the server behind d's cursor
    dropped,       \* history: events a handler failed to store and dropped
    torn           \* history: torn[d], downloaded and stored, then not applied

clockVars   == <<clock, stamp>>
storeVars   == <<log, applied, dups>>
uploadVars  == <<batch, chunk, sent, attempt, conn>>
pageVars    == <<next, more, good>>
cursorVars  == <<localCursor, remoteCursor, remote>>
workerVars  == <<todo, cur>>
historyVars == <<raced, late, dropped, torn>>
vars == <<clockVars, storeVars, writing, pc, uploadVars, pageVars, cursorVars,
          busy, workerVars, faults, historyVars>>

Time == 0 .. MaxClock
\* Steps of an upload after it has read its list; "salvage" and "reset" are the
\* two of the catch block.
Uploading == {"push", "await", "mark", "cursor", "salvage", "reset"}
PC == {"idle", "check", "fetch", "pull", "page"} \cup Uploading

TypeOK ==
    /\ clock \in 1 .. MaxClock
    /\ stamp \in [Event -> Time]
    /\ log \in [Replica -> SUBSET Event]
    /\ applied \in [Replica -> SUBSET Event]
    /\ writing \in [Replica -> SUBSET Event]
    /\ dups \in [Replica -> SUBSET Event]
    /\ pc \in [Device -> PC]
    /\ batch \in [Device -> SUBSET Event]
    /\ chunk \in [Device -> SUBSET Event]
    /\ sent \in [Device -> SUBSET Event]
    /\ attempt \in [Device -> 0 .. MaxAttempts]
    /\ conn \in [Device -> Slot \cup {NoSlot}]
    /\ next \in [Device -> Time]
    /\ more \in SUBSET Device
    /\ good \in [Device -> Time]
    /\ localCursor \in [Device -> Time]
    /\ remoteCursor \in [Device -> Time]
    /\ remote \in [Device -> SUBSET Event]
    /\ busy \in SUBSET Slot
    /\ todo \in [Worker -> SUBSET Event]
    /\ cur \in [Worker -> Event \cup {NoEvent}]
    /\ faults \in 0 .. MaxFaults
    /\ raced \in SUBSET Event
    /\ late \in [Device -> SUBSET Event]
    /\ dropped \in SUBSET Event
    /\ torn \in [Device -> SUBSET Event]

Init ==
    /\ clock = 1
    /\ stamp = [e \in Event |-> 0]
    /\ log = [r \in Replica |-> {}]
    /\ applied = [r \in Replica |-> {}]
    /\ writing = [r \in Replica |-> {}]
    /\ dups = [r \in Replica |-> {}]
    /\ pc = [d \in Device |-> "idle"]
    /\ batch = [d \in Device |-> {}]
    /\ chunk = [d \in Device |-> {}]
    /\ sent = [d \in Device |-> {}]
    /\ attempt = [d \in Device |-> 0]
    /\ conn = [d \in Device |-> NoSlot]
    /\ next = [d \in Device |-> 0]
    /\ more = {}
    /\ good = [d \in Device |-> 0]
    /\ localCursor = [d \in Device |-> 0]
    /\ remoteCursor = [d \in Device |-> 0]
    /\ remote = [d \in Device |-> {}]
    /\ busy = {}
    /\ todo = [w \in Worker |-> {}]
    /\ cur = [w \in Worker |-> NoEvent]
    /\ faults = 0
    /\ raced = {}
    /\ late = [d \in Device |-> {}]
    /\ dropped = {}
    /\ torn = [d \in Device |-> {}]

-----------------------------------------------------------------------------
(* Helpers.  An operator named Name_Change, here and below, is Name with a *)
(* plausible mistake in it; no specification uses one.                      *)

\* One fault of the given kind happens, within the bound.
Fault(kind) ==
    /\ kind \in FaultKinds
    /\ faults < MaxFaults
    /\ faults' = faults + 1

\* e is one of the oldest of S.
Oldest(e, S) == e \in S /\ \A f \in S : stamp[e] <= stamp[f]

\* The guid of e is taken in the store of r.
Exists_Never(e, r) == FALSE
Exists(e, r) == e \in log[r]

\* part is what "ORDER BY timestamp LIMIT n", or the first slice of n events,
\* takes from S; among equal timestamps the order is not specified.
IsFirst_Unordered(part, S, n) ==
    part \subseteq S /\ Cardinality(part) <= n /\ (Cardinality(part) < n => part = S)
IsFirst(part, S, n) ==
    /\ part \subseteq S
    /\ Cardinality(part) <= n
    /\ Cardinality(part) < n => part = S
    /\ \A e \in part, f \in S \ part : stamp[e] <= stamp[f]

\* Events of the log of r with a timestamp above a cursor.
EventsSince_Inclusive(r, cursor) == {e \in log[r] : stamp[e] >= cursor}
EventsSince_Unstored(r, cursor) ==
    {e \in Event : (e \in log[r] \/ Home[e] = r) /\ stamp[e] > cursor}
EventsSince(r, cursor) == {e \in log[r] : stamp[e] > cursor}

\* How far the download of d has looked at the server's log.
Reach(d) == IF pc[d] \in {"pull", "page"} THEN next[d] ELSE remoteCursor[d]

\* The server's event table gains e.
ServerGains(e) ==
    /\ log' = [log EXCEPT ![Server] = @ \cup {e}]
    /\ late' = [d \in Device |->
                  IF stamp[e] <= Reach(d) THEN late[d] \cup {e} ELSE late[d]]

\* The rest of submitForm after the event was stored: the entities change, and
\* a potential duplicate may be flagged or resolved.
Finish(r, e) ==
    /\ applied' = [applied EXCEPT ![r] = @ \cup {e}]
    /\ \E f \in SUBSET ({e} \cap Flags) :
         dups' = [dups EXCEPT ![r] = (@ \cup f) \ Settles[e]]

-----------------------------------------------------------------------------
(* Forms submitted by a replica's own user *)

Tick ==
    /\ clock < MaxClock
    /\ clock' = clock + 1
    /\ UNCHANGED <<stamp, storeVars, writing, pc, uploadVars, pageVars, cursorVars,
                   busy, workerVars, faults, historyVars>>

\* The user confirms a form: it gets its timestamp and submitForm is called.
Fill(e) ==
    /\ stamp[e] = 0
    /\ stamp' = [stamp EXCEPT ![e] = clock]
    /\ UNCHANGED <<clock, storeVars, writing, pc, uploadVars, pageVars, cursorVars,
                   busy, workerVars, faults, historyVars>>

\* submitForm stores the event.  The upload misses an event stored after the
\* list was read, or behind the cursor.
StoreOwn(e) ==
    LET r == Home[e] IN
    /\ stamp[e] > 0
    /\ ~Exists(e, r)
    /\ writing' = [writing EXCEPT ![r] = @ \cup {e}]
    /\ IF r = Server
       THEN ServerGains(e) /\ UNCHANGED raced
       ELSE /\ log' = [log EXCEPT ![r] = @ \cup {e}]
            /\ raced' = IF pc[r] \in Uploading \/ stamp[e] <= localCursor[r]
                        THEN raced \cup {e} ELSE raced
            /\ UNCHANGED late
    /\ UNCHANGED <<clockVars, applied, dups, pc, uploadVars, pageVars, cursorVars,
                   busy, workerVars, faults, dropped, torn>>

\* ... and applies it.
ApplyOwn(e) ==
    LET r == Home[e] IN
    /\ e \in writing[r]
    /\ writing' = [writing EXCEPT ![r] = @ \ {e}]
    /\ Finish(r, e)
    /\ UNCHANGED <<clockVars, log, pc, uploadVars, pageVars, cursorVars,
                   busy, workerVars, faults, historyVars>>

\* ... or throws: the event stays in the store, and is not applied.
OwnError(e) ==
    LET r == Home[e] IN
    /\ e \in writing[r]
    /\ Fault(IF r = Server THEN "server" ELSE "device")
    /\ writing' = [writing EXCEPT ![r] = @ \ {e}]
    /\ UNCHANGED <<clockVars, storeVars, pc, uploadVars, pageVars, cursorVars,
                   busy, workerVars, historyVars>>

-----------------------------------------------------------------------------
(* Device: sync(), its gate and uploadLocalEvents() *)

StartSync(d) ==
    /\ pc[d] = "idle"
    /\ pc' = [pc EXCEPT ![d] = "check"]
    /\ UNCHANGED <<clockVars, storeVars, writing, uploadVars, pageVars, cursorVars,
                   busy, workerVars, faults, historyVars>>

\* Unresolved potential duplicates, or a missing token, end the sync here.
Check(d) ==
    /\ pc[d] = "check"
    /\ \/ dups[d] = {} /\ pc' = [pc EXCEPT ![d] = "fetch"] /\ UNCHANGED faults
       \/ dups[d] # {} /\ pc' = [pc EXCEPT ![d] = "idle"] /\ UNCHANGED faults
       \/ dups[d] = {} /\ Fault("auth") /\ pc' = [pc EXCEPT ![d] = "idle"]
    /\ UNCHANGED <<clockVars, storeVars, writing, uploadVars, pageVars, cursorVars,
                   busy, workerVars, historyVars>>

\* downloadRemoteEvents starts from the stored cursor.
StartDownload(d) == next' = [next EXCEPT ![d] = remoteCursor[d]]

\* Reads the local cursor and every event above it, whoever wrote the event.
Fetch(d) ==
    /\ pc[d] = "fetch"
    /\ batch' = [batch EXCEPT ![d] = EventsSince(d, localCursor[d])]
    /\ sent' = [sent EXCEPT ![d] = {}]
    /\ pc' = [pc EXCEPT ![d] = IF batch'[d] = {} THEN "pull" ELSE "push"]
    /\ IF batch'[d] = {} THEN StartDownload(d) ELSE UNCHANGED next
    /\ UNCHANGED <<clockVars, storeVars, writing, chunk, attempt, conn, more, good,
                   cursorVars, busy, workerVars, faults, historyVars>>

\* One attempt to POST part, which reaches an idle handler, or is lost.
Post(d, part) ==
    \/ \E s \in Slot \ busy :
         /\ busy' = busy \cup {s}
         /\ todo' = [todo EXCEPT ![s] = part]
         /\ conn' = [conn EXCEPT ![d] = s]
         /\ UNCHANGED faults
    \/ /\ Fault("net")
       /\ UNCHANGED <<busy, todo, conn>>

\* The next chunk and its first attempt.
Push(d) ==
    /\ pc[d] = "push"
    /\ \E part \in SUBSET batch[d] :
         /\ IsFirst(part, batch[d], ChunkSize)
         /\ chunk' = [chunk EXCEPT ![d] = part]
         /\ Post(d, part)
    /\ attempt' = [attempt EXCEPT ![d] = 1]
    /\ pc' = [pc EXCEPT ![d] = "await"]
    /\ UNCHANGED <<clockVars, storeVars, writing, batch, sent, pageVars, cursorVars,
                   cur, historyVars>>

\* The connection breaks under an attempt; its handler, if any, runs on.
Cut(d) ==
    /\ pc[d] = "await" /\ conn[d] # NoSlot
    /\ Fault("net")
    /\ conn' = [conn EXCEPT ![d] = NoSlot]
    /\ UNCHANGED <<clockVars, storeVars, writing, pc, batch, chunk, sent, attempt,
                   pageVars, cursorVars, busy, workerVars, historyVars>>

\* An attempt failed and there is another one.
AttemptsLeft_OneMore(d) == attempt[d] <= MaxAttempts
AttemptsLeft(d) == attempt[d] < MaxAttempts
Retry(d) ==
    /\ pc[d] = "await" /\ conn[d] = NoSlot
    /\ AttemptsLeft(d)
    /\ attempt' = [attempt EXCEPT ![d] = @ + 1]
    /\ Post(d, chunk[d])
    /\ UNCHANGED <<clockVars, storeVars, writing, pc, batch, chunk, sent, pageVars,
                   cursorVars, cur, historyVars>>

\* The last attempt failed and throws.  With nothing confirmed the sync just ends.
Exhausted_Ignored(d) == "mark"
Exhausted(d) == IF sent[d] = {} THEN "idle" ELSE "salvage"
GiveUp(d) ==
    /\ pc[d] = "await" /\ conn[d] = NoSlot
    /\ ~AttemptsLeft(d)
    /\ chunk' = [chunk EXCEPT ![d] = {}]
    /\ attempt' = [attempt EXCEPT ![d] = 0]
    /\ pc' = [pc EXCEPT ![d] = Exhausted(d)]
    /\ batch' = [batch EXCEPT ![d] = IF sent[d] = {} THEN {} ELSE @]
    /\ UNCHANGED <<clockVars, storeVars, writing, sent, conn, pageVars, cursorVars,
                   busy, workerVars, faults, historyVars>>

\* updateSyncLevelFromEvents for what was confirmed, in one transaction.
ToMark_All(d) == sent[d] \cup batch[d]
ToMark(d) == sent[d]
Mark(d) ==
    /\ \/ pc[d] = "mark"    /\ pc' = [pc EXCEPT ![d] = "cursor"]
       \/ pc[d] = "salvage" /\ pc' = [pc EXCEPT ![d] = "reset"]
    /\ remote' = [remote EXCEPT ![d] = @ \cup ToMark(d)]
    /\ UNCHANGED <<clockVars, storeVars, writing, uploadVars, pageVars, localCursor,
                   remoteCursor, busy, workerVars, faults, historyVars>>

\* The timestamp of the last confirmed event.
LastConfirmed_Now(d) == {clock}
LastConfirmed(d) == {t \in {stamp[e] : e \in sent[d]} :
                       \A e \in sent[d] : stamp[e] <= t}

\* setLastLocalSyncTimestamp: the current time when every chunk went through,
\* the timestamp of the last confirmed event in the catch block.
MoveLocalCursor(d) ==
    /\ \/ /\ pc[d] = "cursor"
          /\ localCursor' = [localCursor EXCEPT ![d] = clock]
          /\ pc' = [pc EXCEPT ![d] = "pull"]
          /\ StartDownload(d)
       \/ /\ pc[d] = "reset"
          /\ \E t \in LastConfirmed(d) :
               localCursor' = [localCursor EXCEPT ![d] = t]
          /\ pc' = [pc EXCEPT ![d] = "idle"]
          /\ UNCHANGED next
    /\ batch' = [batch EXCEPT ![d] = {}]
    /\ sent' = [sent EXCEPT ![d] = {}]
    /\ UNCHANGED <<clockVars, storeVars, writing, chunk, attempt, conn, more, good,
                   remoteCursor, remote, busy, workerVars, faults, historyVars>>

\* A step of the device's own stores throws: the gate and the first reads end
\* the sync, the success path goes to the catch block, which has none itself.
UploadFails(d) ==
    /\ Fault("device")
    /\ \/ /\ pc[d] \in {"check", "fetch", "salvage", "reset"}
          /\ pc' = [pc EXCEPT ![d] = "idle"]
          /\ batch' = [batch EXCEPT ![d] = {}]
          /\ sent' = [sent EXCEPT ![d] = {}]
       \/ /\ pc[d] \in {"mark", "cursor"}
          /\ pc' = [pc EXCEPT ![d] = "salvage"]
          /\ UNCHANGED <<batch, sent>>
    /\ UNCHANGED <<clockVars, storeVars, writing, chunk, attempt, conn, pageVars,
                   cursorVars, busy, workerVars, historyVars>>

-----------------------------------------------------------------------------
(* Server: POST /push, one handler per request *)

\* submitForm of the next event of the request: the unique guid rejects an
\* event that is there already, and the handler ignores the error.
HandlerStore(s) ==
    /\ s \in busy /\ cur[s] = NoEvent
    /\ \E e \in todo[s] :
         /\ Oldest(e, todo[s])
         /\ todo' = [todo EXCEPT ![s] = @ \ {e}]
         /\ \/ /\ Exists(e, Server)
               /\ UNCHANGED <<log, late, cur>>
            \/ /\ ~Exists(e, Server)
               /\ ServerGains(e)
               /\ cur' = [cur EXCEPT ![s] = e]
    /\ UNCHANGED <<clockVars, applied, dups, writing, pc, uploadVars, pageVars,
                   cursorVars, busy, faults, raced, dropped, torn>>

HandlerApply(s) ==
    /\ s \in busy /\ cur[s] # NoEvent
    /\ Finish(Server, cur[s])
    /\ cur' = [cur EXCEPT ![s] = NoEvent]
    /\ UNCHANGED <<clockVars, log, writing, pc, uploadVars, pageVars, cursorVars,
                   busy, todo, faults, historyVars>>

\* submitForm throws, before it stored the event or after, and the handler goes
\* on.  All that is left may fail as one: the tenant's connection pool was closed
\* under the handler (updateAppInstance), or there is no such tenant, which is
\* answered with status "error" but HTTP 200, an answer the device takes as good.
HandlerError(s) ==
    /\ s \in busy
    /\ \/ /\ Fault("server") /\ cur[s] = NoEvent
          /\ \E gone \in SUBSET todo[s] :
               /\ gone = todo[s] \/ \E e \in gone : gone = {e} /\ Oldest(e, todo[s])
               /\ todo' = [todo EXCEPT ![s] = @ \ gone]
               /\ dropped' = dropped \cup gone
          /\ UNCHANGED cur
       \/ /\ Fault("server") /\ cur[s] # NoEvent
          /\ cur' = [cur EXCEPT ![s] = NoEvent]
          /\ UNCHANGED <<todo, dropped>>
    /\ UNCHANGED <<clockVars, storeVars, writing, pc, uploadVars, pageVars,
                   cursorVars, busy, raced, late, torn>>

\* Every event was tried: "success".  The device, if it still listens, counts
\* the chunk as uploaded.
Reply(s) ==
    /\ s \in busy /\ todo[s] = {} /\ cur[s] = NoEvent
    /\ busy' = busy \ {s}
    /\ \/ /\ \A d \in Device : conn[d] # s
          /\ UNCHANGED <<pc, uploadVars>>
       \/ \E d \in Device :
            /\ conn[d] = s
            /\ conn' = [conn EXCEPT ![d] = NoSlot]
            /\ sent' = [sent EXCEPT ![d] = @ \cup chunk[d]]
            /\ batch' = [batch EXCEPT ![d] = @ \ chunk[d]]
            /\ chunk' = [chunk EXCEPT ![d] = {}]
            /\ attempt' = [attempt EXCEPT ![d] = 0]
            /\ pc' = [pc EXCEPT ![d] = IF batch'[d] = {} THEN "mark" ELSE "push"]
    /\ UNCHANGED <<clockVars, storeVars, writing, pageVars, cursorVars, workerVars,
                   faults, historyVars>>

-----------------------------------------------------------------------------
(* Device: downloadRemoteEvents() *)

\* The download ends, and its variables with it.
Leave(d) ==
    /\ pc' = [pc EXCEPT ![d] = "idle"]
    /\ next' = [next EXCEPT ![d] = 0]
    /\ more' = more \ {d}
    /\ good' = [good EXCEPT ![d] = 0]

\* GET /pull and its answer.  Duplicates on the server make it an empty page.
Pull(d) ==
    /\ pc[d] = "pull"
    /\ \E rows \in SUBSET log[Server] :
         /\ IF dups[Server] = {}
            THEN IsFirst(rows, EventsSince(Server, next[d]), PageSize)
            ELSE rows = {}
         /\ todo' = [todo EXCEPT ![d] = rows]
         /\ \/ rows = {} /\ Leave(d)
            \/ \E last \in rows :
                 /\ \A e \in rows : stamp[e] <= stamp[last]
                 /\ next' = [next EXCEPT ![d] = stamp[last]]
                 /\ more' = IF Cardinality(rows) = PageSize THEN more \cup {d} ELSE more
                 /\ pc' = [pc EXCEPT ![d] = "page"]
                 /\ UNCHANGED good
    /\ UNCHANGED <<clockVars, storeVars, writing, uploadVars, cursorVars,
                   busy, cur, faults, historyVars>>

\* An event that exists locally is skipped, another one stored as REMOTE.
PageStore(d) ==
    /\ pc[d] = "page" /\ cur[d] = NoEvent
    /\ \E e \in todo[d] :
         /\ Oldest(e, todo[d])
         /\ todo' = [todo EXCEPT ![d] = @ \ {e}]
         /\ \/ /\ Exists(e, d)
               /\ UNCHANGED <<log, remote, cur>>
            \/ /\ ~Exists(e, d)
               /\ log' = [log EXCEPT ![d] = @ \cup {e}]
               /\ remote' = [remote EXCEPT ![d] = @ \cup {e}]
               /\ cur' = [cur EXCEPT ![d] = e]
    /\ UNCHANGED <<clockVars, applied, dups, writing, pc, uploadVars, pageVars,
                   localCursor, remoteCursor, busy, faults, historyVars>>

PageApply(d) ==
    /\ pc[d] = "page" /\ cur[d] # NoEvent
    /\ Finish(d, cur[d])
    /\ cur' = [cur EXCEPT ![d] = NoEvent]
    /\ UNCHANGED <<clockVars, log, writing, pc, uploadVars, pageVars, cursorVars,
                   busy, todo, faults, historyVars>>

\* Every event of the page was submitted, and the last submitForm returned.
PageComplete_NoAwait(d) == todo[d] = {}
PageComplete(d) == todo[d] = {} /\ cur[d] = NoEvent

\* The whole page went through: the cursor moves to its last timestamp.
PageDone(d) ==
    /\ pc[d] = "page" /\ PageComplete(d)
    /\ remoteCursor' = [remoteCursor EXCEPT ![d] = next[d]]
    /\ IF d \in more
       THEN /\ pc' = [pc EXCEPT ![d] = "pull"]
            /\ more' = more \ {d}
            /\ good' = [good EXCEPT ![d] = next[d]]
            /\ UNCHANGED next
       ELSE Leave(d)
    /\ UNCHANGED <<clockVars, storeVars, writing, uploadVars,
                   localCursor, remote, busy, workerVars, faults, historyVars>>

\* What submitForm was applying on d is stored already, and given up.
Tear(d) ==
    torn' = [torn EXCEPT ![d] = IF cur[d] = NoEvent THEN @ ELSE @ \cup {cur[d]}]

\* Where the cursor is set when a page fails: to the end of the last page that was
\* complete, which is this one if it was storing the cursor that failed.
Rollback(d) ==
    CASE PageComplete(d) -> next[d]
      [] ~PageComplete(d) /\ good[d] # 0 -> good[d]
      [] OTHER -> remoteCursor[d]

\* A GET fails, or submitForm throws for an event of the page, before or after
\* it stored the event, or the cursor cannot be stored: the cursor is set back to
\* the last complete page, unless that fails as well.
DownloadFails(d) ==
    /\ \/ pc[d] = "pull" /\ Fault("net")
          /\ UNCHANGED remoteCursor
       \/ pc[d] = "page" /\ Fault("device")
          /\ remoteCursor' \in {remoteCursor, [remoteCursor EXCEPT ![d] = Rollback(d)]}
    /\ Leave(d)
    /\ Tear(d)
    /\ todo' = [todo EXCEPT ![d] = {}]
    /\ cur' = [cur EXCEPT ![d] = NoEvent]
    /\ UNCHANGED <<clockVars, storeVars, writing, uploadVars,
                   localCursor, remote, busy, raced, late, dropped>>

-----------------------------------------------------------------------------
(* Crash and restart: what was in memory is gone *)

\* Forms of r that were confirmed but not stored yet are lost with the memory.
Forget(r) ==
    /\ writing' = [writing EXCEPT ![r] = {}]
    /\ stamp' = [e \in Event |->
                   IF Home[e] = r /\ e \notin log[r] THEN 0 ELSE stamp[e]]

DeviceCrash(d) ==
    /\ Fault("crash")
    /\ Forget(d)
    /\ Leave(d)
    /\ Tear(d)
    /\ batch' = [batch EXCEPT ![d] = {}]
    /\ chunk' = [chunk EXCEPT ![d] = {}]
    /\ sent' = [sent EXCEPT ![d] = {}]
    /\ attempt' = [attempt EXCEPT ![d] = 0]
    /\ conn' = [conn EXCEPT ![d] = NoSlot]
    /\ todo' = [todo EXCEPT ![d] = {}]
    /\ cur' = [cur EXCEPT ![d] = NoEvent]
    /\ UNCHANGED <<clock, storeVars, cursorVars, busy, raced, late, dropped>>

ServerCrash ==
    /\ Fault("crash")
    /\ Forget(Server)
    /\ conn' = [d \in Device |-> NoSlot]
    /\ busy' = {}
    /\ todo' = [w \in Worker |-> IF w \in Slot THEN {} ELSE todo[w]]
    /\ cur' = [w \in Worker |-> IF w \in Slot THEN NoEvent ELSE cur[w]]
    /\ UNCHANGED <<clock, storeVars, pc, batch, chunk, sent, attempt, pageVars,
                   cursorVars, historyVars>>

-----------------------------------------------------------------------------
UserStep(e) == Fill(e) \/ StoreOwn(e) \/ ApplyOwn(e) \/ OwnError(e)

UploadStep(d) ==
    \/ StartSync(d) \/ Check(d) \/ Fetch(d) \/ Push(d) \/ Retry(d) \/ GiveUp(d)
    \/ Mark(d) \/ MoveLocalCursor(d)

DownloadStep(d) == Pull(d) \/ PageStore(d) \/ PageApply(d) \/ PageDone(d)

HandlerStep(s) == HandlerStore(s) \/ HandlerApply(s) \/ Reply(s)

DeviceFault(d) == Cut(d) \/ UploadFails(d) \/ DownloadFails(d) \/ DeviceCrash(d)

Next ==
    \/ Tick
    \/ \E e \in Event : UserStep(e)
    \/ \E d \in Device : UploadStep(d) \/ DownloadStep(d) \/ DeviceFault(d)
    \/ \E s \in Slot : HandlerStep(s) \/ HandlerError(s)
    \/ ServerCrash

Spec == Init /\ [][Next]_vars

\* The event loop runs every callback that is due, the server runs the handler
\* of every request it received, and the user (or the auto-sync timer) starts a
\* sync again and again.  Nothing obliges a user to fill in a form.
Fairness ==
    /\ \A e \in Event : WF_vars(StoreOwn(e) \/ ApplyOwn(e))
    /\ \A d \in Device : WF_vars(UploadStep(d) \/ DownloadStep(d))
    /\ \A s \in Slot : WF_vars(HandlerStep(s))

FairSpec == Spec /\ Fairness

-----------------------------------------------------------------------------
(* Properties *)

\* Two stored events carry the same timestamp.
Tied(e) ==
    \E f \in Event \ {e} : f \in log[Home[f]] /\ stamp[f] = stamp[e]

\* An event is stored where it was written before it is anywhere else, and
\* reaches another device only through the server: neither retries nor crashes
\* make uploadLocalEvents send what the device did not keep.
Provenance ==
    /\ \A e \in log[Server] : e \in log[Home[e]]
    /\ \A d \in Device : \A e \in log[d] : Home[e] = d \/ e \in log[Server]

\* The running submitForm calls of a replica: its user's, its download's (on a
\* device), its handlers' (on the server).
Applying(w, r) == IF r = Server THEN w \in Slot ELSE w = r

\* However often a chunk is sent, and whether its handlers overlap or not, a
\* replica applies an event at most once: no two submitForm calls apply the
\* same event, and none applies one that was applied already.
AppliedOnce ==
    \A r \in Replica :
      /\ writing[r] \cap applied[r] = {}
      /\ applied[r] \subseteq log[r]
      /\ \A w \in Worker :
           Applying(w, r) /\ cur[w] # NoEvent =>
             /\ cur[w] \notin applied[r] \cup writing[r]
             /\ \A v \in Worker \ {w} : Applying(v, r) => cur[v] # cur[w]

\* An event a device holds as REMOTE is in the server's store, unless a handler
\* failed to store it and answered "success" all the same.
MarkedIsStored ==
    \A d \in Device : \A e \in remote[d] : e \in log[Server] \/ e \in dropped

\* What the upload can leave behind its cursor for ever is exactly: an event
\* stored after the upload read its list, an event that shares its timestamp
\* with another, and an event dropped by a handler.
UploadGapsKnown ==
    \A d \in Device : \A e \in log[d] :
      Home[e] = d /\ stamp[e] <= localCursor[d] =>
        e \in log[Server] \/ e \in raced \/ e \in dropped \/ Tied(e)

\* What the download can leave behind its cursor for ever is exactly: an event
\* the server stored when the cursor was already past its timestamp, and an
\* event that shares its timestamp with another.
DownloadGapsKnown ==
    \A d \in Device : \A e \in log[Server] :
      stamp[e] <= remoteCursor[d] => e \in log[d] \/ e \in late[d] \/ Tied(e)

\* The remote cursor stands for work done: a downloaded event behind it was
\* applied, not just stored, unless the download was cut off (a step threw, the
\* app was killed) between the two, which is the only way to miss one.
AppliedGapsKnown ==
    \A d \in Device : \A e \in log[d] :
      Home[e] # d /\ stamp[e] <= remoteCursor[d] => e \in applied[d] \/ e \in torn[d]

Replication ==
    INSTANCE EventLog
    WITH Device <- Device, Server <- Server, Event <- Event, Home <- Home,
         log <- log, applied <- applied

\* Cursors, chunks, pages, retries, overlapping handlers and crashes add up to
\* plain replication: logs grow by one event at a time, events travel by way of
\* the server only, and a replica applies an event of its log once at the most.
ReplicatesLog == Replication!Spec

\* No step, be it a failure or the rollback after one, moves a cursor back: what
\* was transferred once is not transferred again.
CursorsAdvance ==
    [][\A d \in Device : /\ localCursor'[d] >= localCursor[d]
                        /\ remoteCursor'[d] >= remoteCursor[d]]_vars

\* A sync that was started ends, so isSyncing never blocks the next one for ever.
SyncEnds == \A d \in Device : pc[d] # "idle" ~> pc[d] = "idle"

\* Apart from the known gaps, what a device writes reaches the server ...
UploadsArrive ==
    \A d \in Device : \A e \in {x \in Event : Home[x] = d} :
      e \in log[d] ~> e \in log[Server] \/ e \in raced \/ e \in dropped \/ Tied(e)

\* ... and what the server stores reaches every device.
DownloadsArrive ==
    \A d \in Device : \A e \in {x \in Event : Home[x] # d} :
      e \in log[Server] ~> e \in log[d] \/ e \in late[d] \/ Tied(e)

-----------------------------------------------------------------------------
(* What the comments and the documentation say, and the code does not do *)

\* "Uploads all local unsynced events": once a sync is over, an event of the
\* device behind the local cursor is on the server.
UploadsAllUnsynced ==
    \A d \in Device : \A e \in log[d] :
      pc[d] = "idle" /\ Home[e] = d /\ stamp[e] <= localCursor[d] =>
        e \in log[Server]

\* "Rolls back timestamp on failure to enable retry": what is behind the cursor of
\* a device has been applied there.
AppliedBehindCursor ==
    \A d \in Device : \A e \in log[d] :
      Home[e] # d /\ stamp[e] <= remoteCursor[d] => e \in applied[d]

=============================================================================

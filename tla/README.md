# A TLA+ model of ID PASS DataCollect

DataCollect is an offline-first data collection system. A device keeps a log of
form submissions ("events") and the entities they describe, works without a
network, and exchanges events with a sync server when it has one; the server
exchanges them with external systems (OpenFN, OpenSPP). This directory holds
TLA+ modules of that code, TLC configurations that check them on small
instances, and TLAPS proofs that some of the results hold for every instance.

Paths below are relative to `src/packages` unless they start with `src/`.
`PROJECT.json` maps every definition that models code to the lines it models.

## 1. Inventory

### 1.1 Components

| Component | State it keeps | Operations | Modelled in |
|---|---|---|---|
| `InternalSyncManager` (device sync) | `isSyncing`, the place in the upload and download loops, `nextCursor`, `lastSuccessfulTimestamp` | `sync`: duplicates gate, chunked upload with retries, paged download with rollback | InternalSync |
| Sync routes of the server (`backend/src/routes/syncRoute.ts`) | none between requests; one running handler per request | `GET /pull`, `POST /push` (sort, submit each, swallow errors), `POST /external`, audit-log routes | InternalSync (pull, push), ExternalSync (external), Tenants (a push whose tenant is replaced) |
| `EventStore`, IndexedDB and Postgres event adapters | events with unique guid and sync level, internal and external cursors, Merkle root, audit log | `saveEvent`, `isEventExisted`, `getEventsSince`, paginated read, `updateSyncLevelFromEvents`, cursors, `getProof`, `verifyEvent`, `clearStore` | InternalSync (events, internal cursors), EventStore (Merkle tree), ExternalSync (external cursors) |
| `EventApplierService` | none between calls | `submitForm` and what it dispatches to: create and update, members, cascade delete, duplicates, conflict resolution | InternalSync (store, apply), EntityApply (everything it does to entities) |
| `EntityStore`, IndexedDB and Postgres entity adapters | entity pairs (`initial`, `modified`), potential duplicates | `getEntity`, `saveEntity`, `deleteEntity`, `searchEntities`, `getEntityByExternalId`, save and resolve duplicates | EntityApply, ExternalSync (external ids) |
| `EntityDataManager` | none | facade; `getEntity` repairs groups with missing members | entry points of both; repair form in EntityApply |
| `ExternalSyncManager`, OpenFN and OpenSPP adapters, `OdooClient` | push and pull cursors, the Odoo session | push and pull in batches or registrant by registrant | ExternalSync |
| `AppInstanceStore`, `AppConfigStore`, `/api/apps`, public artifacts | open instances with their pools, configurations, files | create, replace, update, delete, load at start | Tenants |
| User routes, admin middleware, `UserStore` | the users table | login, list, create, update, delete, the initial administrator | Accounts |
| Admin application | what a page has loaded, the token | pages for programs; login and the users page | Tenants, Accounts |
| Mobile application | a cache of open stores, the global `store`, the route | open a program, home page with statistics, submit a form, start a sync | DeviceApp, InternalSync |
| `AuthManager` and token storage | tokens per program, the session of an identity provider | login, callback, logout, what a refused sync does | DeviceApp |
| Entity and duplicates routes | none | reads; one `resolve-duplicate` form | Tenants (the list), EntityApply (the form) |
| Merkle utility, export and import, encryption | | | not modelled, reason in `PROJECT.json` |

### 1.2 How they interact

* Device to server: HTTP. A push is a `POST` per chunk of 10 events, a pull a
  `GET` per page of 10. Nothing but the cursors and the unique guid of an event
  ties a request to an earlier one, so a lost answer and a lost request look the
  same to the device.
* Within a replica: `await`. The code is single-threaded JavaScript, but every
  call to a store is asynchronous. On a device its user's `submitForm` runs
  between the steps of a sync; on the server the handlers of all devices and of
  the administrator interleave, on one set of tables, with no transaction that
  spans two calls and no lock.
* Through shared state: the event store tells the sync what to send; the
  potential duplicates that `submitForm` flags stop the next sync of a device
  and turn a pull from the server into an empty page.

### 1.3 What is hard, and what makes each component correct

* **Sync.** Forms submitted while an upload runs, retries that overlap the
  handler they repeat, errors that a handler swallows, kills between the
  server's answer and the move of a cursor, equal timestamps, events that reach
  the server later than their timestamp says. Correct means: nothing is applied
  twice, what the cursors claim as transferred is transferred, and a sync ends.
* **Applying events.** A pair of documents is read, an event is stored, and the
  pair is written much later; calls overlap and fail halfway; the conflict check
  compares versions that other calls change. Correct means: the two sides of a
  pair keep the relation the check relies on, no member of a group and no
  member below a deleted group is lost, and a cascade ends.
* **Event log integrity.** The Merkle root is rebuilt from all events after each
  save by calls that can overlap; the sync level is part of what is hashed.
  Correct means: the saved root is that of the log, and what verifies was logged.
* **External sync.** Cursors move per batch or to the latest of what was created;
  requests overlap, registrants fail one by one, the cursor is replaced by two
  statements. Correct means: what lies behind a cursor was exchanged, once.
* **Tenants.** An instance is replaced while handlers hold it, configs and files
  change in several awaits, pages save what they loaded a while ago. Correct
  means: config, instance, data and files agree, and what was answered with
  success is kept.
* **Accounts.** A token is checked before the handler acts; the users page keeps
  ids and indices of rows longer than it should. Correct means: nobody's account
  changes but the one named, and there is an administrator.
* **The mobile app.** Page loads, statistics, logins and syncs overlap on one
  global store and one auth manager. Correct means: a form and a sync belong to
  the program of the page, and who signed in stays so.

Every such point is a hazard in `PROJECT.json`, at its line, with the properties
that watch it.

## 2. Plan

| # | Module | Contents | State |
|---|---|---|---|
| 1 | `InternalSync` | replication between devices and server, with faults | checked, proved |
| 2 | `EntityApply` | `submitForm` over the entity store, from await to await | checked, proved |
| 3 | `EventLog` | what replication promises: logs that only grow, events that travel by way of the server and are applied once | refined by `InternalSync`: checked, proved |
| 4 | `EventStore` | event table, saved root and tree in memory, overlapping saves, sync levels, `getProof` and `verifyEvent` | checked, proved |
| 5 | `ExternalSync` | OpenFN and OpenSPP behind one manager and two cursors | checked, proved |
| 6 | `Tenants` | programs: configs, instances, data, files, pages | checked, proved |
| 7 | `DeviceApp` | the mobile app around the stores; sign-in | checked, proved |
| 8 | `Accounts` | users table, its routes, the start of the server, the users page | checked, proved |

Composition: `EntityApply` is the inside of what `InternalSync` calls `ApplyOwn`,
`HandlerApply` and `PageApply`; `EventStore` that of `StoreOwn`, `HandlerStore`
and `PageStore`. The composed step stays small because the sync asks of an event
only whether it was stored and whether its application ended. `Tenants` has a
push as two steps, which is the fault "the handler's instance is gone" of
`InternalSync`; `DeviceApp` has a sync as a start and an end, with a refused token
as one end, which is the "auth" fault there.

Still worth doing: models of the code that section 6 leaves out, of the entity data
manager and the storage adapters first, and of what `MembersKept` excepts, a model
in which callers of the server overlap while they change one group.

## 3. The modules

Helpers are named for the function of the code they stand for. An operator named
`Name_Change` is not part of the model: it is `Name` with a plausible mistake in
it, used to see that a property notices.

### 3.1 InternalSync

One action per step between two awaits. State: `log[r]` (event table of replica
`r`), `applied[r]` (events whose `submitForm` ended), `stamp[e]` (timestamp of a
form), the two cursors, `remote[d]` (events marked REMOTE), and per device the
program counter `pc[d]` of its sync, with `batch`, `chunk`, `sent`, `attempt`,
`conn` for the upload and `next`, `more`, `good` for the download. A handler of
the server is a slot in `busy`; `todo` and `cur` are the events a handler or a
download loop has still to submit and the one it is at.

| Code | Actions |
|---|---|
| a user submits a form | `Fill`, `StoreOwn`, `ApplyOwn`, `OwnError` |
| `sync`, `checkIfDuplicatesExist` | `StartSync`, `Check` |
| `uploadLocalEvents` | `Fetch`, `Push`, `Mark`, `MoveLocalCursor`, `UploadFails` |
| `uploadChunkWithRetry` | `Retry`, `GiveUp`, `Cut` (the connection breaks) |
| `POST /push` | `HandlerStore`, `HandlerApply`, `HandlerError`, `Reply` |
| `downloadRemoteEvents`, `GET /pull` | `Pull`, `PageStore`, `PageApply`, `PageDone`, `DownloadFails` |
| app killed, server restarted | `DeviceCrash`, `ServerCrash` |

`raced`, `late`, `dropped` and `torn` are history variables. They record the
ways in which the code is known to leave an event behind a cursor, or stored and
not applied, so that the invariants can say there is no other.

Properties: `AppliedOnce`, `MarkedIsStored`, `UploadGapsKnown`,
`DownloadGapsKnown`, `AppliedGapsKnown`, the refinement `ReplicatesLog`, and the
liveness properties `SyncEnds`, `UploadsArrive`, `DownloadsArrive`. `Provenance`
and `CursorsAdvance` are proved for all instances and not run.

**EventLog** is the abstract specification: two variables, and four actions, a
user writes an event, it goes up from its home, down from the server, and is
applied. `InternalSync` implements it with `log` and `applied` mapped to
themselves; every other step is a stutter. What this excludes is a step that
stores an event nobody sent, sends it past the server, or applies it again.

### 3.2 EntityApply

Callers run `submitForm` over one store: on a device its user and its download
loop, on the server one handler per device and the administrator. State:
`store[e]` (the entity pair), `pairs` (potential duplicates), `events`, and per
caller `pc`, `form`, `entityPair` (what it has read, and may by now be stale),
`todo` and the `stack` of its cascade. A document is its version, the time it
was last updated, the forms merged into it and its members.

| Code | Actions |
|---|---|
| `submitForm` up to the dispatch, `handleIncomingConflict` | `Begin`, `StoreEvent` (operators `Conflict`, `LocalWins`, `Base`) |
| `createOrUpdateIndividual`, `createOrUpdateGroup` | `SaveIndividual`, `SaveMember`, `SaveGroup` |
| `addMemberToGroup` | `ReadGroup`, `AddMember`, `Attach` |
| `removeMemberFromGroup` | `ReadGroup`, `Detach`, `Look` |
| `resolve-duplicate`, `deleteEntity`, `cascadeDeleteEntity` | `Resolve`, `Descend`, `Remove`, `Clean` |
| `flagPotentialDuplicate` | `Flag`, `SavePair` |
| a call to a store throws, the program stops | `Throw` |

Properties for any callers: `InitialBehind`, `NeverSettled`, `MergedIsLogged` and
`CallsEnd`. Properties of a store while all its forms come from one caller
(`Alone`): `MembersGoFirst` and `MembersKept`. `NeverSettled` deserves a word: it
says that an individual counts as locally changed from its second form on, for good.
That is what the code does, and it is why `LatestWins` fails.

### 3.3 EventStore

State: the event table in order of insertion with each event's sync level, the
saved root, the root of the tree in memory, and per call of `submitForm` where it
is in `saveEvent`. A hash is modelled as the term it is the hash of.

| Code | Actions |
|---|---|
| `saveEvents`, `updateMerkleTree`, `saveMerkleRoot` | `Insert`, `LoadEvents`, `Rebuild`, `SaveRoot`, `Throw` |
| `updateSyncLevelFromEvents` | `Mark` |
| `initialize` after a restart | `Restart` |
| `clearStore` | `ClearEvents`, `ClearOther` |
| `buildMerkleTree`, `getProof`, `verifyEvent` | operators `Parents`, `Layers`, `Root`, `Proof`, `Verifies` |

Properties: `RootCurrent`, and of the tree `VerifiedIsLogged` (what `verifyEvent`
accepts with anything `getProof` returns) and `LoneEventVerifies` (a log of one event
proves it). That every stored event verifies with its proof, as the comments of
`getProof` and `verifyEvent` have it, is `EventsVerify`, which the run `EventProof`
violates with three events. Which of two hashes is the smaller nobody can say, so
`Verifies` is generous: it holds if any order of the pairs leads to the root, and
the violation does not depend on it. `NoneOfThreeVerifies`, proved for logs of any
length, says how far the violation reaches. That the root is that of no other log,
`RootTellsLog`, is proved for all instances too and not run.

### 3.4 ExternalSync

State: the tenant's `kind` of adapter, its event table with timestamps, the rows
of the two cursor tables, the Odoo client, what is outside (`written`,
`outside`), and per request where `synchronize` is.

| Code | Actions |
|---|---|
| `ExternalSyncManager.synchronize`, session | `Begin`, `Login` |
| cursors | `ReadCursor`, `DeleteCursor`, `InsertCursor` |
| OpenFN `pushData`, `pullData` | `ListEvents`, `PushBatch`, `FetchEvents`, `SubmitEvent` |
| OpenSPP `pushData` | `ListRegistrants`, `CreateHousehold`, `LinkHousehold`, `CreateIndividual` |
| OpenSPP `pullData` | `FetchGroups`, `FetchPersons`, `LookUp`, `SubmitRecord` |
| devices, the external system, a restarted tenant | `Arrive`, `Write`, `Tick`, `Restart`, `StoreFails` |

### 3.5 Tenants

State: `config` (rows of `app_configs`), `instances`, the ended pools (`closed`),
the events of each program (`rows`), the files in `public/artifacts`, and the
requests under way, each with what it has read so far. An edit is a number, and a
config the set of edits it has taken in, so that a lost edit shows.

| Code | Actions |
|---|---|
| `POST /` | `Post`, `Boot`, `Install`, `Load`, `Publish`, `Write` |
| `PUT /:id` from an edit page | `OpenPage`, `Check`, `Save`, `Swap`, `Boot`, `Install`, `Load`, `Publish`, `Write` |
| `DELETE /:id` | `Find`, `Drop`, `Clear`, `Forget`, `Unlink` |
| `POST /push`, storing of entity data, `GET /artifacts` | `Push`, `Store`, `Fetch` |
| failing statement, exit and start of the server | `Throw`, `Restart` |

### 3.6 DeviceApp

State: the cache of data managers, the global `store`, the auth manager and the
program it is for, the route shown and the navigation under way, tasks (page
loads, statistics, logins, logouts), syncs, tokens and the provider's session.

| Code | Actions |
|---|---|
| `initStore` | `Hit`, `Miss`, `Build` |
| route guard, `checkAuthenticationStatus` | `Open`, `Show`, `ShowLogin` |
| home page, statistics | `GoHome`, `Import`, `Close` |
| login, callback, logout | `Login`, `Post`, `Deny`, `Answer`, `Redirect`, `Callback`, `AskLogout`, `Logout` |
| a sync from a page, a refused one | `StartSync`, `Done`, `Refused` |
| reload of the web view | `Reload` |

### 3.7 Accounts

State: `users` (the table), how far the `server` is with its start, the `page`
(rows, `editedIndex`, `editedItem`, dialogs, token), and three requests that can
be under way: the page's, its fetch of the list, and one of another administrator.

| Code | Actions |
|---|---|
| `run` in `syncServer.ts`, a restart | `CheckAdmins`, `CreateAdmin`, `Restart` |
| `createAuthAdminMiddleware` | `Check` |
| routes of `/api/users` | `Read`, `Create`, `Update`, `Delete`, `List`, `Login` |
| another administrator | `Client` |
| `UsersView.vue` | `OpenUsers`, `Fetched`, `Pick`, `New`, `Cancel`, `Hide`, `Save`, `Remove`, `Answered`, `Leave` |

`off` and `lastGone` are history variables: whether something happened that this
users page does not account for, and whether an accepted request took the last
administrator since the start. Among what `off` records is a deletion: the page
sends the id of the row and the route deletes by email, so the request succeeds,
the row goes and the account stays. `saveUser` may also carry the id of another
row, because `closeDialog` keeps it; `OthersKept` says that this never reaches
the other account, for the UPDATE asks for id and email.

## 4. The runs

| Run | Instance | Shows |
|---|---|---|
| `SyncDownload` | 2 devices, 1 writer, 2 events, duplicates flagged and resolved, 1 fault of any kind | uploads and paged downloads leave only known gaps, nothing behind a cursor is unapplied but what a fault tore, every step is one of `EventLog` |
| `SyncLive` | 1 device and the administrator, 2 events, 2 handlers, 2 attempts, 2 faults of any kind, with fairness | nothing is applied twice or marked falsely; syncs end, events arrive both ways |
| `SyncRace` | 1 device, 2 events, no fault | *violated*: an event submitted during an upload is never sent |
| `SyncTorn` | 2 devices, 2 events, 1 failing device store | *violated*: an event stored but not applied is skipped by the retry |
| `EntityApply` | from its two initial states: a server, 1 caller, 9 forms, one pulled from an external system, 2 groups that may nest in each other; or a device, user and download loop, 7 forms, 1 group; 2 individuals, 1 fault, with fairness | pairs stay sound however callers interleave; cascades, members, and that calls end |
| `EntityLatest` | 1 caller, a page of three events of one record | *violated*: the last update of the page is dropped |
| `EventStore` | 2 overlapping calls, 3 events, 2 faults or restarts, 1 `clearStore` | the saved root is that of the log when nothing overlapped, also after a failure; nothing verifies that was not logged; the only event of a log does |
| `EventProof` | 1 call, 3 events, no fault | *violated*: with three events in the log none verifies with its proof |
| `ExternalSync` | either adapter, a root group, household and child, 2 external records, 2 requests, 1 fault or overlap | what is behind the cursors was exchanged, known gaps apart; nothing is sent or created twice without an overlap or a fault |
| `Tenants` | 1 program, 3 uploads or edits, 1 push, 2 requests, 1 fault or restart | config, instance, data and files agree unless requests overlapped; edits and pushes are kept |
| `DeviceApp` | 2 programs, one provider, 2 tasks, 2 syncs, 1 overlap or half-done logout | forms, syncs and tokens belong to the program they were for, known causes apart |
| `Accounts` | 2 addresses, 3 ids, the page, 1 request of another administrator or restart | no account changes unless named, a started server has an administrator, the page shows what there is, known causes apart |

### Bounds

* Sync: two events suffice for every case in which one event is treated
  differently because of another: tied timestamps, a chunk before or after a
  failing one, a page boundary, a form that races an upload. `ChunkSize` and
  `PageSize` are 1, so that two events already make two chunks and two pages (10
  in the code). `MaxAttempts` is 2 in `SyncLive`, so that there is a first and a
  last attempt (3 in the code), and its two faults let a retry fail too; `Slot`
  has two handlers there, because a broken connection can leave one behind.
  `MaxClock` is 2: equal and different timestamps, forms before and after a
  cursor. Devices are not symmetric: the events name their home.
* EntityApply: `MaxDepth` is the number of entities, as deep as a cascade without
  a cycle can go; `MaxClock` makes local documents older and newer than the
  remote forms. One fault can hit any step; a failed call leaves nothing but what
  it wrote. `Sent` makes one run of two: `Init` chooses whose forms there are. On
  the server the three forms that build the family come first, by their stamps,
  and the six others in any order. `OneOfEach` tells IndexedDB from Postgres by
  the pairs a deletion leaves; with two individuals that look alike an index has
  one pair at most, and both leave the same.
* EventStore: three events are the fewest for which a proof needs an inner node.
  Calls and events are symmetric.
* ExternalSync and DeviceApp count an overlap of two requests or tasks
  as a fault where a bound of one would otherwise not be enough to explore it:
  the properties say "unless they overlapped", so what matters is one overlap at
  any point, and what follows it.
* ExternalSync: a batch of one makes a batch end between two events. The pull
  compares Odoo's dates with an ISO timestamp as text, which within a day never
  comes out as later; a day of one tick leaves both cases, the same day and a later
  one. `Before` puts the parents in the log.
* Tenants has one program, because programs meet only in the list of all of them,
  which the model has; three uploads are a create and two edits, or two creates.
  The third upload comes with a push or with a fault, not with both (`Sparse`).
  Overlaps of its two requests are not bounded.
* DeviceApp: programs and slots are symmetric; ids of managers are reused once
  nothing holds them.
* Accounts: three ids are two accounts and one made again. The page's user closes
  dialogs and opens others while a request runs, but sends no second one. From
  then on (`off`), and until the view is left, nothing reads which addresses and
  roles the page shows, so the run does not tell such states apart (`VIEW Seen`).

Deadlock is checked where the system can always go on; `CHECK_DEADLOCK FALSE`
is in the configurations whose bounds end the run: no form left to submit, no
event left to save, no request left, or a server that cannot start.

### Fairness

`InternalSync`: the event loop of a device runs callbacks that are due, so a
device's next step is weakly fair, and the next sync is started by the user or
by the auto-sync timer; a handler of the server runs to its answer. Filling in a
form, the clock and every fault are not fair. `EntityApply`: a call that has
begun goes on; nobody has to submit a form. The other modules state safety only.

### Findings

Four runs show where the code does not do what a comment, a test or a document
says; `PROJECT.json` quotes the lines. All were found by writing the invariant
down and looking at TLC's trace: a form submitted during an upload, a torn
`submitForm`, the third remote event of a record, which is taken for a
conflict with local changes that nobody made, and the proof of an event in a log of
three, which lacks the inner node that its root is made of: `verifyEvent` calls
every stored event of such a log tampered with. (The test that would have shown it is
commented out, `datacollect/src/components/__tests__/EventStore.test.ts:72`, and has one event.)

Known causes. Many invariants say what happens *unless* one of the ways applies in
which the code is known to fail: they show that there is no other way, for all
instances where they are proved, and would not notice if a known way became more
frequent. The notes of the hazards in `PROJECT.json` name, for each hazard that is
such a known cause, the property that excepts it.

Other divergences met on the way, which no run is needed for:

* `datacollect/src/storage/PostgresEventStorageAdapter.ts:346` documents `ON CONFLICT
  DO NOTHING` for the Merkle root, the code replaces it.
* `datacollect/src/components/InternalSyncManager.ts:409` says one sync runs at a
  time: true of one manager; `SyncsKnown` says when there are two.
* The users page deletes by id, which `PageKnown` excepts; `backend/openapi.yaml:239` and the route
  delete by email.

## 5. The proofs

TLAPS checks every proof for all values of the constants, from the assumptions
named in the modules: sets that are finite in any installation, sentinels that are
no value of their set, sizes and bounds that are natural numbers, forms that fit
their targets, and in `ExternalSync` that a submission is of one level of the
household at most. TLC evaluates each of them in the runs. Every invariant and every action property
of the passing runs is proved, and so is the refinement; liveness is not.

**InternalSyncProofs** proves `TypeOK`, `Provenance`, `AppliedOnce` and
`MarkedIsStored`. None of them is inductive. That an event is applied once needs
to know where each worker got it from: `Recorded` (whatever is under way
somewhere is stored where it should be), `Submitting` (no two workers of a
replica hold the same event) and `Acknowledged` (what a device counts as sent
was stored or dropped by a handler that ended). A lemma states once what a step
can do to logs and stamps (`Kept`); each layer is then proved per action from
it and the layers below.

**InternalSyncGaps** adds `UploadGapsKnown`, `DownloadGapsKnown`,
`AppliedGapsKnown` and `CursorsAdvance`. The layers are `Past` (no stored event is
from the future), `Ordered` (a chunk is older than what is still to be sent),
`Listed` (what is neither sent nor in the list was stored after it was read),
`Paged` (the cursor of a page covers what was read) and `Caught` (what is stored
from a page is applied, being applied, or torn).

The end of InternalSyncProofs shows that `InternalSync` implements `EventLog`
(`Refinement`, by the instance that `ReplicatesLog` also uses in the run): the
initial states map to initial states, and with the invariants above every step is
a step of the log or a stutter. That an upload stores only what its home has
needs `Recorded`; that an application is the first one needs `Submitting`.

**EntityApplyProofs** proves `TypeOK`, `InitialBehind`, `NeverSettled` and
`MergedIsLogged`, for any number of callers. The strengthening is that soundness
must hold of the pairs that callers *hold*, not only of those in the store:
`Sound` says a pair's sides are ordered, an individual's differ exactly if it was
revised, and its forms are logged; `Running` says what the place of a call implies
for its form. A stale pair stays sound because the log only grows, so saving it
late is harmless to these properties, if not to `MembersKept`.

The second half of the module is about a store while one caller has submitted all
its forms (`Alone`), as a device before its first download, or a server that
nothing but one client has written to. A call under way has a form of its caller
that counts as submitted (`Begun`), so every other caller is idle then (`Sole`),
and the two action properties hold. `MembersGoFirst` rests on the stack of the cascade: each member of
the entity of a call is still to be called, or gone, or is what the call above it
deletes (`Cascading`), whatever nests in what and wherever a call threw. `MembersKept`
rests on `Reading`: what the caller holds of the target, from the read to the save, is
what the store holds. Both are false with two callers: a second one adds a member
between the read of a group and its save, which takes it out again, or its deletion.
The proof of `MembersKept` failed at first for a good reason: a group form with sync
level EXTERNAL (`datacollect/src/components/openspp/pullTransformers/HouseholdTransformer.ts:64`),
applied to a group that was changed before, can win the conflict check, and the group
is then built from its initial side, without the members it got since. No form of the
run did that; now one does, and the property names this way out with the other two.

**AccountsProofs** proves `TypeOK`, `OthersKept` and `AdminsKnown`. The first says
among others that ids are given out once, which needs that rows have ids below
`nextId`. `AdminsKnown` is inductive with what it leaves open, the server between
its look for an administrator and the INSERT, and with `Barred`: while nobody is
an administrator no request is past the middleware, or else one was let through
and the last administrator went since. The module also proves `PageKnown`. Its
argument is about answers that have not reached the page: `Shown` says that the
rows of the page are those of the table, or will be after what the page does to
them (`Amended`) once the answer on its way arrives; `Dialog` and `Fetching` say
which row an open dialog and a request under way are about; `Callers` says
which requests each caller can have sent.

**EventStoreProofs** proves `TypeOK` and `RootCurrent`, for any calls, failures and
restarts. The strengthening is that a call which nothing overlapped saves a root of
the log as it is (`CallCurrent`), because the tree in memory is always that of a log
it was built from (`MemoryBuilt`), and that `clearStore` alone stays alone (`Alone`,
`Emptied`). Of the tree this needs only that its root is a function of the log.

The other properties are about the tree itself, and are proved for logs of any
length. `RootTellsLog` goes down two towers of layers with the same root: the layers
below a pair of equal layers are equal (`ParentsTell`), because a lone child hashes to
something else than two, and one tower cannot be the higher, because leaves are hashes
of something else than inner nodes (`ParentsShape`, `LeafShape`). For `VerifiedIsLogged` the
hashes that a proof made of leaves leads to are followed up to the root
(`ComputedShape`, `OnlyLogged`). `NoneOfThreeIsProved` rests on the same: the root of
three events or more is the hash of two inner nodes (`RootShape`), which no leaf is. `Layers`, `Proof` and
`Computed` recurse over the height. The induction theorems of the library cannot be
used here, so each of these proofs looks at the least height where its claim would
fail (`Least`, from the well-foundedness of `<`), which is never the bottom and so has a
layer below it where the claim holds. The tree is that of the model, in which hashes
do not collide.

**ExternalSyncProofs** proves `TypeOK` and the five safety properties. `PushGapsKnown`
and `PullGapsKnown` must bear overlapping requests, failures and crashes, so their
strengthenings speak of every request by itself: `PushAhead` says that what a request
has passed by is in its hands, still to be listed or a known gap, whatever it will
write to the cursor, and `PullAhead` says it of records and versions. `Shape` holds
what each place of `synchronize` implies for what it has read. `SentOnce` and
`CursorKept` are about requests that never overlapped (`Alone`): the cursor of a way
nobody moves half is the latest of its table and ahead of nothing that is left
(`InOrder`), and without any fault what was sent is behind the cursor or in the
hands of the one request (`SentBehind`). `OneEntityEach` needs `SingleEntity`: what
is about to be created is not there yet.

**TenantsProofs** proves `TypeOK`, `InstanceIsOfConfig`, `FilesKnown`, `PushesKept` and
`EditsKept`, for any number of programs and requests. The strengthening is stated per
program, for those that no overlap or failure has spoilt: at most one request changes
it (`Apart`), and where that request is says which of config, instance and data are
already new (`Stage`); its files are the ones of its config but for the upload being
published (`Filed`); and every edit that was answered with success is in the config
and in whatever a page or a request is about to save over it (`Edits`). A lemma says that a step leaves all other
programs alone. That a new instance never takes the id of one in use is the
pigeonhole of `FreeIdOf`.

**DeviceAppProofs** proves `TypeOK`, `FormsKnown`, `SyncsKnown` and `TokenKnown`. `Owned`
is about overlaps: a task that met no other one is alone (`Solitude`) and finds store
and auth manager as it left them (`Undisturbed`); only statistics cache a manager
without auth adapters (`BareByStats`); the page of a program that nothing overlapped has
its manager in the global store (`PageOwns`); and a sync runs in the cached manager
unless a known cause took that away (`SyncsCached`). `Signins` is about
tokens: a program has those of its last login and no other (`TokensOfLogin`), and
login pages are of programs nobody is signed in to (`LoginsUnsigned`, `LeavingPage`).

Three more proofs failed first for a good reason and corrected the model. In
`ExternalSync` a record stayed `failed` or `stale` in the wrong steps, and with more
faults and overlaps than the run allows `PullGapsKnown` was false: the history now
forgets what has become `UpToDate`. In `Tenants` two pushes under way could carry the
same event number, so that one could stand in for the other: a push now carries its
own. In `DeviceApp` `TokenKnown` missed a way for a token to go astray that needs more
faults than the run allows: the provider redirects after another program was
opened, and the callback stores the token for that one. `Redirect` now records it
among the known causes, as the property means to list them all.

Model-checked only:

* liveness (`SyncEnds`, `UploadsArrive`, `DownloadsArrive`, `CallsEnd`): it needs fairness
  and ENABLED, which the prover does not reason about;
* what the four violated runs show.

`Provenance`, `CursorsAdvance`, `RootTellsLog` and `NoneOfThreeVerifies` are proved only.

## 6. What is left out

* Audit entries: written, never read by the program, and the client code that
  would send them is commented out.
* Clocks that disagree: all replicas of `InternalSync` read one clock. `late`
  events, the effect of skew that matters most, arise without it.
* The fields of a form and of an entity: a document is the set of forms merged
  into it. Which entities count as similar is a constant of the model, and
  whether a search finds them is left open.
* IndexedDB errors that `saveEntity` logs and ignores.
* Custom event appliers, which a deployment supplies.
* A sync keeps the token it began with after a logout, and the duplicates gate is
  looked at once, at its start (`InternalSyncManager.ts:446`); InternalSync has both as
  the code has them, and no property forbids them.
* The repair of a group with missing members (`EntityDataManager.ts:391`) submits a
  form that removes nobody, and one for every read; EntityApply has it as a form.
* On IndexedDB `deleteEntity` takes one pair per side out of the potential
  duplicates, so a second one can outlive its entities
  (`IndexedDbEntityStorageAdapter.ts:574`); EntityApply has it (`OneOfEach`).
* The two adapters do not search alike (substring against equality). Whether a
  search finds a similar entity is left open.
* DeviceApp: that `currentUser` is lost on a reload because `initialize` of the auth
  manager does not wait for its storage, statistics that count another program's
  entities, the deep-link callback of Capacitor, and the older login view.
* Accounts: passwords (a login succeeds for an account that is there; an edit with
  an empty field sets an empty one), `check-token` and `/me`, which only read, and
  the order in which Postgres lists rows.
* Steps that are one in a model and several in the code, where no property looks in
  between. Tenants: the two public files, json and png, are written and unlinked one
  after the other (`Write`, `Unlink`). ExternalSync: a pull looks its records up one by
  one (`LookUp`). DeviceApp: the count of the statistics between opening and closing a
  store (`Close`), and the up to three initialisations of the route guard (`Open`).
* EntityApply: the saves of a `Promise.all` that still run after one of them threw are
  done at once, or not at all (`SaveMember`, `Throw`).
* ExternalSync: after the members of a household the push to OpenSPP links them and
  creates bank accounts and documents (`CreateIndividual`); these calls swallow their
  errors and do not touch a cursor or the event log.
* Tenants: the start of the server initialises every program. A stored config that is
  broken makes it throw; the configs of the model are not.
* EventStore: `getEvents` on Postgres has no `ORDER BY`. The model reads the rows in the
  order of insertion; were it another one, the root would differ with it.
* The audit-log routes, the Auth0 adapter (as Keycloak's), `createDynamicAuthMiddleware`
  (one check per request), the form designer, and the components that
  `PROJECT.json` lists as not modelled.

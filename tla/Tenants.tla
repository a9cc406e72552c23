------------------------------ MODULE Tenants ------------------------------
(***************************************************************************)
(* The collection programs (tenants) of the server: their configs in the   *)
(* app_configs table, an instance of the data manager for each in memory,  *)
(* their public artifact files, and the requests that change them: POST,   *)
(* PUT and DELETE of /api/apps from the pages of the admin app, pushes of  *)
(* devices, downloads of artifacts. A handler awaits between its steps, so *)
(* the steps of requests interleave. What a config says is modelled by the *)
(* uploads it has taken in: an edit is kept as long as its number is there.*)
(***************************************************************************)
EXTENDS Naturals, FiniteSets

CONSTANTS
    Tenant,
    Req,                             \* requests, or admin pages, at the same time
    Nobody, NoConfig, NoInstance, Error,
    MaxUploads, MaxPushes, MaxFaults

VARIABLES
    config,      \* app_configs: of a tenant, its row
    instances,   \* AppInstanceStoreImpl.instances
    closed,      \* of a tenant, its instances whose pool has ended
    rows,        \* of a tenant, its events in the database; 0 is its entityData
    files,       \* public/artifacts: of an artifact id, the config in the file
    req,         \* of a slot, its request
    uploads, pushes, faults,
    made,        \* history: of an artifact id, the tenant it was generated for
    replaced,    \* history: artifact ids that a POST over their config dropped
    acked,       \* history: of a tenant, the events that were answered "success"
    kept,        \* history: of a tenant, the edits answered "success" since its POST
    torn,        \* history: tenants on which an admin request met another one or
                 \* failed since the server was started,
    frayed,      \* history: or ever
    clashed      \* history: tenants changed while an edit page for them was open

serverVars == <<config, instances, closed, rows, files>>
boundVars == <<uploads, pushes, faults>>
markVars == <<torn, frayed, clashed>>
historyVars == <<made, replaced, acked, kept, markVars>>
vars == <<serverVars, req, boundVars, historyVars>>

Upload == 1 .. MaxUploads            \* also the artifact ids: a POST generates one
Config == [edits : SUBSET Upload, artifactId : Upload, entityData : BOOLEAN]
Id == 1 .. Cardinality(Req) + 2      \* tells the instances of a tenant apart
Instance == [id : Id, edits : SUBSET Upload]
Idle == [kind |-> "none", at |-> "idle", tenant |-> Nobody, form |-> NoConfig, got |-> NoInstance,
         event |-> 0]

ASSUME Sizes ==
    /\ IsFiniteSet(Req) /\ MaxUploads \in Nat /\ MaxPushes \in Nat /\ MaxFaults \in Nat
ASSUME Values ==
    /\ Nobody \notin Tenant /\ NoConfig \notin Config /\ NoInstance \notin Instance
    /\ \A S \in SUBSET (0 .. MaxPushes) : S # Error
    /\ \A S \in SUBSET (Tenant \X SUBSET (0 .. MaxPushes)) : S # Error

Admin == {"post", "put", "delete"}
Working(r) == req[r].at \notin {"idle", "page"}
Quiet(t) == \A r \in Req : Working(r) => req[r].tenant # t

-----------------------------------------------------------------------------
(* What the admin pages show. A manager with a closed pool throws, and the *)
(* list of all programs fails with it.                                     *)

Entities(t) ==
    IF instances[t] = NoInstance THEN {}
    ELSE IF instances[t].id \in closed[t] THEN Error ELSE rows[t]

Listed ==
    LET Apps == {t \in Tenant : config[t] # NoConfig}
    IN  IF \E t \in Apps : Entities(t) = Error THEN Error
        ELSE {<<t, Entities(t)>> : t \in Apps}

Shown(t) == IF config[t] = NoConfig THEN Error ELSE Entities(t)

(* What they send: the editor's payload has neither entityData nor url.    *)

Edited(form, n) == [form EXCEPT !.edits = @ \cup {n}, !.entityData = FALSE]
Created(n) == [edits |-> {n}, artifactId |-> n, entityData |-> FALSE]
Uploaded(n) == [Created(n) EXCEPT !.entityData = TRUE]

-----------------------------------------------------------------------------
TypeOK ==
    /\ config \in [Tenant -> Config \cup {NoConfig}]
    /\ instances \in [Tenant -> Instance \cup {NoInstance}]
    /\ closed \in [Tenant -> SUBSET Id]
    /\ \A t \in Tenant : rows[t] \subseteq 0 .. pushes /\ acked[t] \subseteq 0 .. pushes
    /\ files \in [Upload -> Config \cup {NoConfig}]
    /\ \A t, u \in Tenant : t # u /\ NoConfig \notin {config[t], config[u]} =>
          config[t].artifactId # config[u].artifactId
    /\ \A r \in Req :
          /\ req[r].tenant \in Tenant \cup {Nobody}
          /\ req[r].form \in Config \cup {NoConfig} /\ req[r].got \in Instance \cup {NoInstance}
          /\ (req[r].at = "idle") = (req[r] = Idle)
          /\ req[r].at \in {"write", "page", "save"} => req[r].form # NoConfig
          /\ req[r].at \in {"install", "store"} => req[r].got # NoInstance
    /\ uploads \in 0 .. MaxUploads /\ pushes \in 0 .. MaxPushes /\ faults \in 0 .. MaxFaults
    /\ torn \subseteq frayed /\ frayed \subseteq Tenant /\ clashed \subseteq Tenant
    /\ \A t \in Tenant : kept[t] \subseteq 1 .. uploads

Init ==
    /\ config = [t \in Tenant |-> NoConfig]
    /\ instances = [t \in Tenant |-> NoInstance] /\ closed = [t \in Tenant |-> {}]
    /\ rows = [t \in Tenant |-> {}]
    /\ files = [a \in Upload |-> NoConfig]
    /\ req = [r \in Req |-> Idle]
    /\ uploads = 0 /\ pushes = 0 /\ faults = 0
    /\ made = [a \in Upload |-> Nobody] /\ replaced = {}
    /\ acked = [t \in Tenant |-> {}] /\ kept = [t \in Tenant |-> {}]
    /\ torn = {} /\ frayed = {} /\ clashed = {}

Begin(r, kind, at, t, form, got) ==
    req' = [req EXCEPT ![r] =
        [kind |-> kind, at |-> at, tenant |-> t, form |-> form, got |-> got,
         event |-> IF kind = "push" THEN pushes + 1 ELSE 0]]
Goto(r, at) == req' = [req EXCEPT ![r].at = at]
Finish(r) == req' = [req EXCEPT ![r] = Idle]

\* A request for t begins: it meets those under way for t, and the open pages.
Meet(r, kind, t) ==
    LET others == {q \in Req \ {r} : req[q].tenant = t}
        met == \E q \in others : Working(q) /\ {kind, req[q].kind} \cap Admin # {}
    IN  /\ torn' = IF met THEN torn \cup {t} ELSE torn
        /\ frayed' = IF met THEN frayed \cup {t} ELSE frayed
        /\ clashed' = IF kind \in Admin /\ (\E q \in others : req[q].kind \in Admin)
                      THEN clashed \cup {t} ELSE clashed

\* The server stops, with all requests, and starts again: initialize makes an
\* instance of every config.
Start ==
    /\ instances' = [t \in Tenant |-> IF config[t] = NoConfig THEN NoInstance
                                      ELSE [id |-> 1, edits |-> config[t].edits]]
    /\ closed' = [t \in Tenant |-> {}]
    /\ req' = [r \in Req |-> IF Working(r) THEN Idle ELSE req[r]]
    /\ torn' = {} /\ frayed' = frayed \cup {t \in Tenant : ~Quiet(t)}

-----------------------------------------------------------------------------
(* POST: a new config, or one with a new artifact id over the one that has *)
(* this id; then an instance, its entityData, and the public files.        *)

Post(r, t, form) ==
    /\ req[r] = Idle /\ uploads < MaxUploads
    /\ uploads' = uploads + 1
    /\ Begin(r, "post", "boot", t, NoConfig, NoInstance)
    /\ config' = [config EXCEPT ![t] = form]
    /\ made' = [made EXCEPT ![form.artifactId] = t]
    /\ replaced' = IF config[t] = NoConfig THEN replaced ELSE replaced \cup {config[t].artifactId}
    /\ kept' = [kept EXCEPT ![t] = {}]
    /\ Meet(r, "post", t)
    /\ UNCHANGED <<instances, closed, rows, files, pushes, faults, acked>>

\* A handler's error ends the request; what it has done so far stays.
Break(r) ==
    /\ Finish(r)
    /\ torn' = torn \cup {req[r].tenant} /\ frayed' = frayed \cup {req[r].tenant}

\* createAppInstance: pools and tables for the config as it is now,
Boot(r) ==
    LET t == req[r].tenant
        used == {instances[t]} \cup {req[q].got : q \in Req}
        id == CHOOSE i \in Id : \A x \in used \ {NoInstance} : x.id # i
    IN  /\ req[r].at = "boot"
        /\ IF config[t] = NoConfig
           THEN Break(r) /\ UNCHANGED closed
           ELSE /\ req' = [req EXCEPT ![r].at = "install",
                                      ![r].got = [id |-> id, edits |-> config[t].edits]]
                /\ closed' = [closed EXCEPT ![t] = @ \ {id}]
                /\ UNCHANGED <<torn, frayed>>
        /\ UNCHANGED <<config, instances, rows, files, boundVars, made, replaced, acked, kept, clashed>>

\* and into the table of instances. One that was there stays open, unused.
Install_ThenClose(r) ==
    /\ req[r].at = "install"
    /\ instances' = [instances EXCEPT ![req[r].tenant] = req[r].got]
    /\ closed' = [closed EXCEPT ![req[r].tenant] = @ \cup {req[r].got.id}]
    /\ req' = [req EXCEPT ![r].at = IF req[r].kind = "post" THEN "load" ELSE "publish",
                          ![r].got = NoInstance]
    /\ UNCHANGED <<config, rows, files, boundVars, historyVars>>
Install(r) ==
    /\ req[r].at = "install"
    /\ instances' = [instances EXCEPT ![req[r].tenant] = req[r].got]
    /\ req' = [req EXCEPT ![r].at = IF req[r].kind = "post" THEN "load" ELSE "publish",
                          ![r].got = NoInstance]
    /\ UNCHANGED <<config, closed, rows, files, boundVars, historyVars>>

\* loadEntityData
Load(r) ==
    LET t == req[r].tenant
    IN  /\ req[r].at = "load"
        /\ IF NoConfig = config[t] \/ NoInstance = instances[t]
           THEN Break(r)
           ELSE /\ req' = IF config[t].entityData
                          THEN [req EXCEPT ![r].at = "store", ![r].got = instances[t]]
                          ELSE [req EXCEPT ![r].at = "publish"]
                /\ UNCHANGED <<torn, frayed>>
        /\ UNCHANGED <<serverVars, boundVars, made, replaced, acked, kept, clashed>>

\* generatePublicArtifacts for the config as it is now, and the answer.
Publish_Unchecked(r) ==
    /\ req[r].at = "publish"
    /\ req' = [req EXCEPT ![r].at = "write", ![r].form = config[req[r].tenant]]
    /\ UNCHANGED <<serverVars, boundVars, historyVars>>
Publish(r) ==
    LET t == req[r].tenant
    IN  /\ req[r].at = "publish"
        /\ IF config[t] = NoConfig
           THEN Break(r)
           ELSE /\ req' = [req EXCEPT ![r].at = "write", ![r].form = config[t]]
                /\ UNCHANGED <<torn, frayed>>
        /\ UNCHANGED <<serverVars, boundVars, made, replaced, acked, kept, clashed>>

Write(r) ==
    /\ req[r].at = "write"
    /\ files' = [files EXCEPT ![req[r].form.artifactId] = req[r].form]
    /\ kept' = IF req[r].kind = "get" THEN kept
               ELSE [kept EXCEPT ![req[r].tenant] = @ \cup req[r].form.edits]
    /\ Finish(r)
    /\ UNCHANGED <<config, instances, closed, rows, boundVars, made, replaced, acked, markVars>>

-----------------------------------------------------------------------------
(* PUT: an edit page loads the config; what it saves later is the whole of *)
(* what it loaded, changed, under the artifact id that the row then has.   *)

OpenPage_Blank(r, t) ==
    /\ req[r] = Idle /\ config[t] # NoConfig
    /\ Begin(r, "put", "page", t, [config[t] EXCEPT !.edits = {}], NoInstance)
    /\ clashed' = IF \E q \in Req \ {r} : req[q].tenant = t /\ req[q].kind \in Admin
                  THEN clashed \cup {t} ELSE clashed
    /\ UNCHANGED <<serverVars, boundVars, made, replaced, acked, kept, torn, frayed>>
OpenPage(r, t) ==
    /\ req[r] = Idle /\ config[t] # NoConfig
    /\ Begin(r, "put", "page", t, config[t], NoInstance)
    /\ clashed' = IF \E q \in Req \ {r} : req[q].tenant = t /\ req[q].kind \in Admin
                  THEN clashed \cup {t} ELSE clashed
    /\ UNCHANGED <<serverVars, boundVars, made, replaced, acked, kept, torn, frayed>>

Check(r) ==
    LET t == req[r].tenant
    IN  /\ req[r].at = "page"
        /\ \/ config[t] = NoConfig /\ Finish(r) /\ UNCHANGED <<uploads, markVars>>
           \/ /\ config[t] # NoConfig /\ uploads < MaxUploads
              /\ uploads' = uploads + 1
              /\ req' = [req EXCEPT ![r].at = "save", ![r].form =
                    [Edited(@, uploads + 1) EXCEPT !.artifactId = config[t].artifactId]]
              /\ Meet(r, "put", t)
        /\ UNCHANGED <<serverVars, pushes, faults, made, replaced, acked, kept>>

\* The upsert inserts the row again if it was deleted meanwhile.
Save(r) ==
    /\ req[r].at = "save"
    /\ config' = [config EXCEPT ![req[r].tenant] = req[r].form]
    /\ Goto(r, "swap")
    /\ UNCHANGED <<instances, closed, rows, files, boundVars, historyVars>>

\* updateAppInstance: closes the instance; without one, there is nothing to do.
\* To end a pool twice is an error, which nobody awaits: the process exits.
Dies(r) ==
    LET t == req[r].tenant
    IN  req[r].at = "swap" /\ instances[t] # NoInstance /\ instances[t].id \in closed[t]

Swap_Keep(r) ==
    /\ req[r].at = "swap"
    /\ Goto(r, IF instances[req[r].tenant] = NoInstance THEN "boot" ELSE "publish")
    /\ UNCHANGED <<serverVars, boundVars, historyVars>>
Swap(r) ==
    LET t == req[r].tenant
    IN  /\ req[r].at = "swap"
        /\ \/ instances[t] = NoInstance /\ Goto(r, "publish")
              /\ UNCHANGED <<instances, closed, torn, frayed>>
           \/ /\ instances[t] # NoInstance /\ ~Dies(r) /\ Goto(r, "boot")
              /\ closed' = [closed EXCEPT ![t] = @ \cup {instances[t].id}]
              /\ UNCHANGED <<instances, torn, frayed>>
           \/ Dies(r) /\ Start
        /\ UNCHANGED <<config, rows, files, boundVars, made, replaced, acked, kept, clashed>>

-----------------------------------------------------------------------------
(* DELETE: the row, then the instance with its data, then the files.       *)

Find(r, t) ==
    /\ req[r] = Idle
    /\ Begin(r, "delete", "drop", t, config[t], NoInstance)
    /\ Meet(r, "delete", t)
    /\ UNCHANGED <<serverVars, boundVars, made, replaced, acked, kept>>

Drop(r) ==
    LET t == req[r].tenant
    IN  /\ req[r].at = "drop"
        /\ config' = [config EXCEPT ![t] = NoConfig]
        /\ kept' = [kept EXCEPT ![t] = {}]
        /\ Goto(r, "clear")
        /\ UNCHANGED <<instances, closed, rows, files, boundVars, made, replaced, acked, markVars>>

\* clearAppInstance. Whatever instance is there by then is forgotten, not closed.
Clear(r) ==
    LET t == req[r].tenant
    IN  /\ req[r].at = "clear"
        /\ \/ /\ instances[t] = NoInstance /\ Goto(r, "unlink")
              /\ UNCHANGED <<rows, acked, torn, frayed>>
           \/ /\ instances[t] # NoInstance /\ instances[t].id \in closed[t]
              /\ Break(r) /\ UNCHANGED <<rows, acked>>
           \/ /\ instances[t] # NoInstance /\ instances[t].id \notin closed[t]
              /\ rows' = [rows EXCEPT ![t] = {}] /\ acked' = [acked EXCEPT ![t] = {}]
              /\ Goto(r, "forget") /\ UNCHANGED <<torn, frayed>>
        /\ UNCHANGED <<config, instances, closed, files, boundVars, made, replaced, kept, clashed>>

Forget(r) ==
    /\ req[r].at = "forget"
    /\ instances' = [instances EXCEPT ![req[r].tenant] = NoInstance]
    /\ Goto(r, "unlink")
    /\ UNCHANGED <<config, closed, rows, files, boundVars, historyVars>>

\* deletePublicArtifacts, of the artifact id found at the start
Unlink_Nothing(r) ==
    req[r].at = "unlink" /\ Finish(r) /\ UNCHANGED <<serverVars, boundVars, historyVars>>
Unlink(r) ==
    /\ req[r].at = "unlink"
    /\ files' = IF req[r].form = NoConfig THEN files
                ELSE [files EXCEPT ![req[r].form.artifactId] = NoConfig]
    /\ Finish(r)
    /\ UNCHANGED <<config, instances, closed, rows, boundVars, historyVars>>

-----------------------------------------------------------------------------
(* The other requests, and what may go wrong.                              *)

\* A push takes the instance, and stores its event in it later.
Push(r, t) ==
    /\ req[r] = Idle /\ pushes < MaxPushes /\ instances[t] # NoInstance
    /\ pushes' = pushes + 1
    /\ Begin(r, "push", "store", t, NoConfig, instances[t])
    /\ Meet(r, "push", t)
    /\ UNCHANGED <<serverVars, uploads, faults, made, replaced, acked, kept>>

\* submitForm on a closed pool fails without a word: the answer is "success".
Store(r) ==
    LET t == req[r].tenant
        event == req[r].event
    IN  /\ req[r].at = "store"
        /\ rows' = IF req[r].got.id \in closed[t] THEN rows ELSE [rows EXCEPT ![t] = @ \cup {event}]
        /\ acked' = [acked EXCEPT ![t] = @ \cup {event}]
        /\ IF event = 0 THEN req' = [req EXCEPT ![r].at = "publish", ![r].got = NoInstance]
           ELSE Finish(r)
        /\ UNCHANGED <<config, instances, closed, files, boundVars, made, replaced, kept, markVars>>

\* GET /artifacts: a file is served as it is; without one, the config is looked up.
Fetch(r, t) ==
    /\ req[r] = Idle /\ config[t] # NoConfig /\ files[config[t].artifactId] = NoConfig
    /\ Begin(r, "get", "write", t, config[t], NoInstance)
    /\ Meet(r, "get", t)
    /\ UNCHANGED <<serverVars, boundVars, made, replaced, acked, kept>>

\* A query or a write to a file throws.
Throw(r) ==
    /\ Working(r) /\ faults < MaxFaults /\ faults' = faults + 1
    /\ Break(r)
    /\ UNCHANGED <<serverVars, uploads, pushes, made, replaced, acked, kept, clashed>>

Restart ==
    /\ faults < MaxFaults /\ faults' = faults + 1
    /\ Start
    /\ UNCHANGED <<config, rows, files, uploads, pushes, made, replaced, acked, kept, clashed>>

Next ==
    \/ \E r \in Req, t \in Tenant :
          \/ \E form \in {Created(uploads + 1), Uploaded(uploads + 1)} : Post(r, t, form)
          \/ OpenPage(r, t) \/ Find(r, t) \/ Push(r, t) \/ Fetch(r, t)
    \/ \E r \in Req :
          \/ Boot(r) \/ Install(r) \/ Load(r) \/ Publish(r) \/ Write(r)
          \/ Check(r) \/ Save(r) \/ Swap(r) \/ Drop(r) \/ Clear(r) \/ Forget(r) \/ Unlink(r)
          \/ Store(r) \/ Throw(r)
    \/ Restart

Spec == Init /\ [][Next]_vars

-----------------------------------------------------------------------------
(* Properties. They say what holds when the requests for a tenant came one *)
(* after the other; every gap is one that an overlap or a failure opens.   *)

\* A tenant has an instance if and only if it has a config; the instance was made
\* from that config, is open, and its page shows its data. A deleted one leaves none.
\* Only one that is being changed can make the list of programs fail, and a PUT
\* does not end the server.
InstanceIsOfConfig ==
    /\ \A t \in Tenant \ torn : Quiet(t) =>
          IF config[t] = NoConfig THEN instances[t] = NoInstance /\ (rows[t] = {} \/ t \in frayed)
          ELSE Shown(t) = rows[t] /\ instances[t].edits = config[t].edits
    /\ Listed = Error => \E t \in Tenant : t \in torn \/ ~Quiet(t)
    /\ \A r \in Req : Dies(r) => req[r].tenant \in torn

\* An artifact file is the config of its program, and gone when that is; only one
\* that a POST over an existing program left behind stays as it was.
FilesKnown ==
    \A a \in Upload :
        LET t == made[a]
        IN  t \in Tenant \ frayed /\ Quiet(t) /\ a \notin replaced =>
                files[a] = IF config[t] # NoConfig /\ config[t].artifactId = a THEN config[t]
                           ELSE NoConfig

\* What was answered "success" is in the tenant's events until it is deleted.
PushesKept == \A t \in Tenant \ frayed : acked[t] \subseteq rows[t]

\* An edit that was answered "success" is in the config until the program is
\* replaced or deleted, unless somebody changed it while a page was open.
EditsKept ==
    \A t \in Tenant \ clashed : config[t] # NoConfig => kept[t] \subseteq config[t].edits
=============================================================================

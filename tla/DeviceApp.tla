----------------------------- MODULE DeviceApp -----------------------------
(***************************************************************************)
(* The mobile app: collection programs with a local database each, a cache *)
(* of data managers over them, one global `store` that the pages use, one  *)
(* auth manager, and the sign-in state that outlives a reload: the tokens  *)
(* of every program, and the session of the identity provider, which       *)
(* programs with the same client share. Page loads, logins, logouts and    *)
(* the statistics of the home page are asynchronous and overlap: each is a *)
(* task in a slot. A closed manager keeps working, closeConnection of the  *)
(* IndexedDB adapters does nothing.                                        *)
(***************************************************************************)
EXTENDS Naturals, FiniteSets

CONSTANTS
    App,
    Slot,                            \* tasks at the same time
    None,
    OidcFirst,                       \* getToken takes the provider's token first:
                                     \* "auth0" < "default" < "keycloak"
    MaxSyncs,                        \* syncs at the same time
    MaxFaults                        \* overlaps of tasks, logouts and callbacks cut short

VARIABLES
    cache,       \* storeCache: of a program, its manager
    bare,        \* programs whose cached manager has no auth adapters
    store,       \* the exported `store`
    am,          \* authManager of the auth store, what it needs of the manager
    amApp,       \* its appId, set before the manager is
    page,        \* the route shown
    going,       \* the task whose navigation is the latest
    task,
    syncing,     \* the syncs under way
    tokens,      \* the token storage of every program
    session,     \* whether the provider's session exists
    faults,
    mixed,       \* history: another task ran while this page of a program was
                 \* loaded or open
    login        \* history: the provider of a program's last login, "none" after a
                 \* logout, "strayed" when a failure or something done for another
                 \* program has changed its tokens or the session

pageVars == <<page, going, task>>
storeVars == <<cache, bare, store, am, amApp>>
authVars == <<tokens, session, login>>
vars == <<storeVars, pageVars, syncing, authVars, faults, mixed>>

Id == 1 .. MaxSyncs + 1
Manager == [app : App, id : Id]      \* their ids tell those of a program apart
Auth == [app : App, adapters : BOOLEAN]
Page == [at : {"home", "blank"}, app : {None}] \cup [at : {"view", "login", "provider"}, app : App]
Sync == [mgr : Manager, by : App, loose : BOOLEAN]
Kind == {"stats", "open", "login", "logout", "default", "oidc"}
Task == [kind : Kind, app : App, at : {"init", "build", "act", "answer"}, rest : SUBSET App,
         alone : BOOLEAN, mine : BOOLEAN, of : App \cup {None}]
Idle == [kind |-> "none"]

ASSUME Bounds == MaxSyncs \in Nat /\ MaxFaults \in Nat
ASSUME NoneIsNone == None \notin App \cup Slot \cup Manager \cup Auth

Busy(r) == task[r] # Idle
View(a) == [at |-> "view", app |-> a]
LoginPage(a) == [at |-> "login", app |-> a]
Home == [at |-> "home", app |-> None]
Blank == [at |-> "blank", app |-> None]

Provider == {"default", "oidc"}

\* The token a sync of a sends: the first in the key order of the storage.
Token(a) ==
    LET first == IF OidcFirst THEN "oidc" ELSE "default"
    IN  IF tokens[a] = {} THEN "none"
        ELSE CHOOSE p \in tokens[a] : first \in tokens[a] => p = first

Authenticated(m) == (m.adapters /\ session) \/ "default" \in tokens[m.app]

\* A manager that no sync runs in; it takes the place of those in cache and store.
Fresh(a) ==
    LET used == {s.mgr.id : s \in {x \in syncing : x.mgr.app = a}}
    IN  [app |-> a, id |-> CHOOSE i \in Id : \A j \in 1 .. i : (j \in used) = (j < i)]

-----------------------------------------------------------------------------
TypeOK ==
    /\ \A a \in App : cache[a] = None \/ (cache[a] \in Manager /\ cache[a].app = a)
    /\ bare \subseteq {a \in App : cache[a] # None}
    /\ store \in Manager \cup {None} /\ am \in Auth \cup {None}
    /\ amApp \in App \cup {None}
    /\ page \in Page
    /\ page.at = "view" => store # None
    /\ going \in Slot \cup {None}
    /\ \A r \in Slot : task[r] \in Task \cup {Idle}
    /\ \A r \in Slot : Busy(r) /\ task[r].at = "act" /\ task[r].kind # "stats" => am # None
    /\ syncing \subseteq Sync /\ Cardinality(syncing) <= MaxSyncs
    /\ \A s, u \in syncing : s.mgr = u.mgr => s = u
    /\ tokens \in [App -> SUBSET Provider] /\ login \in [App -> Provider \cup {"none", "strayed"}]
    /\ session \in BOOLEAN
    /\ faults \in 0 .. MaxFaults
    /\ mixed \in BOOLEAN

New(kind, a) == [kind |-> kind, app |-> a, at |-> "init", rest |-> {}, alone |-> TRUE,
                 mine |-> TRUE, of |-> None]
Stats(a) == [New("stats", a) EXCEPT !.rest = App \ {a}]

\* A new JavaScript context: the only task is t, in the slot r.
Load(r, t) ==
    /\ cache' = [a \in App |-> None] /\ bare' = {} /\ store' = None /\ am' = None
    /\ amApp' = IF t.kind = "stats" THEN None ELSE t.app
    /\ page' = IF t.kind = "stats" THEN Home ELSE Blank
    /\ task' = [s \in Slot |-> IF s = r THEN t ELSE Idle]
    /\ going' = IF t.kind = "stats" THEN None ELSE r
    /\ syncing' = {} /\ mixed' = FALSE

Init ==
    /\ cache = [a \in App |-> None] /\ bare = {} /\ store = None /\ am = None /\ amApp = None
    /\ page = Home /\ going = None /\ syncing = {} /\ mixed = FALSE
    /\ \E a \in App, r \in Slot : task = [s \in Slot |-> IF s = r THEN Stats(a) ELSE Idle]
    /\ tokens = [a \in App |-> {}] /\ session = FALSE
    /\ faults = 0 /\ login = [a \in App |-> "none"]

\* The task t starts; it overlaps with those under way. A login from a page that
\* was loaded in an overlap that goes on counts as the same overlap.
Begin(r, t) ==
    LET others == {s \in Slot \ {r} : Busy(s)}
    IN  /\ ~Busy(r)
        /\ faults' = IF others = {} \/ (t.kind \in {"default", "oidc"} /\ \A s \in others : ~task[s].alone)
                     THEN faults ELSE faults + 1
        /\ faults' <= MaxFaults
        /\ task' = [s \in Slot |->
              IF s = r THEN [t EXCEPT !.alone = others = {}]
              ELSE IF s \in others THEN [task[s] EXCEPT !.alone = FALSE] ELSE Idle]
        /\ mixed' = (page'.at = "view" /\ (mixed \/ others # {}))
        /\ amApp' = IF t.kind = "stats" THEN amApp ELSE t.app

Stray(S) == [a \in App |-> IF a \in S THEN "strayed" ELSE login[a]]
Signed(a, p) == IF login[a] = "strayed" THEN login ELSE [login EXCEPT ![a] = p]

Goto(r, at) == task' = [task EXCEPT ![r].at = at]

\* The task ends. am and amApp are set again before they are used again, so
\* they are kept only while another task may use them.
Finish(r) ==
    /\ task' = [task EXCEPT ![r] = Idle]
    /\ IF \E s \in Slot \ {r} : Busy(s) /\ task[s].kind # "stats" THEN UNCHANGED <<am, amApp>>
       ELSE am' = None /\ amApp' = None

\* The task goes on to a login page, which initializes again.
ToLogin(r) ==
    /\ task' = [task EXCEPT ![r] = [New("login", @.app) EXCEPT !.alone = task[r].alone]]
    /\ amApp' = task[r].app

-----------------------------------------------------------------------------
(* initStore, by initialize with the auth configs of the program, and by   *)
(* the statistics without them. The guard of a protected route initializes *)
(* up to three times in a row; once stands for all.                        *)

Retarget(r, m, adapters) ==
    /\ store' = m
    /\ am' = IF task[r].kind = "stats" THEN am ELSE [app |-> m.app, adapters |-> adapters]

\* (mutant) a cached manager that is not made the store
Hit_KeepStore(r) ==
    /\ Busy(r) /\ task[r].at = "init" /\ cache[task[r].app] # None
    /\ UNCHANGED store
    /\ am' = IF task[r].kind = "stats" THEN am
             ELSE [app |-> task[r].app, adapters |-> task[r].app \notin bare]
    /\ Goto(r, "act")
    /\ UNCHANGED <<cache, bare, amApp, page, going, syncing, authVars, faults, mixed>>

Hit(r) ==
    /\ Busy(r) /\ task[r].at = "init" /\ cache[task[r].app] # None
    /\ LET a == task[r].app IN Retarget(r, cache[a], a \notin bare)
    /\ Goto(r, "act")
    /\ UNCHANGED <<cache, bare, amApp, page, going, syncing, authVars, faults, mixed>>

Miss(r) ==
    /\ Busy(r) /\ task[r].at = "init" /\ cache[task[r].app] = None
    /\ Goto(r, "build")
    /\ UNCHANGED <<storeVars, page, going, syncing, authVars, faults, mixed>>

\* (mutant) a new manager that is not put into the cache
Build_Uncached(r) ==
    /\ Busy(r) /\ task[r].at = "build"
    /\ LET a == task[r].app
           m == Fresh(a)
           plain == task[r].kind = "stats"
       IN  /\ UNCHANGED cache
           /\ UNCHANGED bare
           /\ Retarget(r, m, ~plain)
    /\ Goto(r, "act")
    /\ UNCHANGED <<amApp, page, going, syncing, authVars, faults, mixed>>

Build(r) ==
    /\ Busy(r) /\ task[r].at = "build"
    /\ LET a == task[r].app
           m == Fresh(a)
           plain == task[r].kind = "stats"
       IN  /\ cache' = [cache EXCEPT ![a] = m]
           /\ bare' = IF plain THEN bare \cup {a} ELSE bare \ {a}
           /\ Retarget(r, m, ~plain)
    /\ Goto(r, "act")
    /\ UNCHANGED <<amApp, page, going, syncing, authVars, faults, mixed>>

-----------------------------------------------------------------------------
(* The home page: for each program, in any order, its store is opened, its *)
(* records are counted, its store is closed, whoever else uses it.         *)

GoHome(r) ==
    /\ page.at \in {"view", "login"}
    /\ page' = Home /\ going' = None
    /\ \E a \in App : Begin(r, Stats(a))
    /\ UNCHANGED <<cache, bare, store, am, syncing, authVars>>

\* A program is added or updated: the list changes, and is counted again.
Import(r) ==
    /\ page' = page
    /\ page = Home
    /\ \E a \in App : Begin(r, Stats(a))
    /\ UNCHANGED <<going, cache, bare, store, am, syncing, authVars>>

Close(r) ==
    /\ Busy(r) /\ task[r].kind = "stats" /\ task[r].at = "act"
    /\ LET a == task[r].app
           rest == task[r].rest
       IN  /\ cache' = [cache EXCEPT ![a] = None] /\ bare' = bare \ {a}
           /\ syncing' = {[s EXCEPT !.loose = @ \/ s.mgr = cache[a]] : s \in syncing}
           /\ IF rest = {} THEN Finish(r)
              ELSE /\ \E b \in rest : task' =
                       [task EXCEPT ![r].app = b, ![r].at = "init", ![r].rest = @ \ {b}]
                   /\ UNCHANGED <<am, amApp>>
    /\ UNCHANGED <<store, page, going, authVars, faults, mixed>>

-----------------------------------------------------------------------------
(* The pages of a program.                                                 *)

Open(r) ==
    /\ page' = page
    /\ \E a \in App : page \in {Home, View(a)} /\ Begin(r, New("open", a))
    /\ going' = r
    /\ UNCHANGED <<cache, bare, store, am, syncing, authVars>>

\* A later navigation cancels this one.
Arrive(r, p) ==
    /\ Finish(r)
    /\ IF going = r THEN page' = p /\ going' = None /\ mixed' = (p.at = "view" /\ ~task[r].alone)
       ELSE UNCHANGED <<page, going, mixed>>

Show(r) ==
    /\ Busy(r) /\ task[r].kind = "open" /\ task[r].at = "act"
    /\ IF Authenticated(am) \/ going # r
       THEN Arrive(r, View(task[r].app))
       ELSE ToLogin(r) /\ UNCHANGED <<am, page, going, mixed>>
    /\ UNCHANGED <<cache, bare, store, syncing, authVars, faults>>

ShowLogin(r) ==
    /\ Busy(r) /\ task[r].kind = "login" /\ task[r].at = "act"
    /\ Arrive(r, LoginPage(task[r].app))
    /\ login' = IF task[r].alone THEN login ELSE Stray({task[r].app})
    /\ UNCHANGED <<cache, bare, store, syncing, tokens, session, faults>>

\* The program whose database takes what a page of a program submits.
Target == store.app

-----------------------------------------------------------------------------
(* A sync of the shown program: on load, by the button, or when the network*)
(* is back. One that is refused logs out the program of the page shown     *)
(* then, or on the home page the one it was started for.                   *)

\* (mutant) without the flag isSyncing
StartSync_Again ==
    /\ page.at = "view" /\ Cardinality(syncing) < MaxSyncs
    /\ syncing' = syncing \cup {[mgr |-> store, by |-> page.app, loose |-> mixed]}
    /\ UNCHANGED <<storeVars, pageVars, authVars, faults, mixed>>

StartSync ==
    /\ page.at = "view" /\ Cardinality(syncing) < MaxSyncs
    /\ \A s \in syncing : s.mgr # store
    /\ syncing' = syncing \cup {[mgr |-> store, by |-> page.app, loose |-> mixed]}
    /\ UNCHANGED <<storeVars, pageVars, authVars, faults, mixed>>

Done ==
    /\ \E s \in syncing : syncing' = syncing \ {s}
    /\ UNCHANGED <<storeVars, pageVars, authVars, faults, mixed>>

Refused(r) ==
    /\ page' = page
    /\ \E s \in syncing :
          LET a == IF page.app # None THEN page.app ELSE s.by
          IN  /\ syncing' = syncing \ {s}
              /\ Begin(r, [New("logout", a) EXCEPT !.mine = a = s.by])
    /\ UNCHANGED <<going, cache, bare, store, am, authVars>>

AskLogout(r) ==
    /\ page' = page
    /\ page.at = "view" /\ Begin(r, New("logout", page.app))
    /\ UNCHANGED <<going, cache, bare, store, am, syncing, authVars>>

\* (mutant) the adapters log out, the tokens stay
Logout_KeepTokens(r) ==
    /\ Busy(r) /\ task[r].kind = "logout" /\ task[r].at = "act"
    /\ LET a == am.app
           asked == a = task[r].app /\ task[r].mine
           out(S) == IF asked THEN [Stray(S) EXCEPT ![a] = "none"] ELSE Stray(S \cup {a, task[r].app})
       IN  /\ UNCHANGED tokens
           /\ \/ ~session /\ login' = out({}) /\ UNCHANGED <<session, faults>>
              \/ /\ session /\ am.adapters
                 /\ session' = FALSE /\ login' = out(App) /\ UNCHANGED faults
              \/ /\ session
                 /\ faults' = IF am.adapters THEN faults + 1 ELSE faults
                 /\ faults' <= MaxFaults
                 /\ login' = Stray({a, task[r].app}) /\ UNCHANGED session
    /\ ToLogin(r)
    /\ going' = r
    /\ UNCHANGED <<page, cache, bare, store, am, syncing, mixed>>

\* The adapters are not waited for: the session may survive. Without adapters
\* it always does.
Logout(r) ==
    /\ Busy(r) /\ task[r].kind = "logout" /\ task[r].at = "act"
    /\ LET a == am.app
           asked == a = task[r].app /\ task[r].mine
           out(S) == IF asked THEN [Stray(S) EXCEPT ![a] = "none"] ELSE Stray(S \cup {a, task[r].app})
       IN  /\ tokens' = [tokens EXCEPT ![a] = {}]
           /\ \/ ~session /\ login' = out({}) /\ UNCHANGED <<session, faults>>
              \/ /\ session /\ am.adapters
                 /\ session' = FALSE /\ login' = out(App) /\ UNCHANGED faults
              \/ /\ session
                 /\ faults' = IF am.adapters THEN faults + 1 ELSE faults
                 /\ faults' <= MaxFaults
                 /\ login' = Stray({a, task[r].app}) /\ UNCHANGED session
    /\ ToLogin(r)
    /\ going' = r
    /\ UNCHANGED <<page, cache, bare, store, am, syncing, mixed>>

-----------------------------------------------------------------------------
(* The login page. Initializing awaits the answer of isAuthenticated, so a *)
(* login uses the auth manager of whoever initialized last.                *)

Login(r) ==
    /\ page' = page
    /\ page.at = "login"
    /\ \E kind \in {"default", "oidc"} : Begin(r, New(kind, page.app))
    /\ UNCHANGED <<going, cache, bare, store, am, syncing, authVars>>

Post(r) ==
    /\ Busy(r) /\ task[r].kind = "default" /\ task[r].at = "act"
    /\ task' = [task EXCEPT ![r].at = "answer", ![r].of = am.app]
    /\ UNCHANGED <<storeVars, page, going, syncing, authVars, faults, mixed>>

Deny(r) ==
    /\ Busy(r) /\ task[r].at = "answer"
    /\ Finish(r)
    /\ UNCHANGED <<cache, bare, store, page, going, syncing, authVars, faults, mixed>>

\* The token is stored, and the page goes to the program by its address.
Answer(r) ==
    /\ Busy(r) /\ task[r].at = "answer"
    /\ LET a == task[r].of
       IN  /\ tokens' = [tokens EXCEPT ![a] = @ \cup {"default"}]
           /\ login' = IF a = task[r].app THEN Signed(a, "default") ELSE Stray({a})
    /\ Load(r, New("open", amApp))
    /\ UNCHANGED <<session, faults>>

\* The page goes to the identity provider, unless the manager has no adapter. The
\* token will be stored for the program opened last, which may be another one.
Redirect(r) ==
    /\ Busy(r) /\ task[r].kind = "oidc" /\ task[r].at = "act"
    /\ IF am.adapters
       THEN /\ page' = [at |-> "provider", app |-> amApp]
            /\ cache' = [a \in App |-> None] /\ bare' = {}
            /\ store' = None /\ am' = None /\ amApp' = None
            /\ task' = [s \in Slot |-> Idle] /\ going' = None
            /\ syncing' = {} /\ mixed' = FALSE
            /\ login' = IF amApp = task[r].app THEN login ELSE Stray({amApp})
       ELSE Finish(r) /\ UNCHANGED <<cache, bare, store, page, going, syncing, mixed, login>>
    /\ UNCHANGED <<tokens, session, faults>>

\* The provider answers to /callback: oidc-client-ts stores the session, then
\* the adapter stores the token. The app may stop in between.
Callback(r) ==
    /\ page.at = "provider"
    /\ LET a == page.app
           signed == /\ tokens' = [tokens EXCEPT ![a] = @ \cup {"oidc"}]
                     /\ login' = [Stray(App) EXCEPT ![a] = Signed(a, "oidc")[a]]
                     /\ UNCHANGED faults
           stopped == login' = Stray(App) /\ UNCHANGED tokens /\ faults < MaxFaults /\ faults' = faults + 1
       IN  /\ session' = TRUE
           /\ signed \/ stopped
           /\ Load(r, New("open", a))

-----------------------------------------------------------------------------
\* The page is reloaded, or the app killed and started, or the user comes back
\* from the provider without an answer.
Reload(r) ==
    /\ \/ page.at \in {"home", "provider"} /\ \E a \in App : Load(r, Stats(a))
       \/ page.at = "view" /\ Load(r, New("open", page.app))
       \/ page.at = "login" /\ Load(r, New("login", page.app))
    /\ UNCHANGED <<authVars, faults>>

Next ==
    \/ \E r \in Slot :
          \/ Hit(r) \/ Miss(r) \/ Build(r)
          \/ GoHome(r) \/ Import(r) \/ Close(r)
          \/ Open(r) \/ Show(r) \/ ShowLogin(r)
          \/ Refused(r) \/ AskLogout(r) \/ Logout(r)
          \/ Login(r) \/ Post(r) \/ Deny(r) \/ Answer(r) \/ Redirect(r) \/ Callback(r)
          \/ Reload(r)
    \/ StartSync \/ Done

Spec == Init /\ [][Next]_vars

-----------------------------------------------------------------------------
\* A form that is filled in for one program is stored, and later sent, with
\* another's only when something else retargeted `store` while its page was
\* loaded or open.
FormsKnown == page.at = "view" /\ ~mixed => Target = page.app

\* Two syncs work on one database at the same time only when the statistics
\* closed the store of a running sync, or page loads overlapped: the flag
\* isSyncing belongs to a manager.
SyncsKnown ==
    \A s, u \in syncing : s # u /\ s.mgr.app = u.mgr.app =>
        s.loose \/ u.loose

\* Whoever signed in to a program stays signed in, with the token of that
\* login, and an open page means so, unless a failure or something done for
\* another program came in between.
TokenKnown ==
    \A a \in App : login[a] # "strayed" =>
        /\ login[a] # "none" => /\ Token(a) = login[a]
                               /\ Authenticated([app |-> a, adapters |-> TRUE])
        /\ page = View(a) /\ ~mixed /\ (\A r \in Slot : ~Busy(r)) => login[a] # "none"
=============================================================================

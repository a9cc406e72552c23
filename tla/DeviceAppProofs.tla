-------------------------- MODULE DeviceAppProofs --------------------------
(***************************************************************************)
(* Proofs about the mobile app, for any programs, task slots, syncs and    *)
(* faults, in three layers: what the variables are; the store, the cache   *)
(* and the syncs while tasks overlap; the tokens and the provider session. *)
(***************************************************************************)
EXTENDS DeviceApp, FiniteSetTheorems, WellFoundedInduction, TLAPS

-----------------------------------------------------------------------------
(* The inductive invariant, first layer: what TypeOK leaves out.           *)

Shape ==
    /\ cache \in [App -> Manager \cup {None}]
    /\ task \in [Slot -> Task \cup {Idle}]
    /\ IsFiniteSet(syncing)

\* A task that has opened its program finds a store, and all but the statistics
\* have set the appId of the auth manager. Only a password login has an answer.
Prepared ==
    \A r \in Slot : Busy(r) =>
        /\ task[r].at = "act" => store # None
        /\ task[r].kind # "stats" => amApp # None
        /\ task[r].at = "answer" => task[r].of # None /\ task[r].kind = "default"

Typed == TypeOK /\ Shape /\ Prepared

-----------------------------------------------------------------------------
(* Second layer: the store and the syncs.                                  *)

\* A task that has met no other one is the only one.
Solitude ==
    \A r, s \in Slot : Busy(r) /\ task[r].alone /\ Busy(s) => r = s

\* Such a task works on what it has opened itself: no other task takes the store,
\* the auth manager or the cached manager from it.
Undisturbed ==
    \A r \in Slot : Busy(r) /\ task[r].alone =>
        LET a == task[r].app
        IN  /\ task[r].at = "build" => cache[a] = None
            /\ task[r].at = "act" => cache[a] # None /\ store = cache[a]
            /\ task[r].kind # "stats" => /\ amApp = a
                                         /\ task[r].at = "act" => am = [app |-> a, adapters |-> TRUE]
            /\ task[r].at = "answer" => task[r].of = a

\* Only the statistics cache a manager without auth adapters, until they close it.
BareByStats ==
    \A a \in bare : \E r \in Slot :
        Busy(r) /\ task[r].kind = "stats" /\ task[r].at = "act" /\ task[r].app = a

\* On the page of a program that was opened and has stayed without an overlap,
\* every task is alone, not a login, and for that program, whose manager is the store.
PageOwns ==
    page.at = "view" /\ ~mixed =>
        /\ cache[page.app] # None /\ store = cache[page.app]
        /\ \A r \in Slot : Busy(r) =>
              task[r].alone /\ task[r].kind \in {"open", "logout", "login"} /\ task[r].app = page.app

\* A sync that is not loose runs in the cached manager of its program; while a
\* manager is being built for a program, all its syncs are loose.
SyncsCached ==
    \A s \in syncing : ~s.loose =>
        /\ cache[s.mgr.app] = s.mgr
        /\ \A r \in Slot : Busy(r) /\ task[r].at = "build" => task[r].app # s.mgr.app

-----------------------------------------------------------------------------
(* Third layer: who is signed in.                                          *)

Unsigned(a) == login[a] \in {"none", "strayed"}

\* A program that was last signed in to with a provider has the token of that one
\* and no other; one that was not has none, and there is no session then.
TokensOfLogin ==
    \A a \in App :
        /\ login[a] = "none" => tokens[a] = {} /\ ~session
        /\ login[a] = "default" => tokens[a] = {"default"}
        /\ login[a] = "oidc" => tokens[a] = {"oidc"} /\ session

\* A login page, and a login under way, is of a program nobody is signed in to.
LoginsUnsigned ==
    /\ page.at \in {"login", "provider"} => Unsigned(page.app)
    /\ \A r \in Slot :
          Busy(r) /\ (task[r].kind \in {"default", "oidc"} \/ (task[r].kind = "login" /\ task[r].alone))
            => Unsigned(task[r].app)

\* After a logout that nothing overlapped, the page of the program is on its way
\* to the login page.
LeavingPage ==
    page.at = "view" /\ ~mixed /\ login[page.app] = "none" =>
        \E r \in Slot : Busy(r) /\ task[r].kind = "login" /\ going = r

IInv == /\ Typed
        /\ Solitude /\ Undisturbed /\ BareByStats /\ PageOwns /\ SyncsCached
        /\ TokensOfLogin /\ LoginsUnsigned /\ LeavingPage

-----------------------------------------------------------------------------
(* What the operators of the model do.                                     *)

\* There is an id left for a new manager: fewer syncs run than there are ids.
LEMMA FreshManager ==
  ASSUME IsFiniteSet(syncing), syncing \subseteq Sync, Cardinality(syncing) <= MaxSyncs, NEW a \in App
  PROVE  Fresh(a) \in Manager /\ Fresh(a).app = a
<1> DEFINE mine == {x \in syncing : x.mgr.app = a}
           used == {s.mgr.id : s \in mine}
           id == [s \in mine |-> s.mgr.id]
           least(i) == \A j \in 1 .. i : (j \in used) = (j < i)
<1>1. IsFiniteSet(mine) /\ Cardinality(mine) <= MaxSyncs
  <2>1. mine \in SUBSET syncing
    OBVIOUS
  <2>2. IsFiniteSet(mine) /\ Cardinality(mine) <= Cardinality(syncing)
    BY <2>1, FS_Subset
  <2>3. Cardinality(mine) \in Nat /\ Cardinality(syncing) \in Nat
    BY <2>2, FS_CardinalityType
  <2>4. QED
    BY <2>2, <2>3, Bounds
<1>2. IsFiniteSet(used) /\ Cardinality(used) <= Cardinality(mine)
  <2>1. id \in Surjection(mine, used)
    BY DEF Surjection
  <2> HIDE DEF id, used, mine
  <2>2. QED
    BY <2>1, <1>1, FS_Surjection
<1>3. IsFiniteSet(Id) /\ Cardinality(Id) = MaxSyncs + 1
  BY FS_Interval, Bounds DEF Id
<1>4. Id \ used # {}
  <2>1. SUFFICES ASSUME Id \subseteq used PROVE FALSE
    OBVIOUS
  <2>2. Cardinality(Id) <= Cardinality(used)
    <3> HIDE DEF used
    <3>1. Id \in SUBSET used
      BY <2>1
    <3>2. QED
      BY <3>1, <1>2, FS_Subset
  <2>3. Cardinality(used) \in Nat /\ Cardinality(mine) \in Nat
    BY <1>1, <1>2, FS_CardinalityType
  <2>4. QED
    BY <2>2, <2>3, <1>1, <1>2, <1>3, Bounds
<1> HIDE DEF used
<1>5. PICK i \in Id \ used : \A j \in Id \ used : ~(j < i)
  <2>1. Id \ used \subseteq Nat
    BY Bounds DEF Id
  <2>2. PICK i \in Id \ used : \A j \in Id \ used : ~(<<j, i>> \in OpToRel(<, Nat))
    BY <2>1, <1>4, NatLessThanWellFounded, WFMin
  <2>3. QED
    BY <2>1, <2>2 DEF OpToRel
<1>6. least(i)
  <2> SUFFICES ASSUME NEW j \in 1 .. i PROVE (j \in used) = (j < i)
    OBVIOUS
  <2>1. i \in 1 .. MaxSyncs + 1 /\ i \notin used
    BY <1>5 DEF Id
  <2>2. j \in Id
    BY <2>1, Bounds DEF Id
  <2>3. CASE j = i
    BY <2>1, <2>3, Bounds
  <2>4. CASE j # i
    BY <2>1, <2>2, <2>4, <1>5, Bounds DEF Id
  <2>5. QED
    BY <2>3, <2>4
<1>7. (CHOOSE k \in Id : least(k)) \in Id
  <2> HIDE DEF least
  <2>1. QED
    BY <1>5, <1>6
<1>8. Fresh(a) = [app |-> a, id |-> CHOOSE k \in Id : least(k)]
  BY DEF Fresh, used
<1> HIDE DEF least
<1>9. QED
  BY <1>7, <1>8 DEF Manager

\* The identities of programs and managers are what they are told apart by.
LEMMA Identities ==
  /\ Idle \notin Task
  /\ \A a \in App : a # None
  /\ \A m \in Manager : m # None
  /\ \A x \in Auth : x # None
<1>1. ASSUME Idle \in Task PROVE FALSE
  <2>1. Idle.kind \in Kind
    BY <1>1 DEF Task
  <2>2. QED
    BY <2>1 DEF Idle, Kind
<1>2. QED
  BY <1>1, NoneIsNone

\* A slot is busy when it holds a task.
LEMMA BusyTask ==
  ASSUME Shape, NEW r \in Slot
  PROVE  Busy(r) <=> task[r] \in Task
  BY Identities DEF Shape, Busy

\* A task that starts is one,
LEMMA NewTask ==
  ASSUME NEW kind \in Kind, NEW a \in App
  PROVE  /\ New(kind, a) \in Task
         /\ New(kind, a).kind = kind /\ New(kind, a).app = a /\ New(kind, a).at = "init"
  BY DEF New, Task

\* and so is the one that reads the statistics.
LEMMA StatsTask ==
  ASSUME NEW a \in App
  PROVE  Stats(a) \in Task /\ Stats(a).kind = "stats" /\ Stats(a).app = a /\ Stats(a).at = "init"
<1>1. New("stats", a) \in Task
  BY NewTask DEF Kind
<1>2. QED
  BY <1>1, NewTask DEF Stats, Task, Kind

\* A task goes on; the others are not touched.
LEMMA GotoTask ==
  ASSUME Shape, NEW r \in Slot, Busy(r), NEW at \in {"init", "build", "act", "answer"}, Goto(r, at)
  PROVE  /\ task' \in [Slot -> Task \cup {Idle}]
         /\ task'[r] \in Task /\ task'[r].at = at
         /\ task'[r].kind = task[r].kind /\ task'[r].app = task[r].app
         /\ task'[r].alone = task[r].alone /\ task'[r].of = task[r].of
         /\ \A s \in Slot \ {r} : task'[s] = task[s]
<1>1. task[r] \in Task /\ task \in [Slot -> Task \cup {Idle}]
  BY BusyTask DEF Shape
<1>2. [task[r] EXCEPT !.at = at] \in Task
  BY <1>1 DEF Task
<1>3. task' = [task EXCEPT ![r] = [task[r] EXCEPT !.at = at]]
  BY DEF Goto
<1>4. task'[r] = [task[r] EXCEPT !.at = at]
  BY <1>1, <1>3
<1>5. QED
  BY <1>1, <1>2, <1>3, <1>4 DEF Task

\* A task ends.
LEMMA FinishTask ==
  ASSUME Shape, NEW r \in Slot, Finish(r)
  PROVE  /\ task' \in [Slot -> Task \cup {Idle}]
         /\ task'[r] = Idle
         /\ \A s \in Slot \ {r} : task'[s] = task[s]
         /\ \/ am' = am /\ amApp' = amApp
            \/ /\ am' = None /\ amApp' = None
               /\ \A s \in Slot \ {r} : Busy(s) => task[s].kind = "stats"
  BY DEF Finish, Shape

\* A task goes to the login page.
LEMMA ToLoginTask ==
  ASSUME Shape, NEW r \in Slot, Busy(r), ToLogin(r)
  PROVE  /\ task' \in [Slot -> Task \cup {Idle}]
         /\ task'[r] \in Task /\ task'[r].at = "init" /\ task'[r].kind = "login"
         /\ task'[r].app = task[r].app /\ task'[r].alone = task[r].alone
         /\ \A s \in Slot \ {r} : task'[s] = task[s]
         /\ amApp' = task[r].app /\ amApp' \in App
<1>1. task[r] \in Task /\ task \in [Slot -> Task \cup {Idle}]
  BY BusyTask DEF Shape
<1>2. New("login", task[r].app) \in Task
  BY <1>1, NewTask DEF Task, Kind
<1> DEFINE t == [New("login", task[r].app) EXCEPT !.alone = task[r].alone]
<1>3. /\ t \in Task /\ t.at = "init" /\ t.kind = "login"
      /\ t.app = task[r].app /\ t.alone = task[r].alone
  BY <1>1, <1>2 DEF Task, New
<1>4. task' = [task EXCEPT ![r] = t] /\ amApp' = task[r].app
  BY DEF ToLogin
<1> HIDE DEF t
<1>5. task'[r] = t /\ \A s \in Slot \ {r} : task'[s] = task[s]
  BY <1>1, <1>4
<1>6. QED
  BY <1>1, <1>3, <1>4, <1>5 DEF Task

\* A task begins; those under way are not alone any more.
LEMMA BeginTask ==
  ASSUME Shape, faults \in 0 .. MaxFaults, NEW r \in Slot, NEW t \in Task, Begin(r, t)
  PROVE  /\ task' \in [Slot -> Task \cup {Idle}]
         /\ ~Busy(r) /\ task'[r] \in Task
         /\ task'[r].kind = t.kind /\ task'[r].app = t.app /\ task'[r].at = t.at
         /\ task'[r].alone <=> \A s \in Slot \ {r} : ~Busy(s)
         /\ \A s \in Slot \ {r} :
               \/ task[s] = Idle /\ task'[s] = Idle
               \/ /\ task[s] \in Task /\ task'[s] \in Task
                  /\ task'[s].kind = task[s].kind /\ task'[s].app = task[s].app
                  /\ task'[s].at = task[s].at /\ task'[s].of = task[s].of
                  /\ task'[s].alone = FALSE
         /\ faults' \in 0 .. MaxFaults
         /\ mixed' = (page'.at = "view" /\ (mixed \/ ~task'[r].alone))
         /\ amApp' = IF t.kind = "stats" THEN amApp ELSE t.app
<1> DEFINE others == {s \in Slot \ {r} : Busy(s)}
           new == [t EXCEPT !.alone = (others = {})]
           Met(s) == [task[s] EXCEPT !.alone = FALSE]
<1>1. /\ new \in Task /\ new.alone = (others = {})
      /\ new.kind = t.kind /\ new.app = t.app /\ new.at = t.at
  BY DEF Task
<1>2. ASSUME NEW s \in others
      PROVE  /\ task[s] \in Task /\ Met(s) \in Task /\ Met(s).alone = FALSE
             /\ Met(s).kind = task[s].kind /\ Met(s).app = task[s].app
             /\ Met(s).at = task[s].at /\ Met(s).of = task[s].of
  <2>1. task[s] \in Task
    BY BusyTask
  <2>2. QED
    BY <2>1 DEF Task
<1>3. task' = [s \in Slot |-> IF s = r THEN new ELSE IF s \in others THEN Met(s) ELSE Idle]
  BY DEF Begin
<1>4. /\ mixed' = (page'.at = "view" /\ (mixed \/ others # {}))
      /\ amApp' = (IF t.kind = "stats" THEN amApp ELSE t.app) /\ ~Busy(r)
      /\ faults' \in {faults, faults + 1} /\ faults' <= MaxFaults
  BY DEF Begin
<1>5. \A s \in Slot \ {r} : s \notin others => task[s] = Idle
  BY DEF Busy
<1>6. others = {} <=> \A s \in Slot \ {r} : ~Busy(s)
  OBVIOUS
<1> HIDE DEF others, new, Met
<1>7. task'[r] = new /\ \A s \in Slot \ {r} : task'[s] = IF s \in others THEN Met(s) ELSE Idle
  BY <1>3
<1>8. task' \in [Slot -> Task \cup {Idle}]
  BY <1>1, <1>2, <1>3
<1>9. faults' \in 0 .. MaxFaults
  BY <1>4, Bounds
<1>10. ASSUME NEW s \in Slot \ {r}
       PROVE  \/ task[s] = Idle /\ task'[s] = Idle
              \/ /\ task[s] \in Task /\ task'[s] \in Task
                 /\ task'[s].kind = task[s].kind /\ task'[s].app = task[s].app
                 /\ task'[s].at = task[s].at /\ task'[s].of = task[s].of
                 /\ task'[s].alone = FALSE
  BY <1>2, <1>5, <1>7
<1>11. QED
  BY <1>1, <1>4, <1>6, <1>7, <1>8, <1>9, <1>10

\* A new JavaScript context has one task.
LEMMA LoadTask ==
  ASSUME NEW r \in Slot, NEW t \in Task, Load(r, t)
  PROVE  /\ task' \in [Slot -> Task \cup {Idle}]
         /\ task'[r] = t /\ \A s \in Slot \ {r} : task'[s] = Idle
  BY DEF Load

-----------------------------------------------------------------------------
(* First layer.                                                            *)

\* The start.
LEMMA InitTyped == Init => Typed
<1> SUFFICES ASSUME Init PROVE Typed
  OBVIOUS
<1>1. PICK a \in App, r \in Slot : task = [s \in Slot |-> IF s = r THEN Stats(a) ELSE Idle]
  BY DEF Init
<1>2. Stats(a) \in Task /\ Stats(a).kind = "stats" /\ Stats(a).at = "init"
  BY StatsTask
<1>3. \A s \in Slot : task[s] \in Task \cup {Idle} /\ (Busy(s) => task[s] = Stats(a))
  BY <1>1, <1>2 DEF Busy
<1>4. Shape
  <2>1. task \in [Slot -> Task \cup {Idle}]
    BY <1>1, <1>2
  <2>2. QED
    BY <2>1, FS_EmptySet DEF Init, Shape
<1>5. Prepared
  BY <1>2, <1>3 DEF Prepared
<1>6. TypeOK
  <2>1. faults \in 0 .. MaxFaults /\ Cardinality(syncing) <= MaxSyncs
    BY Bounds, FS_EmptySet DEF Init
  <2>2. page \in Page /\ page.at # "view"
    BY DEF Init, Home, Page
  <2>3. tokens \in [App -> SUBSET Provider] /\ login \in [App -> Provider \cup {"none", "strayed"}]
    BY DEF Init, Provider
  <2>4. QED
    BY <1>2, <1>3, <2>1, <2>2, <2>3 DEF Init, TypeOK
<1>7. QED
  BY <1>4, <1>5, <1>6 DEF Typed

\* What a step that touches neither the pages nor the syncs has to show.
LEMMA TypedStore ==
  ASSUME Typed, page' = page, going' = going, syncing' = syncing, faults' = faults, mixed' = mixed,
         tokens' = tokens, session' = session, login' = login, amApp' = amApp,
         cache' \in [App -> Manager \cup {None}],
         \A a \in App : cache'[a] # None => cache'[a].app = a,
         bare' \subseteq {a \in App : cache'[a] # None},
         store' \in Manager \cup {None}, store # None => store' # None,
         am' \in Auth \cup {None}, am # None => am' # None,
         task' \in [Slot -> Task \cup {Idle}],
         \A s \in Slot : task'[s] # Idle =>
            /\ task[s] # Idle /\ task'[s].kind = task[s].kind
            /\ \/ task'[s] = task[s]
               \/ /\ task'[s].at = "act" => store' # None /\ (task[s].kind = "stats" \/ am' # None)
                  /\ task'[s].at = "answer" => task'[s].of # None /\ task[s].kind = "default"
  PROVE  Typed'
<1> USE DEF Typed
<1>1. Shape'
  BY DEF Shape
<1>2. Prepared'
  BY DEF Prepared, Busy
<1>3. TypeOK'
  BY DEF TypeOK, Busy, Shape
<1>4. QED
  BY <1>1, <1>2, <1>3

\* Each step of the app keeps the layer Typed: a page that opens,
LEMMA OpenedTyped ==
  ASSUME Typed, NEW r \in Slot, Hit(r) \/ Miss(r) \/ Build(r)
  PROVE  Typed'
<1> DEFINE a == task[r].app
<1> USE Identities
<1>0. Shape /\ Busy(r) /\ task[r] \in Task /\ a \in App
  BY BusyTask DEF Typed, Hit, Miss, Build, Task
<1>1. CASE Miss(r)
  <2>1. Goto(r, "build") /\ UNCHANGED <<storeVars, page, going, syncing, authVars, faults, mixed>>
    BY <1>1 DEF Miss
  <2>2. /\ task' \in [Slot -> Task \cup {Idle}] /\ task'[r].kind = task[r].kind
        /\ task'[r].at = "build" /\ \A s \in Slot \ {r} : task'[s] = task[s]
    BY <1>0, <2>1, GotoTask
  <2>3. QED
    BY <1>0, <2>1, <2>2, TypedStore DEF Busy, Typed, TypeOK, Shape, storeVars, authVars
<1>2. CASE Hit(r)
  <2>1. /\ Goto(r, "act") /\ cache[a] # None /\ Retarget(r, cache[a], a \notin bare)
        /\ UNCHANGED <<cache, bare, amApp, page, going, syncing, authVars, faults, mixed>>
    BY <1>2 DEF Hit
  <2>2. /\ task' \in [Slot -> Task \cup {Idle}] /\ task'[r].kind = task[r].kind
        /\ task'[r].at = "act" /\ \A s \in Slot \ {r} : task'[s] = task[s]
    BY <1>0, <2>1, GotoTask
  <2>3. cache[a] \in Manager /\ cache[a].app = a
    BY <1>0, <2>1 DEF Typed, TypeOK
  <2>4. store' = cache[a] /\ am' \in Auth \cup {None} /\ (task[r].kind = "stats" \/ am' # None)
        /\ (am # None => am' # None)
    BY <1>0, <2>1, <2>3 DEF Retarget, Auth, Typed, TypeOK
  <2>5. QED
    BY <1>0, <2>1, <2>2, <2>3, <2>4, TypedStore DEF Busy, Typed, TypeOK, Shape, authVars
<1>3. CASE Build(r)
  <2> DEFINE m == Fresh(a)
             plain == task[r].kind = "stats"
  <2>1. /\ Goto(r, "act") /\ Retarget(r, m, ~plain)
        /\ cache' = [cache EXCEPT ![a] = m]
        /\ bare' = IF plain THEN bare \cup {a} ELSE bare \ {a}
        /\ UNCHANGED <<amApp, page, going, syncing, authVars, faults, mixed>>
    BY <1>3 DEF Build
  <2>2. /\ task' \in [Slot -> Task \cup {Idle}] /\ task'[r].kind = task[r].kind
        /\ task'[r].at = "act" /\ \A s \in Slot \ {r} : task'[s] = task[s]
    BY <1>0, <2>1, GotoTask
  <2>3. m \in Manager /\ m.app = a
    BY <1>0, FreshManager DEF Typed, TypeOK, Shape
  <2> HIDE DEF m
  <2>4. store' = m /\ am' \in Auth \cup {None} /\ (task[r].kind = "stats" \/ am' # None)
        /\ (am # None => am' # None)
    BY <1>0, <2>1, <2>3 DEF Retarget, Auth, Typed, TypeOK
  <2>5. /\ cache' \in [App -> Manager \cup {None}]
        /\ \A b \in App : cache'[b] # None => cache'[b].app = b
        /\ bare' \subseteq {b \in App : cache'[b] # None}
    BY <1>0, <2>1, <2>3 DEF Typed, TypeOK, Shape
  <2>6. QED
    BY <1>0, <2>1, <2>2, <2>3, <2>4, <2>5, TypedStore DEF Busy, Typed, TypeOK, authVars
<1>4. QED
  BY <1>1, <1>2, <1>3

\* Syncs only end.
LEMMA FewerSyncs ==
  ASSUME Typed, syncing' \subseteq syncing
  PROVE  /\ IsFiniteSet(syncing') /\ Cardinality(syncing') <= MaxSyncs
         /\ syncing' \subseteq Sync /\ \A s, u \in syncing' : s.mgr = u.mgr => s = u
<1>1. /\ IsFiniteSet(syncing) /\ Cardinality(syncing) <= MaxSyncs /\ syncing \subseteq Sync
      /\ \A s, u \in syncing : s.mgr = u.mgr => s = u
  BY DEF Typed, Shape, TypeOK
<1>2. syncing' \in SUBSET syncing
  OBVIOUS
<1>3. IsFiniteSet(syncing') /\ Cardinality(syncing') <= Cardinality(syncing)
  BY <1>1, <1>2, FS_Subset
<1>4. Cardinality(syncing') \in Nat /\ Cardinality(syncing) \in Nat
  BY <1>1, <1>3, FS_CardinalityType
<1>5. QED
  BY <1>1, <1>2, <1>3, <1>4, Bounds

\* What a step in which a task begins has to show.
LEMMA TypedBegin ==
  ASSUME Typed, NEW r \in Slot, NEW t \in Task, t.at = "init", Begin(r, t),
         page' \in Page, page'.at = "view" => page.at = "view", going' \in Slot \cup {None},
         syncing' \subseteq syncing, UNCHANGED <<cache, bare, store, am, authVars>>
  PROVE  Typed'
<1> USE Identities
<1>1. Shape /\ faults \in 0 .. MaxFaults
  BY DEF Typed, TypeOK
<1>2. /\ task' \in [Slot -> Task \cup {Idle}]
      /\ task'[r].at = t.at /\ task'[r].kind = t.kind
      /\ \A s \in Slot \ {r} :
            \/ task'[s] = Idle
            \/ /\ task[s] \in Task /\ task'[s] \in Task /\ task'[s].kind = task[s].kind
               /\ task'[s].at = task[s].at /\ task'[s].of = task[s].of
  <2>1. \A s \in Slot \ {r} :
           \/ task[s] = Idle /\ task'[s] = Idle
           \/ /\ task[s] \in Task /\ task'[s] \in Task
              /\ task'[s].kind = task[s].kind /\ task'[s].app = task[s].app
              /\ task'[s].at = task[s].at /\ task'[s].of = task[s].of
              /\ task'[s].alone = FALSE
    BY <1>1, BeginTask
  <2>2. task' \in [Slot -> Task \cup {Idle}] /\ task'[r].at = t.at /\ task'[r].kind = t.kind
    BY <1>1, BeginTask
  <2>3. QED
    BY <2>1, <2>2
<1>3. /\ faults' \in 0 .. MaxFaults
      /\ mixed' \in BOOLEAN
      /\ amApp' = IF t.kind = "stats" THEN amApp ELSE t.app
  <2>1. mixed' = (page'.at = "view" /\ (mixed \/ {s \in Slot \ {r} : Busy(s)} # {}))
    BY DEF Begin
  <2>2. mixed' \in BOOLEAN
    BY <2>1
  <2>3. faults' \in 0 .. MaxFaults /\ amApp' = IF t.kind = "stats" THEN amApp ELSE t.app
    BY <1>1, BeginTask
  <2>4. QED
    BY <2>2, <2>3
<1>4. t.app \in App
  BY DEF Task
<1>5. Shape'
  BY <1>2, FewerSyncs DEF Typed, Shape, authVars
<1>6. Prepared'
  <2> SUFFICES ASSUME NEW s \in Slot, Busy(s)'
               PROVE  /\ task'[s].at = "act" => store' # None
                      /\ task'[s].kind # "stats" => amApp' # None
                      /\ task'[s].at = "answer" => task'[s].of # None /\ task'[s].kind = "default"
    BY DEF Prepared
  <2>1. CASE s = r
    BY <2>1, <1>2, <1>3, <1>4
  <2>2. CASE s # r
    <3>1. task[s] \in Task /\ task'[s].kind = task[s].kind
          /\ task'[s].at = task[s].at /\ task'[s].of = task[s].of
      BY <2>2, <1>2 DEF Busy
    <3>2. Busy(s)
      BY <3>1 DEF Busy
    <3>3. QED
      BY <3>1, <3>2, <1>3, <1>4 DEF Typed, Prepared
  <2>3. QED
    BY <2>1, <2>2
<1>7. TypeOK'
  <2>1. amApp' \in App \cup {None}
    BY <1>3, <1>4 DEF Typed, TypeOK
  <2>2. ASSUME NEW s \in Slot, Busy(s)', task'[s].at = "act", task'[s].kind # "stats" PROVE am' # None
    <3>1. s # r
      BY <2>2, <1>2
    <3>2. task[s] \in Task /\ task'[s].kind = task[s].kind /\ task'[s].at = task[s].at
      BY <3>1, <2>2, <1>2 DEF Busy
    <3>3. QED
      BY <3>2, <2>2 DEF Typed, TypeOK, Busy
  <2>3. page'.at = "view" => store' # None
    BY DEF Typed, TypeOK
  <2>4. QED
    BY <2>1, <2>2, <2>3, <1>2, <1>3, FewerSyncs DEF Typed, TypeOK, authVars
<1>8. QED
  BY <1>5, <1>6, <1>7 DEF Typed

\* What a step in which a task ends, or a navigation with it, has to show.
LEMMA TypedFinish ==
  ASSUME Typed, NEW r \in Slot, Finish(r),
         page' \in Page, page'.at = "view" => store # None, going' \in Slot \cup {None},
         mixed' \in BOOLEAN, login' \in [App -> Provider \cup {"none", "strayed"}],
         UNCHANGED <<cache, bare, store, syncing, tokens, session, faults>>
  PROVE  Typed'
<1>1. /\ task' \in [Slot -> Task \cup {Idle}]
      /\ task'[r] = Idle
      /\ \A s \in Slot \ {r} : task'[s] = task[s]
      /\ \/ am' = am /\ amApp' = amApp
         \/ /\ am' = None /\ amApp' = None
            /\ \A s \in Slot \ {r} : Busy(s) => task[s].kind = "stats"
  BY FinishTask DEF Typed
<1>2. \A s \in Slot : Busy(s)' => s # r /\ Busy(s) /\ task'[s] = task[s]
  BY <1>1 DEF Busy
<1>3. Shape'
  BY <1>1 DEF Typed, Shape
<1>4. Prepared'
  BY <1>1, <1>2 DEF Typed, Prepared
<1>5. TypeOK'
  <2>1. am' \in Auth \cup {None} /\ amApp' \in App \cup {None}
    BY <1>1 DEF Typed, TypeOK
  <2>2. \A s \in Slot : Busy(s)' /\ task'[s].at = "act" /\ task'[s].kind # "stats" => am' # None
    BY <1>1, <1>2 DEF Typed, TypeOK
  <2>3. QED
    BY <2>1, <2>2, <1>1 DEF Typed, TypeOK
<1>6. QED
  BY <1>3, <1>4, <1>5 DEF Typed

\* What a step in which a task goes on to the login page has to show.
LEMMA TypedToLogin ==
  ASSUME Typed, NEW r \in Slot, Busy(r), ToLogin(r), going' \in Slot \cup {None},
         tokens' \in [App -> SUBSET Provider], session' \in BOOLEAN, faults' \in 0 .. MaxFaults,
         login' \in [App -> Provider \cup {"none", "strayed"}],
         UNCHANGED <<cache, bare, store, am, page, syncing, mixed>>
  PROVE  Typed'
<1>1. /\ task' \in [Slot -> Task \cup {Idle}]
      /\ task'[r].at = "init" /\ task'[r].kind = "login"
      /\ \A s \in Slot \ {r} : task'[s] = task[s]
      /\ amApp' \in App
  BY ToLoginTask DEF Typed
<1>2. \A s \in Slot : Busy(s)' => s = r \/ (Busy(s) /\ task'[s] = task[s])
  BY <1>1 DEF Busy
<1>3. Shape'
  BY <1>1 DEF Typed, Shape
<1>4. Prepared'
  BY <1>1, <1>2, Identities DEF Typed, Prepared
<1>5. TypeOK'
  <2>1. \A s \in Slot : Busy(s)' /\ task'[s].at = "act" /\ task'[s].kind # "stats" => am' # None
    BY <1>1, <1>2 DEF Typed, TypeOK
  <2>2. QED
    BY <2>1, <1>1 DEF Typed, TypeOK
<1>6. QED
  BY <1>3, <1>4, <1>5 DEF Typed

\* What a step that loads the page anew has to show.
LEMMA TypedLoad ==
  ASSUME Typed, NEW r \in Slot, NEW t \in Task, t.at = "init", Load(r, t),
         tokens' \in [App -> SUBSET Provider], session' \in BOOLEAN, faults' \in 0 .. MaxFaults,
         login' \in [App -> Provider \cup {"none", "strayed"}]
  PROVE  Typed'
<1>1. task' \in [Slot -> Task \cup {Idle}] /\ task'[r] = t /\ \A s \in Slot \ {r} : task'[s] = Idle
  BY LoadTask
<1>2. t.app \in App
  BY DEF Task
<1>3. /\ cache' = [a \in App |-> None] /\ bare' = {} /\ store' = None /\ am' = None
      /\ amApp' = IF t.kind = "stats" THEN None ELSE t.app
      /\ page' \in {Home, Blank} /\ going' \in {None, r} /\ syncing' = {} /\ mixed' = FALSE
  BY DEF Load
<1>4. Shape'
  BY <1>1, <1>3, FS_EmptySet DEF Shape
<1>5. Prepared'
  BY <1>1, <1>2, <1>3, Identities DEF Prepared, Busy
<1>6. TypeOK'
  <2>1. page' \in Page /\ page'.at # "view"
    BY <1>3 DEF Page, Home, Blank
  <2>2. Cardinality(syncing') <= MaxSyncs
    BY <1>3, FS_EmptySet, Bounds
  <2>3. \A s \in Slot : Busy(s)' => task'[s].at # "act"
    BY <1>1 DEF Busy
  <2>4. QED
    BY <2>1, <2>2, <2>3, <1>1, <1>2, <1>3 DEF TypeOK
<1>7. QED
  BY <1>4, <1>5, <1>6 DEF Typed

\* The history of the logins stays a function, whoever's is strayed.
LEMMA Strayed ==
  ASSUME Typed, NEW S
  PROVE  Stray(S) \in [App -> Provider \cup {"none", "strayed"}]
  BY DEF Stray, Typed, TypeOK

\* a task that begins,
LEMMA BegunTyped ==
  ASSUME Typed, NEW r \in Slot,
         GoHome(r) \/ Import(r) \/ Open(r) \/ AskLogout(r) \/ Refused(r) \/ Login(r)
  PROVE  Typed'
<1> USE StatsTask, NewTask DEF Kind
<1>0. /\ page \in Page /\ going \in Slot \cup {None} /\ syncing \subseteq Sync
      /\ Home \in Page /\ Home.at # "view"
      /\ page.app \in App \cup {None} /\ (page.at \in {"view", "login"} => page.app \in App)
  BY DEF Typed, TypeOK, Home, Page
<1>1. CASE GoHome(r)
  <2>1. PICK a \in App : Begin(r, Stats(a))
    BY <1>1 DEF GoHome
  <2>2. page' = Home /\ going' = None /\ UNCHANGED <<cache, bare, store, am, syncing, authVars>>
    BY <1>1 DEF GoHome
  <2>3. QED
    BY <1>0, <2>1, <2>2, TypedBegin
<1>2. CASE Import(r)
  <2>1. PICK a \in App : Begin(r, Stats(a))
    BY <1>2 DEF Import
  <2>2. page' = page /\ UNCHANGED <<going, cache, bare, store, am, syncing, authVars>>
    BY <1>2 DEF Import
  <2>3. QED
    BY <1>0, <2>1, <2>2, TypedBegin
<1>3. CASE Open(r)
  <2>1. PICK a \in App : Begin(r, New("open", a))
    BY <1>3 DEF Open
  <2>2. page' = page /\ going' = r /\ UNCHANGED <<cache, bare, store, am, syncing, authVars>>
    BY <1>3 DEF Open
  <2>3. QED
    BY <1>0, <2>1, <2>2, TypedBegin
<1>4. CASE AskLogout(r)
  <2>1. page.app \in App /\ Begin(r, New("logout", page.app))
    BY <1>0, <1>4 DEF AskLogout
  <2>2. page' = page /\ UNCHANGED <<going, cache, bare, store, am, syncing, authVars>>
    BY <1>4 DEF AskLogout
  <2>3. QED
    BY <1>0, <2>1, <2>2, TypedBegin
<1>5. CASE Refused(r)
  <2>1. PICK s \in syncing :
           LET a == IF page.app # None THEN page.app ELSE s.by
           IN  /\ syncing' = syncing \ {s}
               /\ Begin(r, [New("logout", a) EXCEPT !.mine = a = s.by])
    BY <1>5 DEF Refused
  <2> DEFINE a == IF page.app # None THEN page.app ELSE s.by
             t == [New("logout", a) EXCEPT !.mine = a = s.by]
  <2>2. a \in App
    BY <1>0 DEF Sync
  <2>3. t \in Task /\ t.at = "init"
    <3>1. New("logout", a) \in Task /\ New("logout", a).at = "init"
      BY <2>2
    <3> DEFINE own == a = s.by
    <3>2. own \in BOOLEAN
      OBVIOUS
    <3> HIDE DEF own
    <3>3. [New("logout", a) EXCEPT !.mine = own] \in Task
      BY <3>1, <3>2 DEF Task
    <3>4. [New("logout", a) EXCEPT !.mine = own].at = "init"
      BY <3>1 DEF Task
    <3>5. QED
      BY <3>3, <3>4 DEF own
  <2>4. syncing' \subseteq syncing /\ Begin(r, t)
    BY <2>1
  <2>5. page' = page /\ UNCHANGED <<going, cache, bare, store, am, authVars>>
    BY <1>5 DEF Refused
  <2> HIDE DEF t
  <2>6. QED
    BY <1>0, <2>3, <2>4, <2>5, TypedBegin
<1>6. CASE Login(r)
  <2>1. PICK kind \in {"default", "oidc"} : Begin(r, New(kind, page.app))
    BY <1>6 DEF Login
  <2>2. /\ page' = page /\ page.app \in App
        /\ UNCHANGED <<going, cache, bare, store, am, syncing, authVars>>
    BY <1>0, <1>6 DEF Login
  <2>3. QED
    BY <1>0, <2>1, <2>2, TypedBegin
<1>7. QED
  BY <1>1, <1>2, <1>3, <1>4, <1>5, <1>6

\* one that arrives at its page,
LEMMA ArriveTyped ==
  ASSUME Typed, NEW r \in Slot, Busy(r), task[r].at = "act", NEW p \in Page, Arrive(r, p),
         login' \in [App -> Provider \cup {"none", "strayed"}],
         UNCHANGED <<cache, bare, store, syncing, tokens, session, faults>>
  PROVE  Typed'
<1>1. Finish(r) /\ store # None
  BY DEF Arrive, Typed, Prepared
<1>2. page' \in Page /\ going' \in Slot \cup {None} /\ mixed' \in BOOLEAN
  <2>1. CASE going = r
    <3>1. page' = p /\ going' = None /\ mixed' = (p.at = "view" /\ ~task[r].alone)
      BY <2>1 DEF Arrive
    <3>2. QED
      BY <3>1
  <2>2. CASE going # r
    BY <2>2 DEF Arrive, Typed, TypeOK
  <2>3. QED
    BY <2>1, <2>2
<1>3. QED
  BY <1>1, <1>2, TypedFinish

\* one that shows a program or its login page,
LEMMA ShownTyped ==
  ASSUME Typed, NEW r \in Slot, Show(r) \/ ShowLogin(r)
  PROVE  Typed'
<1> DEFINE a == task[r].app
<1>1. Busy(r) /\ task[r].at = "act" /\ a \in App
  BY BusyTask DEF Show, ShowLogin, Typed, Task
<1>2. View(a) \in Page /\ LoginPage(a) \in Page
  BY <1>1 DEF View, LoginPage, Page
<1>3. /\ login \in [App -> Provider \cup {"none", "strayed"}] /\ tokens \in [App -> SUBSET Provider]
      /\ session \in BOOLEAN /\ faults \in 0 .. MaxFaults /\ going \in Slot \cup {None}
  BY DEF Typed, TypeOK
<1>4. CASE Show(r)
  <2>1. /\ Arrive(r, View(a)) \/ (ToLogin(r) /\ UNCHANGED <<am, page, going, mixed>>)
        /\ UNCHANGED <<cache, bare, store, syncing, authVars, faults>>
    BY <1>4 DEF Show
  <2>2. CASE Arrive(r, View(a))
    BY <1>1, <1>2, <1>3, <2>1, <2>2, ArriveTyped DEF authVars
  <2>3. CASE ToLogin(r) /\ UNCHANGED <<am, page, going, mixed>>
    BY <1>1, <1>3, <2>1, <2>3, TypedToLogin DEF authVars
  <2>4. QED
    BY <2>1, <2>2, <2>3
<1>5. CASE ShowLogin(r)
  <2>1. Arrive(r, LoginPage(a)) /\ UNCHANGED <<cache, bare, store, syncing, tokens, session, faults>>
    BY <1>5 DEF ShowLogin
  <2>2. login' \in [App -> Provider \cup {"none", "strayed"}]
    BY <1>3, <1>5, Strayed DEF ShowLogin
  <2>3. QED
    BY <1>1, <1>2, <2>1, <2>2, ArriveTyped
<1>6. QED
  BY <1>4, <1>5

\* a logout,
LEMMA LoggedOutTyped ==
  ASSUME Typed, NEW r \in Slot, Logout(r)
  PROVE  Typed'
<1> DEFINE a == am.app
<1>1. Busy(r) /\ task[r].kind = "logout" /\ task[r].at = "act" /\ ToLogin(r) /\ going' = r
      /\ UNCHANGED <<page, cache, bare, store, am, syncing, mixed>>
  BY DEF Logout
<1>2. am \in Auth /\ a \in App
  <2>1. am # None
    BY <1>1 DEF Typed, TypeOK
  <2>2. QED
    BY <2>1 DEF Typed, TypeOK, Auth
<1>3. tokens' \in [App -> SUBSET Provider]
  <2>1. tokens' = [tokens EXCEPT ![a] = {}]
    BY DEF Logout
  <2>2. QED
    BY <2>1, <1>2 DEF Typed, TypeOK
<1>4. /\ session' \in BOOLEAN /\ faults' \in 0 .. MaxFaults
      /\ login' \in [App -> Provider \cup {"none", "strayed"}]
  <2> DEFINE asked == a = task[r].app /\ task[r].mine
             out(S) == IF asked THEN [Stray(S) EXCEPT ![a] = "none"] ELSE Stray(S \cup {a, task[r].app})
  <2>1. \A S : out(S) \in [App -> Provider \cup {"none", "strayed"}]
    <3>1. ASSUME NEW S PROVE out(S) \in [App -> Provider \cup {"none", "strayed"}]
      BY <1>2, Strayed
    <3>2. QED
      BY <3>1
  <2>2. \/ login' = out({}) /\ UNCHANGED <<session, faults>>
        \/ session' = FALSE /\ login' = out(App) /\ UNCHANGED faults
        \/ /\ faults' \in {faults, faults + 1} /\ faults' <= MaxFaults
           /\ login' = Stray({a, task[r].app}) /\ UNCHANGED session
    BY DEF Logout
  <2> HIDE DEF out
  <2>3. faults' \in 0 .. MaxFaults /\ session' \in BOOLEAN
    <3>1. faults \in 0 .. MaxFaults /\ session \in BOOLEAN
      BY DEF Typed, TypeOK
    <3>2. session' \in {FALSE, session}
      BY <2>2
    <3>3. faults' = faults \/ (faults' = faults + 1 /\ faults' <= MaxFaults)
      BY <2>2
    <3>4. faults' \in 0 .. MaxFaults
      BY <3>1, <3>3, Bounds
    <3>5. session' \in BOOLEAN
      BY <3>1, <3>2
    <3>6. QED
      BY <3>4, <3>5
  <2>4. login' \in [App -> Provider \cup {"none", "strayed"}]
    BY <2>1, <2>2, Strayed
  <2>5. QED
    BY <2>3, <2>4
<1>5. QED
  BY <1>1, <1>3, <1>4, TypedToLogin

\* a login that is posted,
LEMMA PostTyped ==
  ASSUME Typed, NEW r \in Slot, Post(r)
  PROVE  Typed'
<1>1. /\ Busy(r) /\ task[r].kind = "default" /\ task[r].at = "act"
      /\ task' = [task EXCEPT ![r] = [task[r] EXCEPT !.at = "answer", !.of = am.app]]
      /\ UNCHANGED <<storeVars, page, going, syncing, authVars, faults, mixed>>
  BY DEF Post
<1>2. am.app \in App
  <2>1. am # None
    BY <1>1 DEF Typed, TypeOK
  <2>2. QED
    BY <2>1 DEF Typed, TypeOK, Auth
<1> DEFINE t == [task[r] EXCEPT !.at = "answer", !.of = am.app]
<1>3. t \in Task /\ t.at = "answer" /\ t.kind = task[r].kind /\ t.of # None
  <2>1. task[r] \in Task
    BY <1>1, BusyTask DEF Typed
  <2>2. t \in Task
    BY <2>1, <1>2 DEF Task
  <2>3. QED
    BY <2>1, <2>2, <1>2, Identities DEF Task
<1> HIDE DEF t
<1>4. task' \in [Slot -> Task \cup {Idle}] /\ task'[r] = t /\ \A s \in Slot \ {r} : task'[s] = task[s]
  <2>1. task' = [task EXCEPT ![r] = t] /\ task \in [Slot -> Task \cup {Idle}]
    BY <1>1 DEF t, Typed, Shape
  <2>2. QED
    BY <2>1, <1>3
<1>5. QED
  BY <1>1, <1>3, <1>4, TypedStore DEF storeVars, authVars, Busy, Typed, TypeOK, Shape

\* What a sign-in leaves as it was.
LEMMA SigninsKept ==
  ASSUME Typed, NEW a \in App, NEW p \in Provider
  PROVE  /\ [tokens EXCEPT ![a] = @ \cup {p}] \in [App -> SUBSET Provider]
         /\ Signed(a, p) \in [App -> Provider \cup {"none", "strayed"}]
<1>1. tokens \in [App -> SUBSET Provider] /\ login \in [App -> Provider \cup {"none", "strayed"}]
  BY DEF Typed, TypeOK
<1>2. QED
  BY <1>1 DEF Signed

\* the app that is loaded again,
LEMMA LoadedTyped ==
  ASSUME Typed, NEW r \in Slot, Answer(r) \/ Callback(r) \/ Reload(r)
  PROVE  Typed'
<1> USE NewTask, StatsTask DEF Kind
<1>0. /\ tokens \in [App -> SUBSET Provider] /\ login \in [App -> Provider \cup {"none", "strayed"}]
      /\ session \in BOOLEAN /\ faults \in 0 .. MaxFaults
      /\ page.at \in {"view", "login", "provider"} => page.app \in App
  BY DEF Typed, TypeOK, Page
<1>1. CASE Answer(r)
  <2> DEFINE a == task[r].of
  <2>1. Busy(r) /\ task[r].at = "answer"
    BY <1>1 DEF Answer
  <2>2. task[r].kind # "stats" /\ a # None /\ amApp # None
    BY <2>1 DEF Typed, Prepared
  <2>3. a \in App /\ amApp \in App
    <3>1. task[r] \in Task
      BY <2>1, BusyTask DEF Typed
    <3>2. QED
      BY <2>2, <3>1 DEF Task, Typed, TypeOK
  <2>4. /\ tokens' = [tokens EXCEPT ![a] = @ \cup {"default"}]
        /\ login' = IF a = task[r].app THEN Signed(a, "default") ELSE Stray({a})
        /\ Load(r, New("open", amApp)) /\ UNCHANGED <<session, faults>>
    BY <1>1 DEF Answer
  <2>5. tokens' \in [App -> SUBSET Provider] /\ login' \in [App -> Provider \cup {"none", "strayed"}]
    BY <2>3, <2>4, SigninsKept, Strayed DEF Provider
  <2>6. New("open", amApp) \in Task /\ New("open", amApp).at = "init"
    BY <2>3
  <2>7. session' \in BOOLEAN /\ faults' \in 0 .. MaxFaults
    BY <1>0, <2>4
  <2>8. QED
    BY <2>4, <2>5, <2>6, <2>7, TypedLoad
<1>2. CASE Callback(r)
  <2> DEFINE a == page.app
  <2>1. a \in App /\ Load(r, New("open", a)) /\ session' = TRUE
    BY <1>0, <1>2 DEF Callback
  <2>2. \/ /\ tokens' = [tokens EXCEPT ![a] = @ \cup {"oidc"}]
           /\ login' = [Stray(App) EXCEPT ![a] = Signed(a, "oidc")[a]]
           /\ UNCHANGED faults
        \/ login' = Stray(App) /\ UNCHANGED tokens /\ faults < MaxFaults /\ faults' = faults + 1
    BY <1>2 DEF Callback
  <2>3. tokens' \in [App -> SUBSET Provider] /\ faults' \in 0 .. MaxFaults
    <3>1. [tokens EXCEPT ![a] = @ \cup {"oidc"}] \in [App -> SUBSET Provider]
      BY <2>1, SigninsKept DEF Provider
    <3>2. tokens' = [tokens EXCEPT ![a] = @ \cup {"oidc"}] \/ tokens' = tokens
      BY <2>2
    <3>3. faults' = faults \/ (faults < MaxFaults /\ faults' = faults + 1)
      BY <2>2
    <3>4. faults' \in 0 .. MaxFaults
      BY <1>0, <3>3, Bounds
    <3>5. QED
      BY <1>0, <3>1, <3>2, <3>4
  <2>4. login' \in [App -> Provider \cup {"none", "strayed"}]
    <3>1. Signed(a, "oidc")[a] \in Provider \cup {"none", "strayed"}
      BY <2>1, SigninsKept DEF Provider
    <3>2. Stray(App) \in [App -> Provider \cup {"none", "strayed"}]
      BY Strayed
    <3>3. QED
      BY <2>2, <3>1, <3>2
  <2>5. QED
    BY <1>0, <2>1, <2>3, <2>4, TypedLoad
<1>3. CASE Reload(r)
  <2>1. UNCHANGED <<tokens, session, login, faults>>
    BY <1>3 DEF Reload, authVars
  <2>2. PICK t \in Task : t.at = "init" /\ Load(r, t)
    BY <1>0, <1>3 DEF Reload
  <2>3. QED
    BY <1>0, <2>1, <2>2, TypedLoad
<1>4. QED
  BY <1>1, <1>2, <1>3

\* the redirect of a provider,
LEMMA RedirectTyped ==
  ASSUME Typed, NEW r \in Slot, Redirect(r)
  PROVE  Typed'
<1>1. Busy(r) /\ task[r].kind = "oidc" /\ task[r].at = "act"
  BY DEF Redirect
<1>2. amApp \in App
  BY <1>1 DEF Typed, Prepared, TypeOK
<1>3. CASE am.adapters
  <2>1. /\ page' = [at |-> "provider", app |-> amApp]
        /\ cache' = [a \in App |-> None] /\ bare' = {}
        /\ store' = None /\ am' = None /\ amApp' = None
        /\ task' = [s \in Slot |-> Idle] /\ going' = None
        /\ syncing' = {} /\ mixed' = FALSE
        /\ UNCHANGED <<tokens, session, faults>>
    BY <1>3 DEF Redirect
  <2>2. login' \in [App -> Provider \cup {"none", "strayed"}]
    <3>1. login' = IF amApp = task[r].app THEN login ELSE Stray({amApp})
      BY <1>3 DEF Redirect
    <3>2. QED
      BY <3>1, Strayed DEF Typed, TypeOK
  <2>3. page' \in Page /\ page'.at # "view"
    BY <1>2, <2>1 DEF Page
  <2>4. Shape' /\ Prepared'
    BY <2>1, FS_EmptySet DEF Shape, Prepared, Busy
  <2>5. Cardinality(syncing') <= MaxSyncs
    BY <2>1, FS_EmptySet, Bounds
  <2>6. TypeOK'
    BY <2>1, <2>2, <2>3, <2>5 DEF TypeOK, Typed, Busy
  <2>7. QED
    BY <2>4, <2>6 DEF Typed
<1>4. CASE ~am.adapters
  <2>1. /\ Finish(r)
        /\ UNCHANGED <<cache, bare, store, page, going, syncing, mixed, login, tokens, session, faults>>
    BY <1>4 DEF Redirect
  <2>2. QED
    BY <2>1, TypedFinish DEF Typed, TypeOK
<1>5. QED
  BY <1>3, <1>4

\* and a login that is denied.
LEMMA DenyTyped ==
  ASSUME Typed, NEW r \in Slot, Deny(r)
  PROVE  Typed'
<1>1. Finish(r) /\ UNCHANGED <<cache, bare, store, page, going, syncing, authVars, faults, mixed>>
  BY DEF Deny
<1>2. QED
  BY <1>1, TypedFinish DEF Typed, TypeOK, authVars

\* A store is closed under whoever uses it: the syncs in it are loose from then on.
Loosen(m) == {[s EXCEPT !.loose = @ \/ s.mgr = m] : s \in syncing}

\* A task that is over lets go of its sync.
LEMMA Loosened ==
  ASSUME Typed, NEW m, syncing' = Loosen(m)
  PROVE  /\ IsFiniteSet(syncing') /\ Cardinality(syncing') <= MaxSyncs
         /\ syncing' \subseteq Sync /\ \A s, u \in syncing' : s.mgr = u.mgr => s = u
         /\ \A u \in syncing' : \E s \in syncing :
               u.mgr = s.mgr /\ (~u.loose => ~s.loose /\ s.mgr # m)
<1> DEFINE Loose(s) == [s EXCEPT !.loose = @ \/ s.mgr = m]
           f == [s \in syncing |-> Loose(s)]
<1>1. /\ IsFiniteSet(syncing) /\ Cardinality(syncing) <= MaxSyncs /\ syncing \subseteq Sync
      /\ \A s, u \in syncing : s.mgr = u.mgr => s = u
  BY DEF Typed, Shape, TypeOK
<1>2. ASSUME NEW s \in syncing
      PROVE  Loose(s) \in Sync /\ Loose(s).mgr = s.mgr /\ (~Loose(s).loose => ~s.loose /\ s.mgr # m)
  <2> DEFINE l == s.loose \/ s.mgr = m
  <2>1. s \in Sync /\ s.loose \in BOOLEAN
    BY <1>1 DEF Sync
  <2>2. l \in BOOLEAN
    OBVIOUS
  <2>3. ~l => ~s.loose /\ s.mgr # m
    OBVIOUS
  <2>4. Loose(s) = [s EXCEPT !.loose = l]
    OBVIOUS
  <2> HIDE DEF l, Loose
  <2>5. Loose(s) \in Sync /\ Loose(s).mgr = s.mgr /\ Loose(s).loose = l
    BY <2>1, <2>2, <2>4 DEF Sync
  <2>6. QED
    BY <2>3, <2>5
<1>3. syncing' = {Loose(s) : s \in syncing}
  BY DEF Loosen
<1> HIDE DEF Loose
<1>4. f \in Surjection(syncing, syncing')
  BY <1>3 DEF Surjection
<1> HIDE DEF f
<1>5. IsFiniteSet(syncing') /\ Cardinality(syncing') <= Cardinality(syncing)
  BY <1>1, <1>4, FS_Surjection
<1>6. Cardinality(syncing') \in Nat /\ Cardinality(syncing) \in Nat
  BY <1>1, <1>5, FS_CardinalityType
<1>7. Cardinality(syncing') <= MaxSyncs
  BY <1>1, <1>5, <1>6, Bounds
<1>8. \A s, u \in syncing' : s.mgr = u.mgr => s = u
  BY <1>1, <1>2, <1>3
<1>9. QED
  BY <1>2, <1>3, <1>5, <1>7, <1>8

\* So does a store that is closed,
LEMMA ClosedTyped ==
  ASSUME Typed, NEW r \in Slot, Close(r)
  PROVE  Typed'
<1> DEFINE a == task[r].app
           rest == task[r].rest
<1>1. /\ Busy(r) /\ task[r].kind = "stats" /\ task[r].at = "act"
      /\ cache' = [cache EXCEPT ![a] = None] /\ bare' = bare \ {a}
      /\ syncing' = {[s EXCEPT !.loose = @ \/ s.mgr = cache[a]] : s \in syncing}
      /\ UNCHANGED <<store, page, going, authVars, faults, mixed>>
  BY DEF Close
<1>2. \/ Finish(r)
      \/ \E b \in rest :
            /\ task' = [task EXCEPT ![r] = [task[r] EXCEPT !.app = b, !.at = "init", !.rest = @ \ {b}]]
            /\ UNCHANGED <<am, amApp>>
  BY DEF Close
<1>3. task[r] \in Task /\ a \in App /\ task \in [Slot -> Task \cup {Idle}]
  BY <1>1, BusyTask DEF Typed, Task, Shape
<1>4. /\ cache' \in [App -> Manager \cup {None}]
      /\ \A b \in App : cache'[b] = None \/ (cache'[b] \in Manager /\ cache'[b].app = b)
      /\ bare' \subseteq {b \in App : cache'[b] # None}
  BY <1>1, <1>3 DEF Typed, TypeOK, Shape
<1>5. /\ IsFiniteSet(syncing') /\ Cardinality(syncing') <= MaxSyncs
      /\ syncing' \subseteq Sync /\ \A s, u \in syncing' : s.mgr = u.mgr => s = u
  <2>1. syncing' = Loosen(cache[a])
    BY <1>1 DEF Loosen
  <2>2. QED
    BY <2>1, Loosened
<1>6. /\ task' \in [Slot -> Task \cup {Idle}]
      /\ \A s \in Slot : Busy(s)' =>
            \/ s = r /\ task'[s].kind = "stats" /\ task'[s].at = "init"
            \/ s # r /\ Busy(s) /\ task'[s] = task[s]
      /\ \/ am' = am /\ amApp' = amApp
         \/ /\ am' = None /\ amApp' = None
            /\ \A s \in Slot \ {r} : Busy(s) => task[s].kind = "stats"
  <2>1. CASE Finish(r)
    BY <2>1, FinishTask DEF Typed, Busy
  <2>2. ASSUME NEW b \in rest,
               task' = [task EXCEPT ![r] = [task[r] EXCEPT !.app = b, !.at = "init", !.rest = @ \ {b}]],
               UNCHANGED <<am, amApp>>
        PROVE  <1>6
    <3> DEFINE t == [task[r] EXCEPT !.app = b, !.at = "init", !.rest = @ \ {b}]
    <3>1. t \in Task /\ t.kind = "stats" /\ t.at = "init"
      BY <1>1, <1>3 DEF Task
    <3> HIDE DEF t
    <3>2. task' = [task EXCEPT ![r] = t]
      BY <2>2 DEF t
    <3>3. task'[r] = t /\ \A s \in Slot \ {r} : task'[s] = task[s]
      BY <1>3, <3>2
    <3>4. QED
      BY <1>3, <2>2, <3>1, <3>2, <3>3 DEF Busy
  <2>3. QED
    BY <1>2, <2>1, <2>2
<1>7. Shape'
  BY <1>4, <1>5, <1>6 DEF Shape
<1>8. Prepared'
  BY <1>1, <1>6 DEF Typed, Prepared
<1>9. TypeOK'
  <2>1. am' \in Auth \cup {None} /\ amApp' \in App \cup {None}
    BY <1>6 DEF Typed, TypeOK
  <2>2. \A s \in Slot : Busy(s)' /\ task'[s].at = "act" /\ task'[s].kind # "stats" => am' # None
    BY <1>6 DEF Typed, TypeOK
  <2>3. QED
    BY <2>1, <2>2, <1>1, <1>4, <1>5, <1>6 DEF Typed, TypeOK, authVars
<1>10. QED
  BY <1>7, <1>8, <1>9 DEF Typed

\* and a sync that starts or ends.
LEMMA SyncTyped ==
  ASSUME Typed, StartSync \/ Done
  PROVE  Typed'
<1>1. UNCHANGED <<storeVars, pageVars, authVars, faults, mixed>>
  BY DEF StartSync, Done
<1>2. /\ IsFiniteSet(syncing') /\ Cardinality(syncing') <= MaxSyncs
      /\ syncing' \subseteq Sync /\ \A s, u \in syncing' : s.mgr = u.mgr => s = u
  <2>1. CASE Done
    <3>1. syncing' \subseteq syncing
      BY <2>1 DEF Done
    <3>2. QED
      BY <3>1, FewerSyncs
  <2>2. CASE StartSync
    <3> DEFINE s == [mgr |-> store, by |-> page.app, loose |-> mixed]
    <3>1. /\ page.at = "view" /\ Cardinality(syncing) < MaxSyncs
          /\ \A u \in syncing : u.mgr # store
          /\ syncing' = syncing \cup {s}
      BY <2>2 DEF StartSync
    <3>2. s \in Sync /\ s.mgr = store
      BY <3>1 DEF Typed, TypeOK, Page, Sync
    <3> HIDE DEF s
    <3>3. /\ IsFiniteSet(syncing) /\ syncing \subseteq Sync
          /\ \A x, u \in syncing : x.mgr = u.mgr => x = u
      BY DEF Typed, Shape, TypeOK
    <3>4. IsFiniteSet(syncing') /\ Cardinality(syncing') <= Cardinality(syncing) + 1
      <4>1. Cardinality(syncing) \in Nat
        BY <3>3, FS_CardinalityType
      <4>2. IsFiniteSet(syncing \cup {s})
        BY <3>3, FS_AddElement
      <4>3. Cardinality(syncing \cup {s}) = IF s \in syncing THEN Cardinality(syncing) ELSE Cardinality(syncing) + 1
        BY <3>3, FS_AddElement
      <4>4. QED
        BY <3>1, <4>1, <4>2, <4>3
    <3>5. Cardinality(syncing) \in Nat /\ Cardinality(syncing') \in Nat
      BY <3>3, <3>4, FS_CardinalityType
    <3>6. Cardinality(syncing') <= MaxSyncs
      BY <3>1, <3>4, <3>5, Bounds
    <3>7. QED
      BY <3>1, <3>2, <3>3, <3>4, <3>6
  <2>3. QED
    BY <2>1, <2>2
<1>3. Shape' /\ Prepared'
  BY <1>1, <1>2 DEF Typed, Shape, Prepared, Busy, storeVars, pageVars
<1>4. TypeOK'
  BY <1>1, <1>2 DEF Typed, TypeOK, Busy, storeVars, pageVars, authVars
<1>5. QED
  BY <1>3, <1>4 DEF Typed

\* Every step keeps the types and the shape of the store.
LEMMA NextTyped == Typed /\ [Next]_vars => Typed'
<1> SUFFICES ASSUME Typed, [Next]_vars PROVE Typed'
  OBVIOUS
<1>1. ASSUME NEW r \in Slot, Hit(r) \/ Miss(r) \/ Build(r) PROVE Typed'
  BY <1>1, OpenedTyped
<1>2. ASSUME NEW r \in Slot, GoHome(r) \/ Import(r) \/ Open(r) \/ AskLogout(r) \/ Refused(r) \/ Login(r)
      PROVE  Typed'
  BY <1>2, BegunTyped
<1>3. ASSUME NEW r \in Slot, Close(r) \/ Show(r) \/ ShowLogin(r) \/ Logout(r) \/ Post(r) \/ Deny(r)
      PROVE  Typed'
  BY <1>3, ClosedTyped, ShownTyped, LoggedOutTyped, PostTyped, DenyTyped
<1>4. ASSUME NEW r \in Slot, Answer(r) \/ Redirect(r) \/ Callback(r) \/ Reload(r) PROVE Typed'
  BY <1>4, LoadedTyped, RedirectTyped
<1>5. CASE StartSync \/ Done
  BY <1>5, SyncTyped
<1>6. CASE UNCHANGED vars
  BY <1>6 DEF vars, storeVars, pageVars, authVars, Typed, TypeOK, Shape, Prepared, Busy
<1>7. QED
  BY <1>1, <1>2, <1>3, <1>4, <1>5, <1>6 DEF Next

-----------------------------------------------------------------------------
(* Second layer.                                                           *)

Owned == Solitude /\ Undisturbed /\ BareByStats /\ PageOwns /\ SyncsCached

\* A load of the app leaves nothing that two tasks could share.
LEMMA LoadOwned ==
  ASSUME NEW r \in Slot, NEW t \in Task, t.at = "init", Load(r, t)
  PROVE  Owned'
<1>1. task'[r] = t /\ \A s \in Slot \ {r} : task'[s] = Idle
  BY LoadTask
<1>2. /\ cache' = [a \in App |-> None] /\ bare' = {} /\ syncing' = {} /\ mixed' = FALSE
      /\ amApp' = IF t.kind = "stats" THEN None ELSE t.app
      /\ page' \in {Home, Blank}
  BY DEF Load
<1>3. page'.at # "view"
  BY <1>2 DEF Home, Blank
<1>4. \A s \in Slot : Busy(s)' => s = r
  BY <1>1 DEF Busy
<1>5. Solitude' /\ BareByStats' /\ PageOwns' /\ SyncsCached'
  BY <1>2, <1>3, <1>4 DEF Solitude, BareByStats, PageOwns, SyncsCached
<1>6. Undisturbed'
  BY <1>1, <1>2, <1>4 DEF Undisturbed
<1>7. QED
  BY <1>5, <1>6 DEF Owned

\* The start.
LEMMA InitOwned == Init => Owned
<1> SUFFICES ASSUME Init PROVE Owned
  OBVIOUS
<1>1. PICK a \in App, r \in Slot : task = [s \in Slot |-> IF s = r THEN Stats(a) ELSE Idle]
  BY DEF Init
<1>2. Stats(a).kind = "stats" /\ Stats(a).at = "init"
  BY StatsTask
<1>3. \A s \in Slot : Busy(s) => s = r /\ task[s] = Stats(a)
  BY <1>1 DEF Busy
<1>4. page.at # "view" /\ bare = {} /\ syncing = {}
  BY DEF Init, Home
<1>5. QED
  BY <1>2, <1>3, <1>4 DEF Owned, Solitude, Undisturbed, BareByStats, PageOwns, SyncsCached

\* A task that begins disturbs those under way.
LEMMA BeginOwned ==
  ASSUME Typed, Owned, NEW r \in Slot, NEW t \in Task, t.at = "init", Begin(r, t),
         page'.at = "view" => page' = page /\ t.kind \in {"open", "logout"} /\ t.app = page.app,
         syncing' \subseteq syncing, UNCHANGED <<cache, bare, store, am>>
  PROVE  Owned'
<1>1. Shape /\ faults \in 0 .. MaxFaults
  BY DEF Typed, TypeOK
<1>2. /\ ~Busy(r) /\ task'[r] \in Task
      /\ task'[r].kind = t.kind /\ task'[r].app = t.app /\ task'[r].at = t.at
      /\ task'[r].alone <=> \A s \in Slot \ {r} : ~Busy(s)
      /\ amApp' = IF t.kind = "stats" THEN amApp ELSE t.app
  BY <1>1, BeginTask
<1>3. \A s \in Slot \ {r} :
         \/ task[s] = Idle /\ task'[s] = Idle
         \/ /\ task[s] \in Task /\ task'[s] \in Task
            /\ task'[s].kind = task[s].kind /\ task'[s].app = task[s].app
            /\ task'[s].at = task[s].at /\ task'[s].of = task[s].of
            /\ task'[s].alone = FALSE
  BY <1>1, BeginTask
<1>4. mixed' = (page'.at = "view" /\ (mixed \/ ~task'[r].alone))
  BY <1>1, BeginTask
<1>5. Busy(r)' /\ \A s \in Slot \ {r} :
         /\ Busy(s)' <=> Busy(s)
         /\ Busy(s) => /\ task'[s].kind = task[s].kind /\ task'[s].app = task[s].app
                       /\ task'[s].at = task[s].at /\ ~task'[s].alone
  BY <1>2, <1>3, Identities DEF Busy
<1>6. Solitude'
  BY <1>2, <1>5 DEF Solitude
<1>7. Undisturbed'
  BY <1>2, <1>5 DEF Undisturbed
<1>8. BareByStats'
  <2> SUFFICES ASSUME NEW a \in bare
               PROVE  \E s \in Slot : /\ Busy(s)' /\ task'[s].kind = "stats"
                                      /\ task'[s].at = "act" /\ task'[s].app = a
    BY DEF BareByStats
  <2>1. PICK s \in Slot : Busy(s) /\ task[s].kind = "stats" /\ task[s].at = "act" /\ task[s].app = a
    BY DEF Owned, BareByStats
  <2>2. QED
    BY <2>1, <1>2, <1>5
<1>9. PageOwns'
  <2> SUFFICES ASSUME page'.at = "view", ~mixed'
               PROVE  /\ cache[page'.app] # None /\ store = cache[page'.app]
                      /\ \A s \in Slot : Busy(s)' =>
                            /\ task'[s].alone /\ task'[s].kind \in {"open", "logout", "login"}
                            /\ task'[s].app = page'.app
    BY DEF PageOwns
  <2>1. page' = page /\ ~mixed /\ task'[r].alone
    BY <1>4
  <2>2. \A s \in Slot : Busy(s)' => s = r
    BY <2>1, <1>2, <1>5
  <2>3. QED
    BY <2>1, <2>2, <1>2 DEF Owned, PageOwns
<1>10. SyncsCached'
  <2>1. \A s \in Slot : Busy(s)' /\ task'[s].at = "build" =>
           Busy(s) /\ task[s].at = "build" /\ task'[s].app = task[s].app
    BY <1>2, <1>5
  <2>2. QED
    BY <2>1 DEF Owned, SyncsCached
<1>11. QED
  BY <1>6, <1>7, <1>8, <1>9, <1>10 DEF Owned

\* A task that ends leaves a page without an overlap only if it was alone itself.
LEMMA FinishOwned ==
  ASSUME Typed, Owned, NEW r \in Slot, Busy(r), task[r].kind # "stats", Finish(r),
         UNCHANGED <<cache, bare, store, syncing>>,
         \/ page' = page /\ mixed' = mixed
         \/ page'.at # "view"
         \/ page' = View(task[r].app) /\ task[r].at = "act" /\ mixed' = ~task[r].alone
  PROVE  Owned'
<1>1. task'[r] = Idle /\ \A s \in Slot \ {r} : task'[s] = task[s]
  BY FinishTask DEF Typed
<1>2. /\ \/ am' = am /\ amApp' = amApp
         \/ \A s \in Slot \ {r} : Busy(s) => task[s].kind = "stats"
      /\ \A s \in Slot : Busy(s)' <=> s # r /\ Busy(s)
  BY <1>1, FinishTask DEF Typed, Busy
<1>3. Solitude'
  BY <1>1, <1>2 DEF Owned, Solitude
<1>4. \A s \in Slot : Busy(s)' => ~task'[s].alone
  BY <1>1, <1>2 DEF Owned, Solitude
<1>5. Undisturbed'
  BY <1>4 DEF Undisturbed
<1>6. BareByStats'
  BY <1>1, <1>2 DEF Owned, BareByStats
<1>7. PageOwns'
  <2>1. CASE page' = page /\ mixed' = mixed
    BY <2>1, <1>1, <1>2 DEF Owned, PageOwns
  <2>2. CASE page'.at # "view"
    BY <2>2 DEF PageOwns
  <2>3. CASE page' = View(task[r].app) /\ task[r].at = "act" /\ mixed' = ~task[r].alone
    <3> SUFFICES ASSUME ~mixed' PROVE PageOwns'
      BY DEF PageOwns
    <3>1. task[r].alone /\ page'.app = task[r].app
      BY <2>3 DEF View
    <3>2. cache[task[r].app] # None /\ store = cache[task[r].app]
      BY <2>3, <3>1 DEF Owned, Undisturbed
    <3>3. \A s \in Slot : ~Busy(s)'
      BY <3>1, <1>2 DEF Owned, Solitude
    <3>4. QED
      BY <3>1, <3>2, <3>3 DEF PageOwns
  <2>4. QED
    BY <2>1, <2>2, <2>3
<1>8. SyncsCached'
  BY <1>1, <1>2 DEF Owned, SyncsCached
<1>9. QED
  BY <1>3, <1>5, <1>6, <1>7, <1>8 DEF Owned

\* The way to the login page.
LEMMA ToLoginOwned ==
  ASSUME Typed, Owned, NEW r \in Slot, Busy(r), task[r].kind # "stats", ToLogin(r),
         UNCHANGED <<cache, bare, store, am, page, syncing, mixed>>
  PROVE  Owned'
<1>1. /\ task'[r] \in Task /\ task'[r].at = "init" /\ task'[r].kind = "login"
      /\ task'[r].app = task[r].app /\ task'[r].alone = task[r].alone
      /\ \A s \in Slot \ {r} : task'[s] = task[s]
      /\ amApp' = task[r].app
  BY ToLoginTask DEF Typed
<1>2. \A s \in Slot : Busy(s)' <=> Busy(s)
  BY <1>1, Identities DEF Busy
<1>3. Solitude'
  BY <1>1, <1>2 DEF Owned, Solitude
<1>4. Undisturbed'
  BY <1>1, <1>2 DEF Owned, Undisturbed, Solitude
<1>5. BareByStats'
  BY <1>1, <1>2 DEF Owned, BareByStats
<1>6. PageOwns'
  BY <1>1, <1>2 DEF Owned, PageOwns
<1>7. SyncsCached'
  BY <1>1, <1>2 DEF Owned, SyncsCached
<1>8. QED
  BY <1>3, <1>4, <1>5, <1>6, <1>7 DEF Owned

\* A page opens.
LEMMA OpenedOwned ==
  ASSUME Typed, Owned, NEW r \in Slot, Hit(r) \/ Miss(r) \/ Build(r)
  PROVE  Owned'
<1> DEFINE a == task[r].app
<1> USE Identities
<1>0. Shape /\ Busy(r) /\ task[r] \in Task /\ a \in App /\ task[r].at \in {"init", "build"}
  BY BusyTask DEF Typed, Hit, Miss, Build, Task
<1>1. PICK at \in {"build", "act"} : Goto(r, at) /\ (at = "build" <=> Miss(r))
  BY DEF Hit, Miss, Build
<1>2. /\ task'[r] \in Task /\ task'[r].at = at
      /\ task'[r].kind = task[r].kind /\ task'[r].app = task[r].app
      /\ task'[r].alone = task[r].alone
      /\ \A s \in Slot \ {r} : task'[s] = task[s]
  BY <1>0, <1>1, GotoTask
<1>3. \A s \in Slot : Busy(s)' <=> Busy(s)
  BY <1>0, <1>2 DEF Busy
<1>4. Solitude'
  BY <1>2, <1>3 DEF Owned, Solitude
<1>5. UNCHANGED <<amApp, page, syncing, mixed>>
  BY DEF Hit, Miss, Build, storeVars
<1>6. \A b \in App : cache[b] # None => cache[b] \in Manager /\ cache[b].app = b
  BY DEF Typed, TypeOK
<1>7. task[r].alone => \A s \in Slot : Busy(s) => s = r
  BY <1>0 DEF Owned, Solitude
<1>8. \A s \in Slot : Busy(s)' /\ task'[s].alone => s = r /\ task[r].alone
  BY <1>0, <1>2, <1>3 DEF Owned, Solitude
<1>9. \A b \in bare : \E s \in Slot \ {r} :
         Busy(s) /\ task[s].kind = "stats" /\ task[s].at = "act" /\ task[s].app = b
  BY <1>0 DEF Owned, BareByStats
<1>10. CASE Miss(r)
  <2>1. cache[a] = None /\ UNCHANGED <<cache, bare, store, am>> /\ task[r].at = "init" /\ at = "build"
    BY <1>10, <1>1 DEF Miss, storeVars
  <2>2. Undisturbed'
    BY <2>1, <1>0, <1>2, <1>3, <1>5, <1>8 DEF Owned, Undisturbed
  <2>3. BareByStats'
    BY <2>1, <1>2, <1>3, <1>9 DEF BareByStats
  <2>4. PageOwns'
    BY <2>1, <1>2, <1>3, <1>5 DEF Owned, PageOwns
  <2>5. SyncsCached'
    <3>1. \A s \in syncing : s.mgr # None
      BY DEF Typed, TypeOK, Sync
    <3>2. QED
      BY <2>1, <3>1, <1>2, <1>3, <1>5 DEF Owned, SyncsCached
  <2>6. QED
    BY <1>4, <2>2, <2>3, <2>4, <2>5 DEF Owned
<1>11. CASE Hit(r)
  <2>1. cache[a] # None /\ UNCHANGED <<cache, bare>> /\ store' = cache[a]
    BY <1>11 DEF Hit, Retarget
  <2>2. am' = IF task[r].kind = "stats" THEN am ELSE [app |-> a, adapters |-> a \notin bare]
    BY <1>11, <2>1, <1>6, <1>0 DEF Hit, Retarget
  <2>3. task[r].alone => a \notin bare
    BY <1>7, <1>9
  <2>9. at = "act"
    BY <1>1, <1>11, <2>1 DEF Miss
  <2>4. Undisturbed'
    BY <2>1, <2>2, <2>3, <2>9, <1>0, <1>2, <1>3, <1>5, <1>8 DEF Owned, Undisturbed
  <2>5. BareByStats'
    BY <2>1, <1>2, <1>3, <1>9 DEF BareByStats
  <2>6. PageOwns'
    BY <2>1, <1>0, <1>2, <1>3, <1>5 DEF Owned, PageOwns
  <2>7. SyncsCached'
    BY <2>1, <1>0, <1>1, <1>2, <1>3, <1>5, <1>11 DEF Owned, SyncsCached, Hit, Miss
  <2>8. QED
    BY <1>4, <2>4, <2>5, <2>6, <2>7 DEF Owned
<1>12. CASE Build(r)
  <2> DEFINE m == Fresh(a)
  <2>1. m \in Manager /\ m.app = a
    BY <1>0, FreshManager DEF Typed, TypeOK, Shape
  <2>2. /\ cache' = [cache EXCEPT ![a] = m] /\ store' = m
        /\ bare' \subseteq (IF task[r].kind = "stats" THEN bare \cup {a} ELSE bare)
        /\ am' = IF task[r].kind = "stats" THEN am ELSE [app |-> m.app, adapters |-> task[r].kind # "stats"]
        /\ task[r].at = "build"
    BY <1>12 DEF Build, Retarget
  <2> HIDE DEF m
  <2>3. cache'[a] = m /\ \A b \in App \ {a} : cache'[b] = cache[b]
    BY <2>2, <1>0 DEF Typed, Shape
  <2>9. at = "act"
    BY <1>1, <1>12, <2>2 DEF Miss
  <2>4. Undisturbed'
    BY <2>1, <2>2, <2>3, <2>9, <1>0, <1>2, <1>3, <1>5, <1>8 DEF Owned, Undisturbed
  <2>5. BareByStats'
    BY <2>2, <2>9, <1>0, <1>2, <1>3, <1>9 DEF BareByStats
  <2>6. PageOwns'
    BY <2>1, <2>2, <2>3, <1>0, <1>2, <1>3, <1>5 DEF Owned, PageOwns
  <2>7. SyncsCached'
    <3>1. \A s \in syncing : s.mgr.app \in App
      BY DEF Typed, TypeOK, Sync, Manager
    <3>2. QED
      BY <3>1, <2>2, <2>3, <2>9, <1>0, <1>2, <1>3, <1>5 DEF Owned, SyncsCached
  <2>8. QED
    BY <1>4, <2>4, <2>5, <2>6, <2>7 DEF Owned
<1>13. QED
  BY <1>10, <1>11, <1>12

\* A task begins.
LEMMA BegunOwned ==
  ASSUME Typed, Owned, NEW r \in Slot,
         GoHome(r) \/ Import(r) \/ Open(r) \/ AskLogout(r) \/ Refused(r) \/ Login(r)
  PROVE  Owned'
<1> USE StatsTask, NewTask DEF Kind
<1>0. /\ Home.at # "view" /\ page \in Page /\ syncing \subseteq Sync
      /\ page.at \in {"view", "login"} => page.app \in App /\ page.app # None
  BY Identities DEF Typed, TypeOK, Home, Page
<1>1. CASE GoHome(r)
  <2>1. PICK a \in App : Begin(r, Stats(a))
    BY <1>1 DEF GoHome
  <2>2. page' = Home /\ UNCHANGED <<cache, bare, store, am, syncing, authVars>>
    BY <1>1 DEF GoHome
  <2>3. QED
    BY <1>0, <2>1, <2>2, BeginOwned
<1>2. CASE Import(r)
  <2>1. PICK a \in App : Begin(r, Stats(a))
    BY <1>2 DEF Import
  <2>2. page' = page /\ page = Home /\ UNCHANGED <<cache, bare, store, am, syncing, authVars>>
    BY <1>2 DEF Import
  <2>3. QED
    BY <1>0, <2>1, <2>2, BeginOwned
<1>3. CASE Open(r)
  <2>1. PICK a \in App : page \in {Home, View(a)} /\ Begin(r, New("open", a))
    BY <1>3 DEF Open
  <2>2. page' = page /\ UNCHANGED <<cache, bare, store, am, syncing, authVars>>
    BY <1>3 DEF Open
  <2>3. page'.at = "view" => page.app = a
    BY <1>0, <2>1, <2>2 DEF View
  <2>4. QED
    BY <2>1, <2>2, <2>3, BeginOwned
<1>4. CASE AskLogout(r)
  <2>1. page.app \in App /\ Begin(r, New("logout", page.app))
    BY <1>0, <1>4 DEF AskLogout
  <2>2. page' = page /\ UNCHANGED <<cache, bare, store, am, syncing, authVars>>
    BY <1>4 DEF AskLogout
  <2>3. QED
    BY <2>1, <2>2, BeginOwned
<1>5. CASE Refused(r)
  <2>1. PICK s \in syncing :
           LET a == IF page.app # None THEN page.app ELSE s.by
           IN  /\ syncing' = syncing \ {s}
               /\ Begin(r, [New("logout", a) EXCEPT !.mine = a = s.by])
    BY <1>5 DEF Refused
  <2> DEFINE a == IF page.app # None THEN page.app ELSE s.by
             own == a = s.by
             t == [New("logout", a) EXCEPT !.mine = own]
  <2>2. a \in App
    BY <1>0 DEF Sync, Page
  <2>3. t \in Task /\ t.at = "init" /\ t.kind = "logout" /\ t.app = a
    <3>1. /\ New("logout", a) \in Task /\ New("logout", a).at = "init"
          /\ New("logout", a).kind = "logout" /\ New("logout", a).app = a
      BY <2>2
    <3>2. own \in BOOLEAN
      OBVIOUS
    <3> HIDE DEF own
    <3>3. QED
      BY <3>1, <3>2 DEF Task
  <2>4. syncing' \subseteq syncing /\ Begin(r, t)
    BY <2>1
  <2>5. page' = page /\ UNCHANGED <<cache, bare, store, am, authVars>>
    BY <1>5 DEF Refused
  <2>6. page.at = "view" => a = page.app
    BY <1>0
  <2> HIDE DEF t
  <2>7. QED
    BY <2>3, <2>4, <2>5, <2>6, BeginOwned
<1>6. CASE Login(r)
  <2>1. PICK kind \in {"default", "oidc"} : Begin(r, New(kind, page.app))
    BY <1>6 DEF Login
  <2>2. /\ page' = page /\ page.app \in App /\ page.at = "login"
        /\ UNCHANGED <<cache, bare, store, am, syncing, authVars>>
    BY <1>0, <1>6 DEF Login
  <2>3. QED
    BY <2>1, <2>2, BeginOwned
<1>7. QED
  BY <1>1, <1>2, <1>3, <1>4, <1>5, <1>6

\* A page is closed.
LEMMA ClosedOwned ==
  ASSUME Typed, Owned, NEW r \in Slot, Close(r)
  PROVE  Owned'
<1> DEFINE a == task[r].app
<1>1. /\ Busy(r) /\ task[r].kind = "stats" /\ task[r].at = "act"
      /\ cache' = [cache EXCEPT ![a] = None] /\ bare' = bare \ {a}
      /\ syncing' = Loosen(cache[a])
      /\ UNCHANGED <<store, page, mixed>>
  BY DEF Close, Loosen
<1>2. \/ Finish(r)
      \/ \E b \in task[r].rest :
            /\ task' = [task EXCEPT ![r] = [task[r] EXCEPT !.app = b, !.at = "init", !.rest = @ \ {b}]]
            /\ UNCHANGED <<am, amApp>>
  BY DEF Close
<1>3. task[r] \in Task /\ a \in App /\ task \in [Slot -> Task \cup {Idle}]
  BY <1>1, BusyTask DEF Typed, Task, Shape
<1>4. /\ \A s \in Slot \ {r} : task'[s] = task[s]
      /\ Busy(r)' => /\ task'[r].kind = "stats" /\ task'[r].at = "init"
                     /\ task'[r].alone = task[r].alone
  <2>1. CASE Finish(r)
    BY <2>1, FinishTask DEF Typed, Busy
  <2>2. ASSUME NEW b \in task[r].rest,
               task' = [task EXCEPT ![r] = [task[r] EXCEPT !.app = b, !.at = "init", !.rest = @ \ {b}]]
        PROVE  <1>4
    <3> DEFINE t == [task[r] EXCEPT !.app = b, !.at = "init", !.rest = @ \ {b}]
    <3>1. t.kind = "stats" /\ t.at = "init" /\ t.alone = task[r].alone
      BY <1>1, <1>3 DEF Task
    <3> HIDE DEF t
    <3>2. task' = [task EXCEPT ![r] = t]
      BY <2>2 DEF t
    <3>3. QED
      BY <1>3, <3>1, <3>2
  <2>3. QED
    BY <1>2, <2>1, <2>2
<1>5. \A s \in Slot : Busy(s)' => Busy(s)
  BY <1>1, <1>4 DEF Busy
<1>6. Solitude'
  BY <1>1, <1>4, <1>5 DEF Owned, Solitude
<1>7. \A s \in Slot : Busy(s)' /\ task'[s].alone => s = r
  BY <1>1, <1>4, <1>5 DEF Owned, Solitude
<1>8. Undisturbed'
  BY <1>4, <1>7 DEF Undisturbed
<1>9. BareByStats'
  <2> SUFFICES ASSUME NEW b \in bare, b # a
               PROVE  \E s \in Slot : /\ Busy(s)' /\ task'[s].kind = "stats"
                                      /\ task'[s].at = "act" /\ task'[s].app = b
    BY <1>1 DEF BareByStats
  <2>1. PICK s \in Slot : Busy(s) /\ task[s].kind = "stats" /\ task[s].at = "act" /\ task[s].app = b
    BY DEF Owned, BareByStats
  <2>2. QED
    BY <2>1, <1>4 DEF Busy
<1>10. PageOwns'
  BY <1>1 DEF Owned, PageOwns
<1>11. SyncsCached'
  <2> SUFFICES ASSUME NEW u \in syncing', ~u.loose
               PROVE  /\ cache'[u.mgr.app] = u.mgr
                      /\ \A s \in Slot : Busy(s)' /\ task'[s].at = "build" => task'[s].app # u.mgr.app
    BY DEF SyncsCached
  <2>1. PICK s \in syncing : u.mgr = s.mgr /\ ~s.loose /\ s.mgr # cache[a]
    BY <1>1, Loosened
  <2>2. cache[s.mgr.app] = s.mgr /\ s.mgr.app \in App
    BY <2>1 DEF Owned, SyncsCached, Typed, TypeOK, Sync, Manager
  <2>3. s.mgr.app # a
    BY <2>1, <2>2
  <2>4. cache'[s.mgr.app] = s.mgr
    BY <2>2, <2>3, <1>1 DEF Typed, Shape
  <2>5. \A x \in Slot : Busy(x)' /\ task'[x].at = "build" => task'[x].app # s.mgr.app
    BY <2>1, <1>4, <1>5 DEF Owned, SyncsCached
  <2>6. QED
    BY <2>1, <2>4, <2>5
<1>12. QED
  BY <1>6, <1>8, <1>9, <1>10, <1>11 DEF Owned

\* A page is shown.
LEMMA ShownOwned ==
  ASSUME Typed, Owned, NEW r \in Slot, Show(r) \/ ShowLogin(r) \/ Deny(r) \/ Logout(r) \/ Post(r)
  PROVE  Owned'
<1> DEFINE a == task[r].app
<1>1. Busy(r)
  BY DEF Show, ShowLogin, Deny, Logout, Post
<1>2. /\ View(a).at = "view" /\ LoginPage(a).at # "view"
  BY DEF View, LoginPage
<1>3. CASE Show(r)
  <2>1. /\ task[r].kind = "open" /\ task[r].at = "act"
        /\ Arrive(r, View(a)) \/ (ToLogin(r) /\ UNCHANGED <<am, page, going, mixed>>)
        /\ UNCHANGED <<cache, bare, store, syncing>>
    BY <1>3 DEF Show
  <2>2. CASE ToLogin(r) /\ UNCHANGED <<am, page, going, mixed>>
    BY <1>1, <2>1, <2>2, ToLoginOwned
  <2>3. CASE Arrive(r, View(a))
    <3>1. Finish(r)
      BY <2>3 DEF Arrive
    <3>2. (page' = page /\ mixed' = mixed) \/ (page' = View(a) /\ mixed' = ~task[r].alone)
      <4>1. CASE going # r
        BY <2>3, <4>1 DEF Arrive
      <4>2. CASE going = r
        <5>1. page' = View(a) /\ mixed' = (View(a).at = "view" /\ ~task[r].alone)
          BY <2>3, <4>2 DEF Arrive
        <5>2. QED
          BY <5>1, <1>2
      <4>3. QED
        BY <4>1, <4>2
    <3>3. QED
      BY <1>1, <2>1, <3>1, <3>2, FinishOwned
  <2>4. QED
    BY <2>1, <2>2, <2>3
<1>4. CASE ShowLogin(r)
  <2>1. /\ task[r].kind = "login" /\ Arrive(r, LoginPage(a))
        /\ UNCHANGED <<cache, bare, store, syncing>>
    BY <1>4 DEF ShowLogin
  <2>2. Finish(r) /\ ((page' = page /\ mixed' = mixed) \/ page' = LoginPage(a))
    BY <2>1 DEF Arrive
  <2>3. QED
    BY <1>1, <1>2, <2>1, <2>2, FinishOwned
<1>5. CASE Deny(r)
  <2>1. Finish(r) /\ UNCHANGED <<cache, bare, store, page, syncing, mixed>> /\ task[r].at = "answer"
    BY <1>5 DEF Deny
  <2>2. task[r].kind # "stats"
    BY <1>1, <2>1 DEF Typed, Prepared
  <2>3. QED
    BY <1>1, <2>1, <2>2, FinishOwned
<1>6. CASE Logout(r)
  <2>1. task[r].kind = "logout" /\ ToLogin(r) /\ UNCHANGED <<page, cache, bare, store, am, syncing, mixed>>
    BY <1>6 DEF Logout
  <2>2. QED
    BY <1>1, <2>1, ToLoginOwned
<1>7. CASE Post(r)
  <2>1. /\ task[r].kind = "default" /\ task[r].at = "act"
        /\ task' = [task EXCEPT ![r] = [task[r] EXCEPT !.at = "answer", !.of = am.app]]
        /\ UNCHANGED <<storeVars, page, syncing, mixed>>
    BY <1>7 DEF Post
  <2> DEFINE t == [task[r] EXCEPT !.at = "answer", !.of = am.app]
  <2>2. task[r] \in Task /\ task \in [Slot -> Task \cup {Idle}]
    BY <1>1, BusyTask DEF Typed, Shape
  <2>3. /\ t.at = "answer" /\ t.of = am.app /\ t.kind = "default"
        /\ t.app = a /\ t.alone = task[r].alone
    BY <2>1, <2>2 DEF Task
  <2> HIDE DEF t
  <2>4. task' = [task EXCEPT ![r] = t]
    BY <2>1 DEF t
  <2>5. task'[r] = t /\ \A s \in Slot \ {r} : task'[s] = task[s]
    BY <2>2, <2>4
  <2>6. t # Idle
    BY <2>3 DEF Idle
  <2>7. \A s \in Slot : Busy(s)' <=> Busy(s)
    BY <1>1, <2>5, <2>6 DEF Busy
  <2>8. Solitude' /\ BareByStats' /\ SyncsCached'
    BY <2>1, <2>3, <2>5, <2>7 DEF storeVars, Owned, Solitude, BareByStats, SyncsCached
  <2>9. Undisturbed'
    <3>1. task[r].alone => am = [app |-> a, adapters |-> TRUE] /\ amApp = a
      BY <1>1, <2>1 DEF Owned, Undisturbed
    <3>2. \A s \in Slot : Busy(s)' /\ task'[s].alone => s = r
      BY <1>1, <2>3, <2>5, <2>7 DEF Owned, Solitude
    <3>3. task[r].alone => t.of = a
      BY <3>1, <2>3
    <3>4. QED
      BY <3>1, <3>2, <3>3, <2>1, <2>3, <2>5 DEF storeVars, Undisturbed
  <2>10. PageOwns'
    BY <1>1, <2>1 DEF storeVars, Owned, PageOwns
  <2>11. QED
    BY <2>8, <2>9, <2>10 DEF Owned
<1>8. QED
  BY <1>3, <1>4, <1>5, <1>6, <1>7

\* The provider redirects.
LEMMA RedirectOwned ==
  ASSUME Typed, Owned, NEW r \in Slot, Redirect(r)
  PROVE  Owned'
<1>1. CASE am.adapters
  <2>1. /\ page' = [at |-> "provider", app |-> amApp]
        /\ bare' = {} /\ task' = [s \in Slot |-> Idle] /\ syncing' = {}
    BY <1>1 DEF Redirect
  <2>2. page'.at # "view" /\ \A s \in Slot : ~Busy(s)'
    BY <2>1 DEF Busy
  <2>3. QED
    BY <2>1, <2>2 DEF Owned, Solitude, Undisturbed, BareByStats, PageOwns, SyncsCached
<1>2. CASE ~am.adapters
  <2>1. /\ Busy(r) /\ task[r].kind = "oidc" /\ Finish(r)
        /\ UNCHANGED <<cache, bare, store, page, syncing, mixed>>
    BY <1>2 DEF Redirect
  <2>2. QED
    BY <2>1, FinishOwned
<1>3. QED
  BY <1>1, <1>2

\* On a page without an overlap, a new sync runs in the cached manager.
LEMMA SyncOwned ==
  ASSUME Typed, Owned, StartSync \/ Done
  PROVE  Owned'
<1>1. UNCHANGED <<storeVars, pageVars, mixed>>
  BY DEF StartSync, Done
<1>2. Solitude' /\ Undisturbed' /\ BareByStats' /\ PageOwns'
  BY <1>1 DEF Owned, Solitude, Undisturbed, BareByStats, PageOwns, Busy, storeVars, pageVars
<1>3. SyncsCached'
  <2>1. CASE Done
    <3>1. syncing' \subseteq syncing
      BY <2>1 DEF Done
    <3>2. QED
      BY <1>1, <3>1 DEF Owned, SyncsCached, Busy, storeVars, pageVars
  <2>2. CASE StartSync
    <3> DEFINE s == [mgr |-> store, by |-> page.app, loose |-> mixed]
    <3>1. page.at = "view" /\ syncing' = syncing \cup {s}
      BY <2>2 DEF StartSync
    <3>2. s.mgr = store /\ s.loose = mixed
      OBVIOUS
    <3> HIDE DEF s
    <3>3. ASSUME ~mixed
          PROVE  /\ cache[store.app] = store
                 /\ \A r \in Slot : Busy(r) /\ task[r].at = "build" => task[r].app # store.app
      <4>1. /\ cache[page.app] # None /\ store = cache[page.app] /\ page.app \in App
            /\ \A r \in Slot : Busy(r) => task[r].alone /\ task[r].app = page.app
        BY <3>1, <3>3 DEF Owned, PageOwns, Typed, TypeOK, Page
      <4>2. store.app = page.app
        BY <4>1 DEF Typed, TypeOK
      <4>3. \A r \in Slot : Busy(r) => task[r].at # "build"
        BY <4>1 DEF Owned, Undisturbed
      <4>4. QED
        BY <4>1, <4>2, <4>3
    <3>4. QED
      BY <1>1, <3>1, <3>2, <3>3 DEF Owned, SyncsCached, Busy, storeVars, pageVars
  <2>3. QED
    BY <2>1, <2>2
<1>4. QED
  BY <1>2, <1>3 DEF Owned

\* A task that was loaded with the page is a new one.
LEMMA LoadedOwned ==
  ASSUME Typed, NEW r \in Slot, Answer(r) \/ Callback(r) \/ Reload(r)
  PROVE  Owned'
<1>1. \E t : t.at = "init" /\ t \in Task /\ Load(r, t)
  <2>1. CASE Answer(r)
    <3>1. task[r].kind # "stats"
      BY <2>1 DEF Answer, Typed, Prepared
    <3>2. amApp \in App
      BY <2>1, <3>1 DEF Answer, Typed, Prepared, TypeOK
    <3>3. QED
      BY <2>1, <3>2, NewTask DEF Answer, Kind
  <2>2. CASE Callback(r)
    <3>1. page.app \in App
      BY <2>2 DEF Callback, Typed, TypeOK, Page
    <3>2. QED
      BY <2>2, <3>1, NewTask DEF Callback, Kind
  <2>3. CASE Reload(r)
    <3>1. page.at \in {"view", "login"} => page.app \in App
      BY DEF Typed, TypeOK, Page
    <3>2. QED
      BY <2>3, <3>1, NewTask, StatsTask DEF Reload, Kind
  <2>4. QED
    BY <2>1, <2>2, <2>3
<1>2. QED
  BY <1>1, LoadOwned

\* Every step keeps store, cache and syncs apart.
LEMMA NextOwned == Typed /\ Owned /\ [Next]_vars => Owned'
<1> SUFFICES ASSUME Typed, Owned, [Next]_vars PROVE Owned'
  OBVIOUS
<1>1. ASSUME NEW r \in Slot, Hit(r) \/ Miss(r) \/ Build(r) PROVE Owned'
  BY <1>1, OpenedOwned
<1>2. ASSUME NEW r \in Slot, GoHome(r) \/ Import(r) \/ Open(r) \/ AskLogout(r) \/ Refused(r) \/ Login(r)
      PROVE  Owned'
  BY <1>2, BegunOwned
<1>3. ASSUME NEW r \in Slot, Close(r) \/ Show(r) \/ ShowLogin(r) \/ Logout(r) \/ Post(r) \/ Deny(r)
      PROVE  Owned'
  BY <1>3, ClosedOwned, ShownOwned
<1>4. ASSUME NEW r \in Slot, Answer(r) \/ Redirect(r) \/ Callback(r) \/ Reload(r) PROVE Owned'
  BY <1>4, LoadedOwned, RedirectOwned
<1>5. CASE StartSync \/ Done
  BY <1>5, SyncOwned
<1>6. CASE UNCHANGED vars
  BY <1>6 DEF vars, storeVars, pageVars, Owned, Solitude, Undisturbed, BareByStats, PageOwns,
              SyncsCached, Busy
<1>7. QED
  BY <1>1, <1>2, <1>3, <1>4, <1>5, <1>6 DEF Next

-----------------------------------------------------------------------------
(* Third layer.                                                            *)

Signins == TokensOfLogin /\ LoginsUnsigned /\ LeavingPage

\* The start.
LEMMA InitSignins == Init => Signins
<1> SUFFICES ASSUME Init PROVE Signins
  OBVIOUS
<1>1. PICK a \in App, r \in Slot : task = [s \in Slot |-> IF s = r THEN Stats(a) ELSE Idle]
  BY DEF Init
<1>2. \A s \in Slot : Busy(s) => task[s].kind = "stats"
  BY <1>1, StatsTask DEF Busy
<1>3. page.at = "home"
  BY DEF Init, Home
<1>4. QED
  BY <1>2, <1>3 DEF Init, Signins, TokensOfLogin, LoginsUnsigned, LeavingPage

\* A page of a program stands for a program.
LEMMA PageOfProgram ==
  ASSUME Typed
  PROVE  page.at \in {"view", "login", "provider"} => page.app \in App
  BY DEF Typed, TypeOK, Page

\* A load of the app keeps the layer Signins.
LEMMA LoadSignins ==
  ASSUME TokensOfLogin', NEW r \in Slot, NEW t \in Task, Load(r, t),
         t.kind \in {"stats", "open"} \/ (t.kind = "login" /\ Unsigned(t.app)')
  PROVE  Signins'
<1>1. task'[r] = t /\ \A s \in Slot \ {r} : task'[s] = Idle
  BY LoadTask
<1>2. page' \in {Home, Blank}
  BY DEF Load
<1>3. page'.at \in {"home", "blank"}
  BY <1>2 DEF Home, Blank
<1>4. \A s \in Slot : Busy(s)' => s = r
  BY <1>1 DEF Busy
<1>5. LoginsUnsigned' /\ LeavingPage'
  BY <1>1, <1>3, <1>4 DEF LoginsUnsigned, LeavingPage
<1>6. QED
  BY <1>5 DEF Signins

\* A task that begins keeps the layer Signins,
LEMMA BeginSignins ==
  ASSUME Typed, Owned, Signins, NEW r \in Slot, NEW t \in Task, Begin(r, t), UNCHANGED authVars,
         t.kind \in {"stats", "open", "logout"} \/ (t.kind \in {"default", "oidc"} /\ Unsigned(t.app)),
         page' = page \/ page' = Home
  PROVE  Signins'
<1>1. Shape /\ faults \in 0 .. MaxFaults
  BY DEF Typed, TypeOK
<1>2. /\ ~Busy(r)
      /\ task'[r].kind = t.kind /\ task'[r].app = t.app
      /\ task'[r].alone <=> \A s \in Slot \ {r} : ~Busy(s)
  BY <1>1, BeginTask
<1>3. \A s \in Slot \ {r} :
         \/ task[s] = Idle /\ task'[s] = Idle
         \/ /\ task[s] \in Task /\ task'[s] \in Task
            /\ task'[s].kind = task[s].kind /\ task'[s].app = task[s].app
            /\ task'[s].at = task[s].at /\ task'[s].of = task[s].of
            /\ task'[s].alone = FALSE
  BY <1>1, BeginTask
<1>4. mixed' = (page'.at = "view" /\ (mixed \/ ~task'[r].alone))
  BY <1>1, BeginTask
<1>5. \A s \in Slot \ {r} : Busy(s)' =>
         Busy(s) /\ task'[s].kind = task[s].kind /\ task'[s].app = task[s].app /\ ~task'[s].alone
  BY <1>3, Identities DEF Busy
<1>6. TokensOfLogin' /\ Home.at = "home"
  BY DEF authVars, Signins, TokensOfLogin, Home
<1>7. LoginsUnsigned'
  BY <1>2, <1>5, <1>6 DEF authVars, Signins, LoginsUnsigned, Unsigned
<1>8. LeavingPage'
  <2> SUFFICES ASSUME page'.at = "view", ~mixed', login'[page'.app] = "none" PROVE FALSE
    BY DEF LeavingPage
  <2>1. page' = page /\ ~mixed /\ task'[r].alone
    BY <1>4, <1>6
  <2>2. PICK s \in Slot : Busy(s)
    BY <2>1 DEF authVars, Signins, LeavingPage
  <2>3. QED
    BY <2>1, <2>2, <1>2
<1>9. QED
  BY <1>6, <1>7, <1>8 DEF Signins

\* which the user starts;
LEMMA BegunSignins ==
  ASSUME Typed, Owned, Signins, NEW r \in Slot,
         GoHome(r) \/ Import(r) \/ Open(r) \/ AskLogout(r) \/ Refused(r) \/ Login(r)
  PROVE  Signins'
<1>1. page' = page \/ page' = Home
  BY DEF GoHome, Import, Open, AskLogout, Refused, Login
<1>2. UNCHANGED authVars
  BY DEF GoHome, Import, Open, AskLogout, Refused, Login
<1>3. \E t : /\ t \in Task /\ Begin(r, t)
             /\ t.kind \in {"stats", "open", "logout"} \/ (t.kind \in {"default", "oidc"} /\ Unsigned(t.app))
  <2>1. CASE GoHome(r) \/ Import(r)
    BY <2>1, StatsTask DEF GoHome, Import
  <2>2. CASE Open(r)
    BY <2>2, NewTask DEF Open, Kind
  <2>3. CASE AskLogout(r)
    BY <2>3, NewTask, PageOfProgram DEF AskLogout, Kind
  <2>4. CASE Refused(r)
    <3>1. PICK s \in syncing :
             LET a == IF page.app # None THEN page.app ELSE s.by
             IN  Begin(r, [New("logout", a) EXCEPT !.mine = a = s.by])
      BY <2>4 DEF Refused
    <3> DEFINE a == IF page.app # None THEN page.app ELSE s.by
               own == a = s.by
               t == [New("logout", a) EXCEPT !.mine = own]
    <3>2. a \in App
      BY DEF Typed, TypeOK, Sync, Page
    <3>3. New("logout", a) \in Task /\ New("logout", a).kind = "logout"
      BY <3>2, NewTask DEF Kind
    <3>4. own \in BOOLEAN /\ Begin(r, t)
      BY <3>1
    <3> HIDE DEF own
    <3>5. t \in Task /\ t.kind = "logout"
      BY <3>3, <3>4 DEF Task
    <3>6. QED
      BY <3>4, <3>5
  <2>5. CASE Login(r)
    <3>1. PICK kind \in {"default", "oidc"} : Begin(r, New(kind, page.app))
      BY <2>5 DEF Login
    <3>2. page.app \in App /\ Unsigned(page.app)
      BY <2>5, PageOfProgram DEF Login, Signins, LoginsUnsigned
    <3>3. New(kind, page.app) \in Task /\ New(kind, page.app).kind = kind /\ New(kind, page.app).app = page.app
      BY <3>2, NewTask DEF Kind
    <3>4. QED
      BY <3>1, <3>2, <3>3
  <2>6. QED
    BY <2>1, <2>2, <2>3, <2>4, <2>5
<1>4. QED
  BY <1>1, <1>2, <1>3, BeginSignins

\* A task of an overlap or of another kind than login ends, or goes on, and nobody signs in.
LEMMA KeptSignins ==
  ASSUME Typed, Owned, Signins, NEW r \in Slot, Busy(r), UNCHANGED <<authVars, page, mixed>>,
         \A s \in Slot \ {r} : task'[s] = task[s],
         Busy(r)' => /\ task'[r].kind = task[r].kind /\ task'[r].app = task[r].app
                     /\ task'[r].alone = task[r].alone,
         \/ Busy(r)' /\ going' = going
         \/ ~Busy(r)' /\ (task[r].kind # "login" \/ going # r)
  PROVE  Signins'
<1>1. \A s \in Slot : Busy(s)' =>
         Busy(s) /\ task'[s].kind = task[s].kind /\ task'[s].app = task[s].app /\ task'[s].alone = task[s].alone
  BY DEF Busy
<1>2. TokensOfLogin' /\ LoginsUnsigned'
  BY <1>1 DEF authVars, Signins, TokensOfLogin, LoginsUnsigned, Unsigned
<1>3. LeavingPage'
  <2> SUFFICES ASSUME page.at = "view", ~mixed, login[page.app] = "none"
               PROVE  \E s \in Slot : Busy(s)' /\ task'[s].kind = "login" /\ going' = s
    BY DEF authVars, LeavingPage
  <2>1. PICK s \in Slot : Busy(s) /\ task[s].kind = "login" /\ going = s
    BY DEF Signins, LeavingPage
  <2>2. s = r
    BY <2>1 DEF Owned, PageOwns, Solitude
  <2>3. QED
    BY <2>1, <2>2
<1>4. QED
  BY <1>2, <1>3 DEF Signins

\* so does a task at work.
LEMMA WorkSignins ==
  ASSUME Typed, Owned, Signins, NEW r \in Slot,
         Hit(r) \/ Miss(r) \/ Build(r) \/ Close(r) \/ Post(r) \/ Deny(r)
  PROVE  Signins'
<1>1. Busy(r) /\ UNCHANGED <<authVars, page, mixed, going>>
  BY DEF Hit, Miss, Build, Close, Post, Deny
<1>2. task[r] \in Task /\ task \in [Slot -> Task \cup {Idle}]
  BY <1>1, BusyTask DEF Typed, Shape
<1>3. CASE Hit(r) \/ Miss(r) \/ Build(r)
  <2>1. PICK at \in {"build", "act"} : Goto(r, at)
    BY <1>3 DEF Hit, Miss, Build
  <2>2. /\ task'[r] \in Task
        /\ task'[r].kind = task[r].kind /\ task'[r].app = task[r].app
        /\ task'[r].alone = task[r].alone
        /\ \A s \in Slot \ {r} : task'[s] = task[s]
    BY <1>1, <2>1, GotoTask DEF Typed
  <2>3. Busy(r)'
    BY <2>2, Identities DEF Busy
  <2>4. QED
    BY <1>1, <2>2, <2>3, KeptSignins
<1>4. CASE Close(r)
  <2>1. task[r].kind = "stats"
    BY <1>4 DEF Close
  <2>2. /\ \A s \in Slot \ {r} : task'[s] = task[s]
        /\ Busy(r)' => task'[r].kind = "stats"
    <3>1. CASE Finish(r)
      BY <3>1, FinishTask DEF Typed, Busy
    <3>2. ASSUME NEW b \in task[r].rest,
                 task' = [task EXCEPT ![r] = [task[r] EXCEPT !.app = b, !.at = "init", !.rest = @ \ {b}]]
          PROVE  <2>2
      <4> DEFINE t == [task[r] EXCEPT !.app = b, !.at = "init", !.rest = @ \ {b}]
      <4>1. t.kind = "stats"
        BY <1>2, <2>1 DEF Task
      <4> HIDE DEF t
      <4>2. task' = [task EXCEPT ![r] = t]
        BY <3>2 DEF t
      <4>3. QED
        BY <1>2, <4>1, <4>2
    <3>3. QED
      BY <1>4, <3>1, <3>2 DEF Close
  <2>3. \A s \in Slot : Busy(s)' => Busy(s)
    BY <1>1, <2>2 DEF Busy
  <2>4. TokensOfLogin'
    BY <1>1 DEF authVars, Signins, TokensOfLogin
  <2>5. LoginsUnsigned'
    BY <1>1, <2>2, <2>3 DEF authVars, Signins, LoginsUnsigned, Unsigned
  <2>6. LeavingPage'
    BY <1>1, <2>1 DEF LeavingPage, Owned, PageOwns
  <2>7. QED
    BY <2>4, <2>5, <2>6 DEF Signins
<1>5. CASE Post(r)
  <2> DEFINE t == [task[r] EXCEPT !.at = "answer", !.of = am.app]
  <2>1. t.kind = task[r].kind /\ t.app = task[r].app /\ t.alone = task[r].alone /\ t.at = "answer"
    BY <1>2 DEF Task
  <2> HIDE DEF t
  <2>2. task' = [task EXCEPT ![r] = t] /\ task[r].kind = "default"
    BY <1>5 DEF Post, t
  <2>3. task'[r] = t /\ \A s \in Slot \ {r} : task'[s] = task[s]
    BY <1>2, <2>2
  <2>4. Busy(r)'
    BY <2>1, <2>2, <2>3 DEF Busy, Idle
  <2>5. QED
    BY <1>1, <2>1, <2>3, <2>4, KeptSignins
<1>6. CASE Deny(r)
  <2>1. Finish(r) /\ task[r].at = "answer"
    BY <1>6 DEF Deny
  <2>2. task'[r] = Idle /\ \A s \in Slot \ {r} : task'[s] = task[s]
    BY <2>1, FinishTask DEF Typed
  <2>3. task[r].kind # "login" /\ ~Busy(r)'
    BY <1>1, <2>1, <2>2 DEF Typed, Prepared, Busy
  <2>4. QED
    BY <1>1, <2>2, <2>3, KeptSignins
<1>7. QED
  BY <1>3, <1>4, <1>5, <1>6

\* A page is shown to who is signed in, the login page to nobody who is.
LEMMA ShowSignins ==
  ASSUME Typed, Owned, Signins, NEW r \in Slot, Show(r)
  PROVE  Signins'
<1> DEFINE a == task[r].app
<1>1. /\ Busy(r) /\ task[r].kind = "open" /\ task[r].at = "act" /\ UNCHANGED authVars
      /\ IF Authenticated(am) \/ going # r THEN Arrive(r, View(a))
         ELSE ToLogin(r) /\ UNCHANGED <<am, page, going, mixed>>
  BY DEF Show
<1>2. a \in App
  BY <1>1, BusyTask DEF Typed, Task
<1>3. task[r].alone => (Authenticated(am) <=> session \/ "default" \in tokens[a])
  <2>1. task[r].alone => am = [app |-> a, adapters |-> TRUE]
    BY <1>1 DEF Owned, Undisturbed
  <2>2. QED
    BY <2>1 DEF Authenticated
<1>4. task[r].alone => (Authenticated(am) => login[a] # "none") /\ (~Authenticated(am) => Unsigned(a))
  <2>1. login[a] \in {"default", "oidc", "none", "strayed"}
    BY <1>2 DEF Typed, TypeOK, Provider
  <2>2. QED
    BY <1>2, <1>3, <2>1 DEF Signins, TokensOfLogin, Unsigned
<1>5. CASE Arrive(r, View(a)) /\ (going = r => Authenticated(am))
  <2>1. Finish(r)
    BY <1>5 DEF Arrive
  <2>2. task'[r] = Idle /\ \A s \in Slot \ {r} : task'[s] = task[s]
    BY <2>1, FinishTask DEF Typed
  <2>3. CASE going # r
    <3>1. UNCHANGED <<page, going, mixed>> /\ ~Busy(r)'
      BY <1>5, <2>2, <2>3 DEF Arrive, Busy
    <3>2. QED
      BY <1>1, <2>2, <2>3, <3>1, KeptSignins
  <2>4. CASE going = r
    <3>1. page' = View(a) /\ mixed' = (View(a).at = "view" /\ ~task[r].alone)
      BY <1>5, <2>4 DEF Arrive
    <3>2. page'.at = "view" /\ page'.app = a
      BY <3>1 DEF View
    <3>3. ~mixed' => login'[a] # "none"
      BY <1>1, <1>4, <1>5, <2>4, <3>1, <3>2 DEF authVars
    <3>4. LeavingPage'
      BY <3>2, <3>3 DEF LeavingPage
    <3>5. TokensOfLogin'
      BY <1>1 DEF authVars, Signins, TokensOfLogin
    <3>6. LoginsUnsigned'
      BY <1>1, <2>2, <3>2 DEF authVars, Signins, LoginsUnsigned, Unsigned, Busy
    <3>7. QED
      BY <3>4, <3>5, <3>6 DEF Signins
  <2>5. QED
    BY <2>3, <2>4
<1>6. CASE ToLogin(r) /\ UNCHANGED <<am, page, going, mixed>> /\ going = r /\ ~Authenticated(am)
  <2>1. /\ task'[r] \in Task /\ task'[r].kind = "login"
        /\ task'[r].app = a /\ task'[r].alone = task[r].alone
        /\ \A s \in Slot \ {r} : task'[s] = task[s]
    BY <1>1, <1>6, ToLoginTask DEF Typed
  <2>2. Busy(r)' /\ \A s \in Slot \ {r} : Busy(s)' <=> Busy(s)
    BY <2>1, Identities DEF Busy
  <2>3. TokensOfLogin'
    BY <1>1 DEF authVars, Signins, TokensOfLogin
  <2>4. LoginsUnsigned'
    BY <1>1, <1>4, <1>6, <2>1, <2>2 DEF authVars, Signins, LoginsUnsigned, Unsigned
  <2>5. LeavingPage'
    BY <1>6, <2>1, <2>2 DEF LeavingPage
  <2>6. QED
    BY <2>3, <2>4, <2>5 DEF Signins
<1>7. QED
  BY <1>1, <1>5, <1>6

\* The login page is shown.
LEMMA ShowLoginSignins ==
  ASSUME Typed, Owned, Signins, NEW r \in Slot, ShowLogin(r)
  PROVE  Signins'
<1> DEFINE a == task[r].app
<1>1. /\ Busy(r) /\ task[r].kind = "login" /\ Arrive(r, LoginPage(a))
      /\ login' = (IF task[r].alone THEN login ELSE Stray({a}))
      /\ UNCHANGED <<tokens, session>>
  BY DEF ShowLogin
<1>2. a \in App
  BY <1>1, BusyTask DEF Typed, Task
<1>3. \A b \in App : login'[b] \in {login[b], "strayed"}
  BY <1>1 DEF Stray
<1>4. login'[a] \in {"none", "strayed"}
  <2>1. CASE task[r].alone
    BY <1>1, <2>1 DEF Signins, LoginsUnsigned, Unsigned
  <2>2. CASE ~task[r].alone
    BY <1>1, <1>2, <2>2 DEF Stray, Unsigned
  <2>3. QED
    BY <2>1, <2>2
<1>5. task'[r] = Idle /\ \A s \in Slot \ {r} : task'[s] = task[s]
  BY <1>1, FinishTask DEF Typed, Arrive
<1>6. \A s \in Slot : Busy(s)' => Busy(s) /\ task'[s] = task[s] /\ task[s].app \in App
  BY <1>5, BusyTask DEF Typed, Busy, Task
<1>7. TokensOfLogin'
  BY <1>1, <1>3 DEF Signins, TokensOfLogin
<1>8. CASE going # r
  <2>1. UNCHANGED <<page, going, mixed>>
    BY <1>1, <1>8 DEF Arrive
  <2>2. LoginsUnsigned'
    BY <2>1, <1>3, <1>6, PageOfProgram DEF Signins, LoginsUnsigned, Unsigned
  <2>3. LeavingPage'
    <3> SUFFICES ASSUME page.at = "view", ~mixed, login'[page.app] = "none" PROVE FALSE
      BY <2>1 DEF LeavingPage
    <3>1. task[r].alone
      BY <1>1 DEF Owned, PageOwns
    <3>2. PICK s \in Slot : Busy(s) /\ going = s
      BY <3>1, <1>1 DEF Signins, LeavingPage
    <3>3. QED
      BY <3>1, <3>2, <1>1, <1>8 DEF Owned, Solitude
  <2>4. QED
    BY <1>7, <2>2, <2>3 DEF Signins
<1>9. CASE going = r
  <2>1. page' = LoginPage(a)
    BY <1>1, <1>9 DEF Arrive
  <2>2. page'.at = "login" /\ page'.app = a
    BY <2>1 DEF LoginPage
  <2>3. LoginsUnsigned'
    BY <2>2, <1>3, <1>4, <1>6 DEF Signins, LoginsUnsigned, Unsigned
  <2>4. LeavingPage'
    BY <2>2 DEF LeavingPage
  <2>5. QED
    BY <1>7, <2>3, <2>4 DEF Signins
<1>10. QED
  BY <1>8, <1>9

\* A logout ends the session for every program, and leaves none of its own tokens.
LEMMA LogoutSignins ==
  ASSUME Typed, Owned, Signins, NEW r \in Slot, Logout(r)
  PROVE  Signins'
<1> DEFINE a == am.app
           b == task[r].app
           asked == a = b /\ task[r].mine
           out(S) == IF asked THEN [Stray(S) EXCEPT ![a] = "none"] ELSE Stray(S \cup {a, b})
<1>1. /\ Busy(r) /\ task[r].kind = "logout" /\ task[r].at = "act"
      /\ ToLogin(r) /\ going' = r /\ UNCHANGED <<page, mixed>>
      /\ tokens' = [tokens EXCEPT ![a] = {}]
  BY DEF Logout
<1>2. \/ ~session /\ login' = out({}) /\ session' = session
      \/ session' = FALSE /\ login' = out(App)
      \/ login' = Stray({a, b}) /\ session' = session
  BY DEF Logout
<1>3. a \in App /\ b \in App
  <2>1. am # None
    BY <1>1 DEF Typed, TypeOK
  <2>2. QED
    BY <2>1, <1>1, BusyTask DEF Typed, TypeOK, Auth, Task
<1>4. \A S : /\ out(S) \in [App -> {"none", "strayed"} \cup Provider]
             /\ \A x \in App : /\ out(S)[x] \in {login[x], "strayed", "none"}
                               /\ x # a => out(S)[x] \in {login[x], "strayed"}
                               /\ x # a /\ x \in S => out(S)[x] = "strayed"
             /\ out(S)[a] \in {"none", "strayed"}
  <2>1. ASSUME NEW S, asked
        PROVE  /\ out(S) \in [App -> {"none", "strayed"} \cup Provider]
               /\ \A x \in App : /\ out(S)[x] \in {login[x], "strayed", "none"}
                                 /\ x # a => out(S)[x] \in {login[x], "strayed"}
                                 /\ x # a /\ x \in S => out(S)[x] = "strayed"
               /\ out(S)[a] \in {"none", "strayed"}
    <3> DEFINE f == Stray(S)
    <3>1. f \in [App -> Provider \cup {"none", "strayed"}]
      BY Strayed
    <3>2. \A x \in App : f[x] \in {login[x], "strayed"} /\ (x \in S => f[x] = "strayed")
      BY DEF Stray
    <3>3. out(S) = [f EXCEPT ![a] = "none"]
      BY <2>1
    <3> HIDE DEF f, out
    <3>4. QED
      BY <1>3, <3>1, <3>2, <3>3
  <2>2. ASSUME NEW S, ~asked
        PROVE  /\ out(S) \in [App -> {"none", "strayed"} \cup Provider]
               /\ \A x \in App : /\ out(S)[x] \in {login[x], "strayed", "none"}
                                 /\ x # a => out(S)[x] \in {login[x], "strayed"}
                                 /\ x # a /\ x \in S => out(S)[x] = "strayed"
               /\ out(S)[a] \in {"none", "strayed"}
    <3> DEFINE f == Stray(S \cup {a, b})
    <3>1. f \in [App -> Provider \cup {"none", "strayed"}]
      BY Strayed
    <3>2. /\ \A x \in App : f[x] \in {login[x], "strayed"} /\ (x \in S => f[x] = "strayed")
          /\ f[a] = "strayed"
      BY <1>3 DEF Stray
    <3>3. out(S) = f
      BY <2>2
    <3> HIDE DEF f, out
    <3>4. QED
      BY <1>3, <3>1, <3>2, <3>3
  <2>3. QED
    BY <2>1, <2>2
<1>5. \A x \in App : Stray({a, b})[x] \in {login[x], "strayed"}
  BY DEF Stray
<1>6. Stray({a, b})[a] = "strayed"
  BY <1>3 DEF Stray
<1> HIDE DEF out
<1>7. \A x \in App : login'[x] \in {login[x], "strayed", "none"}
  BY <1>2, <1>4, <1>5
<1>8. login'[a] \in {"none", "strayed"} /\ (session' => login'[a] = "strayed")
  BY <1>2, <1>4, <1>6
<1>9. \A x \in App \ {a} : login'[x] = "strayed" \/ (login'[x] = login[x] /\ session' = session)
  BY <1>2, <1>4, <1>5
<1>10. TokensOfLogin'
  <2>1. tokens'[a] = {} /\ \A x \in App \ {a} : tokens'[x] = tokens[x]
    BY <1>1, <1>3 DEF Typed, TypeOK
  <2>2. QED
    BY <2>1, <1>8, <1>9 DEF Signins, TokensOfLogin
<1>11. /\ task'[r] \in Task /\ task'[r].kind = "login"
       /\ task'[r].app = b /\ task'[r].alone = task[r].alone
       /\ \A s \in Slot \ {r} : task'[s] = task[s]
  BY <1>1, ToLoginTask DEF Typed
<1>12. Busy(r)' /\ \A s \in Slot \ {r} : Busy(s)' => Busy(s) /\ task'[s] = task[s] /\ task[s].app \in App
  BY <1>11, Identities, BusyTask DEF Typed, Busy, Task
<1>13. task[r].alone => login'[b] \in {"none", "strayed"}
  <2>1. task[r].alone => a = b
    BY <1>1 DEF Owned, Undisturbed
  <2>2. QED
    BY <2>1, <1>8 DEF Unsigned
<1>14. LoginsUnsigned'
  BY <1>1, <1>7, <1>11, <1>12, <1>13, PageOfProgram DEF Signins, LoginsUnsigned, Unsigned
<1>15. LeavingPage'
  BY <1>1, <1>11, <1>12 DEF LeavingPage
<1>16. QED
  BY <1>10, <1>14, <1>15 DEF Signins

\* The provider redirects.
LEMMA RedirectSignins ==
  ASSUME Typed, Owned, Signins, NEW r \in Slot, Redirect(r)
  PROVE  Signins'
<1>1. Busy(r) /\ task[r].kind = "oidc" /\ task[r].at = "act" /\ UNCHANGED <<tokens, session>>
  BY DEF Redirect
<1>2. amApp \in App
  BY <1>1 DEF Typed, Prepared, TypeOK
<1>3. CASE am.adapters
  <2>1. /\ page' = [at |-> "provider", app |-> amApp] /\ task' = [s \in Slot |-> Idle]
        /\ login' = IF amApp = task[r].app THEN login ELSE Stray({amApp})
    BY <1>3 DEF Redirect
  <2>2. login'[amApp] \in {"none", "strayed"}
    <3>1. CASE amApp = task[r].app
      <4>1. Unsigned(amApp) /\ login' = login
        BY <1>1, <2>1, <3>1 DEF Signins, LoginsUnsigned
      <4>2. QED
        BY <2>1, <4>1, <3>1 DEF Unsigned
    <3>2. CASE amApp # task[r].app
      BY <1>2, <2>1, <3>2 DEF Stray, Unsigned
    <3>3. QED
      BY <3>1, <3>2
  <2>3. \A x \in App : login'[x] \in {login[x], "strayed"}
    BY <2>1 DEF Stray
  <2>4. TokensOfLogin'
    BY <1>1, <2>3 DEF Signins, TokensOfLogin
  <2>5. \A s \in Slot : ~Busy(s)'
    BY <2>1 DEF Busy
  <2>6. LoginsUnsigned' /\ LeavingPage'
    BY <2>1, <2>2, <2>5 DEF LoginsUnsigned, LeavingPage, Unsigned
  <2>7. QED
    BY <2>4, <2>6 DEF Signins
<1>4. CASE ~am.adapters
  <2>1. Finish(r) /\ UNCHANGED <<page, going, mixed, login>>
    BY <1>4 DEF Redirect
  <2>2. task'[r] = Idle /\ \A s \in Slot \ {r} : task'[s] = task[s]
    BY <2>1, FinishTask DEF Typed
  <2>3. ~Busy(r)' /\ UNCHANGED authVars
    BY <1>1, <2>1, <2>2 DEF Busy, authVars
  <2>4. QED
    BY <1>1, <2>1, <2>2, <2>3, KeptSignins
<1>5. QED
  BY <1>3, <1>4

\* A token comes only to a program nobody is signed in to, and one from the provider
\* ends what is known of the others.
LEMMA LoadedSignins ==
  ASSUME Typed, Owned, Signins, NEW r \in Slot, Answer(r) \/ Callback(r) \/ Reload(r)
  PROVE  Signins'
<1>0. /\ tokens \in [App -> SUBSET Provider] /\ login \in [App -> Provider \cup {"none", "strayed"}]
  BY DEF Typed, TypeOK
<1>1. CASE Answer(r)
  <2> DEFINE a == task[r].of
  <2>1. Busy(r) /\ task[r].at = "answer" /\ task[r] \in Task
    BY <1>1, BusyTask DEF Answer, Typed
  <2>2. task[r].kind = "default" /\ a # None /\ amApp # None
    BY <2>1 DEF Typed, Prepared
  <2>3. a \in App /\ amApp \in App /\ Unsigned(task[r].app)
    BY <2>1, <2>2 DEF Task, Typed, TypeOK, Signins, LoginsUnsigned
  <2>4. /\ tokens' = [tokens EXCEPT ![a] = @ \cup {"default"}]
        /\ login' = IF a = task[r].app THEN Signed(a, "default") ELSE Stray({a})
        /\ Load(r, New("open", amApp)) /\ session' = session
    BY <1>1 DEF Answer
  <2>5. /\ tokens'[a] = tokens[a] \cup {"default"}
        /\ \A x \in App \ {a} : tokens'[x] = tokens[x]
    BY <1>0, <2>3, <2>4
  <2>6. /\ \/ login'[a] = "strayed"
           \/ login'[a] = "default" /\ login[a] = "none"
        /\ \A x \in App \ {a} : login'[x] = login[x]
    <3>1. CASE a = task[r].app
      BY <1>0, <2>3, <2>4, <3>1 DEF Signed, Unsigned
    <3>2. CASE a # task[r].app
      BY <2>3, <2>4, <3>2 DEF Stray
    <3>3. QED
      BY <3>1, <3>2
  <2>7. TokensOfLogin'
    <3>1. login[a] = "none" => tokens[a] = {}
      BY <2>3 DEF Signins, TokensOfLogin
    <3>2. QED
      BY <2>4, <2>5, <2>6, <3>1 DEF Signins, TokensOfLogin
  <2>8. New("open", amApp) \in Task /\ New("open", amApp).kind = "open"
    BY <2>3, NewTask DEF Kind
  <2>9. QED
    BY <2>4, <2>7, <2>8, LoadSignins
<1>2. CASE Callback(r)
  <2> DEFINE a == page.app
  <2>1. page.at = "provider" /\ a \in App /\ Load(r, New("open", a)) /\ session' = TRUE
    BY <1>2, PageOfProgram DEF Callback
  <2>2. \/ /\ tokens' = [tokens EXCEPT ![a] = @ \cup {"oidc"}]
           /\ login' = [Stray(App) EXCEPT ![a] = Signed(a, "oidc")[a]]
        \/ login' = Stray(App)
    BY <1>2 DEF Callback
  <2>3. Unsigned(a)
    BY <2>1 DEF Signins, LoginsUnsigned
  <2>4. Signed(a, "oidc")[a] = IF login[a] = "strayed" THEN "strayed" ELSE "oidc"
    BY <1>0, <2>1 DEF Signed
  <2>5. Stray(App) = [x \in App |-> "strayed"]
    BY DEF Stray
  <2>6. TokensOfLogin'
    <3>1. CASE login' = Stray(App)
      BY <2>5, <3>1 DEF TokensOfLogin
    <3>2. CASE /\ tokens' = [tokens EXCEPT ![a] = @ \cup {"oidc"}]
               /\ login' = [Stray(App) EXCEPT ![a] = Signed(a, "oidc")[a]]
      <4>1. tokens'[a] = tokens[a] \cup {"oidc"}
        BY <1>0, <2>1, <3>2
      <4>2. \A x \in App \ {a} : login'[x] = "strayed"
        BY <2>1, <2>5, <3>2
      <4>3. login'[a] = IF login[a] = "strayed" THEN "strayed" ELSE "oidc"
        BY <2>1, <2>4, <2>5, <3>2
      <4>4. login[a] # "strayed" => tokens[a] = {}
        BY <2>1, <2>3 DEF Unsigned, Signins, TokensOfLogin
      <4>5. QED
        BY <2>1, <4>1, <4>2, <4>3, <4>4 DEF TokensOfLogin
    <3>3. QED
      BY <2>2, <3>1, <3>2
  <2>7. New("open", a) \in Task /\ New("open", a).kind = "open"
    BY <2>1, NewTask DEF Kind
  <2>8. QED
    BY <2>1, <2>6, <2>7, LoadSignins
<1>3. CASE Reload(r)
  <2>1. UNCHANGED <<tokens, session, login>>
    BY <1>3 DEF Reload, authVars
  <2>2. TokensOfLogin'
    BY <2>1 DEF Signins, TokensOfLogin
  <2>3. \E t \in Task : /\ Load(r, t)
                        /\ t.kind \in {"stats", "open"} \/ (t.kind = "login" /\ login'[t.app] \in {"none", "strayed"})
    <3>1. CASE \E a \in App : Load(r, Stats(a))
      BY <3>1, StatsTask
    <3>2. CASE page.at = "view" /\ Load(r, New("open", page.app))
      BY <3>2, NewTask, PageOfProgram DEF Kind
    <3>3. CASE page.at = "login" /\ Load(r, New("login", page.app))
      <4>1. page.app \in App /\ login[page.app] \in {"none", "strayed"}
        BY <3>3, PageOfProgram DEF Signins, LoginsUnsigned, Unsigned
      <4>2. New("login", page.app) \in Task /\ New("login", page.app).kind = "login"
            /\ New("login", page.app).app = page.app
        BY <4>1, NewTask DEF Kind
      <4>3. QED
        BY <2>1, <3>3, <4>1, <4>2
    <3>4. QED
      BY <1>3, <3>1, <3>2, <3>3 DEF Reload
  <2>4. QED
    BY <2>2, <2>3, LoadSignins DEF Unsigned
<1>4. QED
  BY <1>1, <1>2, <1>3

\* Every step keeps tokens and sessions with their programs.
LEMMA NextSignins == Typed /\ Owned /\ Signins /\ [Next]_vars => Signins'
<1> SUFFICES ASSUME Typed, Owned, Signins, [Next]_vars PROVE Signins'
  OBVIOUS
<1>1. ASSUME NEW r \in Slot,
             Hit(r) \/ Miss(r) \/ Build(r) \/ Close(r) \/ Post(r) \/ Deny(r) PROVE Signins'
  BY <1>1, WorkSignins
<1>2. ASSUME NEW r \in Slot, GoHome(r) \/ Import(r) \/ Open(r) \/ AskLogout(r) \/ Refused(r) \/ Login(r)
      PROVE  Signins'
  BY <1>2, BegunSignins
<1>3. ASSUME NEW r \in Slot, Show(r) \/ ShowLogin(r) \/ Logout(r) \/ Redirect(r) PROVE Signins'
  BY <1>3, ShowSignins, ShowLoginSignins, LogoutSignins, RedirectSignins
<1>4. ASSUME NEW r \in Slot, Answer(r) \/ Callback(r) \/ Reload(r) PROVE Signins'
  BY <1>4, LoadedSignins
<1>5. CASE StartSync \/ Done \/ UNCHANGED vars
  <2>1. UNCHANGED <<pageVars, authVars, mixed>>
    BY <1>5 DEF StartSync, Done, vars
  <2>2. QED
    BY <2>1 DEF pageVars, authVars, Signins, TokensOfLogin, LoginsUnsigned, LeavingPage, Unsigned, Busy
<1>6. QED
  BY <1>1, <1>2, <1>3, <1>4, <1>5 DEF Next

-----------------------------------------------------------------------------
\* The inductive invariant holds always.
LEMMA Always == Spec => []IInv
<1>1. Init => Typed /\ Owned /\ Signins
  BY InitTyped, InitOwned, InitSignins
<1>2. Typed /\ Owned /\ Signins /\ [Next]_vars => (Typed /\ Owned /\ Signins)'
  BY NextTyped, NextOwned, NextSignins
<1>3. Typed /\ Owned /\ Signins => IInv
  BY DEF IInv, Owned, Signins
<1>4. QED
  BY <1>1, <1>2, <1>3, PTL DEF Spec

\* The variables stay what they are: every cached manager is of its program, an open
\* page has a store, and no two syncs share a manager.
THEOREM Typing == Spec => []TypeOK
  BY Always, PTL DEF IInv, Typed

\* However many page loads, logins, statistics and syncs overlap: a form filled in
\* on a page that no other task ran beside goes to the database of its program.
THEOREM FormsStay == Spec => []FormsKnown
<1>1. IInv => FormsKnown
  <2> SUFFICES ASSUME IInv, page.at = "view", ~mixed PROVE store.app = page.app
    BY DEF FormsKnown, Target
  <2>1. cache[page.app] # None /\ store = cache[page.app] /\ page.app \in App
    BY PageOfProgram DEF IInv, PageOwns
  <2>2. QED
    BY <2>1 DEF IInv, Typed, TypeOK
<1>2. QED
  BY <1>1, Always, PTL

\* Two syncs of one database run at once only if one started on a mixed page or had
\* its store closed under it.
THEOREM SyncsApart == Spec => []SyncsKnown
<1>1. IInv => SyncsKnown
  BY DEF IInv, Typed, TypeOK, SyncsCached, SyncsKnown
<1>2. QED
  BY <1>1, Always, PTL

\* A signed-in program sends the token of its login, and its page means that somebody
\* is signed in, until a failure or another program's doing comes in between.
THEOREM TokensStay == Spec => []TokenKnown
<1>1. IInv => TokenKnown
  <2> SUFFICES ASSUME IInv, NEW a \in App, login[a] # "strayed"
               PROVE  /\ login[a] # "none" => /\ Token(a) = login[a]
                                              /\ Authenticated([app |-> a, adapters |-> TRUE])
                      /\ page = View(a) /\ ~mixed /\ (\A r \in Slot : ~Busy(r)) => login[a] # "none"
    BY DEF TokenKnown
  <2>1. ASSUME login[a] # "none"
        PROVE  Token(a) = login[a] /\ Authenticated([app |-> a, adapters |-> TRUE])
    <3>1. login[a] \in {"default", "oidc"} /\ tokens[a] = {login[a]} /\ (login[a] = "oidc" => session)
      BY <2>1 DEF IInv, Typed, TypeOK, Provider, TokensOfLogin
    <3>2. Token(a) = login[a]
      BY <3>1 DEF Token
    <3>3. Authenticated([app |-> a, adapters |-> TRUE])
      BY <3>1 DEF Authenticated
    <3>4. QED
      BY <3>2, <3>3
  <2>2. ASSUME page = View(a), ~mixed, \A r \in Slot : ~Busy(r) PROVE login[a] # "none"
    <3>1. page.at = "view" /\ page.app = a
      BY <2>2 DEF View
    <3>2. QED
      BY <2>2, <3>1 DEF IInv, LeavingPage
  <2>3. QED
    BY <2>1, <2>2
<1>2. QED
  BY <1>1, Always, PTL
=============================================================================

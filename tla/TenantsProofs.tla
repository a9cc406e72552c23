--------------------------- MODULE TenantsProofs ---------------------------
(***************************************************************************)
(* Proofs about the collection programs of the server, for any programs,   *)
(* requests and bounds, in four layers: what the variables are; where the  *)
(* one request that may change a program stands, and what its instance     *)
(* then is; its files; its edits.                                          *)
(***************************************************************************)
EXTENDS Tenants, FiniteSetTheorems, TLAPS

-----------------------------------------------------------------------------
(* The inductive invariant, first layer: what TypeOK leaves out.           *)

At == {"idle", "boot", "install", "load", "store", "publish", "write", "page", "save", "swap",
       "drop", "clear", "forget", "unlink"}

Request == [kind : Admin \cup {"none", "push", "get"}, at : At, tenant : Tenant \cup {Nobody},
            form : Config \cup {NoConfig}, got : Instance \cup {NoInstance}, event : 0 .. MaxPushes]

Shape ==
    /\ rows \in [Tenant -> SUBSET (0 .. MaxPushes)] /\ acked \in [Tenant -> SUBSET (0 .. MaxPushes)]
    /\ kept \in [Tenant -> SUBSET Upload]
    /\ made \in [Upload -> Tenant \cup {Nobody}]
    /\ req \in [Req -> Request]

\* A request that is not idle is for a program; a page is for an edit, and what
\* a request has got is what it needs next.
Formed ==
    \A r \in Req :
        /\ req[r].at # "idle" => req[r].tenant \in Tenant /\ req[r].kind # "none"
        /\ req[r].at \in {"page", "save", "swap"} => req[r].kind = "put"
        /\ req[r].at \in {"drop", "clear", "forget", "unlink"} => req[r].kind = "delete"
        /\ req[r].at \in {"boot", "install", "publish"} => req[r].kind \in {"post", "put"}
        /\ req[r].at = "load" => req[r].kind = "post"
        /\ req[r].at = "store" => req[r].kind \in {"post", "push"}
        /\ req[r].at = "write" => req[r].kind \in {"post", "put", "get"}
        /\ req[r].event <= pushes
        /\ (req[r].event = 0) = (req[r].kind # "push")

\* The edits of a config have been made, and its artifact id is its program's.
Genuine(c, t) == c # NoConfig => c.edits \subseteq 1 .. uploads /\ made[c.artifactId] = t

Genuineness ==
    /\ \A t \in Tenant : Genuine(config[t], t)
    /\ \A r \in Req : req[r].at # "idle" => Genuine(req[r].form, req[r].tenant)
    /\ \A a \in Upload : made[a] # Nobody => a <= uploads

Typed == TypeOK /\ Shape /\ Formed /\ Genuineness

-----------------------------------------------------------------------------
(* Second layer: the requests for a program that is not torn.              *)

Served(r, t) == Working(r) /\ req[r].tenant = t
Changing(r, t) == Served(r, t) /\ req[r].kind \in Admin
Resting(t) == \A r \in Req : ~Changing(r, t)

\* One that changes it is alone with it.
Apart(t) == \A q, r \in Req : Changing(r, t) /\ Served(q, t) => q = r

\* The instance is there and open, of this config.
Running(t) == instances[t] # NoInstance /\ instances[t].id \notin closed[t]
Serves(t) == config[t] # NoConfig /\ Running(t) /\ instances[t].edits = config[t].edits
Emptied(t) == rows[t] = {} \/ t \in frayed
Settled(t) ==
    IF config[t] = NoConfig THEN instances[t] = NoInstance /\ Emptied(t) ELSE Serves(t)

\* How far the request has come with it.
Stage(r, t) ==
    CASE req[r].at = "boot" -> config[t] # NoConfig
      [] req[r].at = "install" -> /\ config[t] # NoConfig /\ req[r].got.edits = config[t].edits
                                  /\ req[r].got.id \notin closed[t]
      [] req[r].at = "store" -> Serves(t) /\ req[r].got.id \notin closed[t]
      [] req[r].at \in {"load", "publish", "write", "save"} -> Serves(t)
      [] req[r].at = "swap" -> config[t] # NoConfig /\ Running(t)
      [] req[r].at = "drop" -> Settled(t)
      [] req[r].at = "clear" -> /\ config[t] = NoConfig
                                /\ IF instances[t] = NoInstance THEN Emptied(t) ELSE Running(t)
      [] req[r].at = "forget" -> config[t] = NoConfig /\ Emptied(t)
      [] req[r].at = "unlink" -> config[t] = NoConfig /\ instances[t] = NoInstance /\ Emptied(t)
      [] OTHER -> FALSE

Staged(t) ==
    /\ Resting(t) => Settled(t)
    /\ \A r \in Req : Served(r, t) => Stage(r, t)

Tidy == \A t \in Tenant \ torn : Apart(t) /\ Staged(t)

-----------------------------------------------------------------------------
(* Third layer: the files of a program that was never frayed.              *)

\* All its files but that of the artifact id b are gone.
Gone(t, b) == \A a \in Upload : made[a] = t /\ a \notin replaced /\ a # b => files[a] = NoConfig

\* All are gone, but that of its config.
Published(t) ==
    \A a \in Upload : made[a] = t /\ a \notin replaced =>
        files[a] = IF config[t] # NoConfig /\ config[t].artifactId = a THEN config[t] ELSE NoConfig

Publishing(r, t) ==
    /\ req[r].at \in {"boot", "install", "load", "store", "publish", "write", "swap"}
       /\ req[r].kind \in Admin => Gone(t, config[t].artifactId)
    /\ req[r].at = "write" => req[r].form = config[t]
    /\ req[r].at = "save" => Published(t) /\ req[r].form.artifactId = config[t].artifactId
    /\ req[r].at = "drop" => Published(t) /\ req[r].form = config[t]
    /\ req[r].at \in {"clear", "forget", "unlink"} =>
          Gone(t, IF req[r].form = NoConfig THEN 0 ELSE req[r].form.artifactId)

Filed(t) ==
    /\ Resting(t) => Published(t)
    /\ \A r \in Req : Served(r, t) => Publishing(r, t)

Clean == \A t \in Tenant \ frayed : Filed(t) /\ acked[t] \subseteq rows[t]

-----------------------------------------------------------------------------
(* Fourth layer: the edits of a program that no two editors met on.        *)

Editing(r, t) == req[r].tenant = t /\ req[r].kind \in Admin

Edits(t) ==
    /\ \A q, r \in Req : Editing(q, t) /\ Editing(r, t) => q = r
    /\ config[t] # NoConfig => kept[t] \subseteq config[t].edits
    /\ \A r \in Req : Editing(r, t) =>
          /\ req[r].at \in {"page", "save"} => kept[t] \subseteq req[r].form.edits
          /\ req[r].at = "write" /\ config[t] # NoConfig => req[r].form.edits \subseteq config[t].edits

Unlost == \A t \in Tenant \ clashed : Edits(t)

IInv == Typed /\ Tidy /\ Clean /\ Unlost

-----------------------------------------------------------------------------
(* What the first layer says of one request, and of the rest.              *)

Sound(x, made_, uploads_, pushes_) ==
    /\ x \in Request
    /\ (x.at = "idle") = (x = Idle)
    /\ x.at \in {"write", "page", "save"} => x.form # NoConfig
    /\ x.at \in {"install", "store"} => x.got # NoInstance
    /\ x.at # "idle" => x.tenant \in Tenant /\ x.kind # "none"
    /\ x.at \in {"page", "save", "swap"} => x.kind = "put"
    /\ x.at \in {"drop", "clear", "forget", "unlink"} => x.kind = "delete"
    /\ x.at \in {"boot", "install", "publish"} => x.kind \in {"post", "put"}
    /\ x.at = "load" => x.kind = "post"
    /\ x.at = "store" => x.kind \in {"post", "push"}
    /\ x.at = "write" => x.kind \in {"post", "put", "get"}
    /\ x.event <= pushes_
    /\ (x.event = 0) = (x.kind # "push")
    /\ x.at # "idle" /\ x.form # NoConfig =>
          x.form.edits \subseteq 1 .. uploads_ /\ made_[x.form.artifactId] = x.tenant

Sorted ==
    /\ config \in [Tenant -> Config \cup {NoConfig}]
    /\ instances \in [Tenant -> Instance \cup {NoInstance}]
    /\ closed \in [Tenant -> SUBSET Id]
    /\ rows \in [Tenant -> SUBSET (0 .. pushes)] /\ acked \in [Tenant -> SUBSET (0 .. pushes)]
    /\ kept \in [Tenant -> SUBSET (1 .. uploads)]
    /\ files \in [Upload -> Config \cup {NoConfig}]
    /\ uploads \in 0 .. MaxUploads /\ pushes \in 0 .. MaxPushes /\ faults \in 0 .. MaxFaults
    /\ torn \subseteq frayed /\ frayed \subseteq Tenant /\ clashed \subseteq Tenant
    /\ made \in [Upload -> Tenant \cup {Nobody}]
    /\ \A t \in Tenant : Genuine(config[t], t)
    /\ \A a \in Upload : made[a] # Nobody => a <= uploads

Sounds == req \in [Req -> Request] /\ \A r \in Req : Sound(req[r], made, uploads, pushes)

\* The two say what the first layer says.
LEMMA TypedIsSorted == Typed => Sorted /\ Sounds
<1> SUFFICES ASSUME Typed PROVE Sorted /\ Sounds
  OBVIOUS
<1>1. TypeOK /\ Shape /\ Formed /\ Genuineness
  BY DEF Typed
<1>2. uploads \in 0 .. MaxUploads /\ pushes \in 0 .. MaxPushes
  BY <1>1 DEF TypeOK
<1>3. rows \in [Tenant -> SUBSET (0 .. pushes)] /\ acked \in [Tenant -> SUBSET (0 .. pushes)]
  BY <1>1, <1>2 DEF TypeOK, Shape
<1>4. kept \in [Tenant -> SUBSET (1 .. uploads)]
  BY <1>1, <1>2 DEF TypeOK, Shape
<1>5. Sorted
  BY <1>1, <1>2, <1>3, <1>4 DEF TypeOK, Shape, Genuineness, Sorted
<1>6. Sounds
  <2>1. SUFFICES ASSUME NEW r \in Req PROVE Sound(req[r], made, uploads, pushes)
    BY <1>1 DEF Sounds, Shape
  <2>2. req[r].at # "idle" /\ req[r].form # NoConfig =>
            req[r].form.edits \subseteq 1 .. uploads /\ made[req[r].form.artifactId] = req[r].tenant
    BY <1>1 DEF Genuineness, Genuine
  <2>3. req[r] \in Request
    BY <1>1 DEF Shape
  <2>4. QED
    BY <1>1, <2>2, <2>3 DEF TypeOK, Formed, Sound
<1>7. QED
  BY <1>5, <1>6

\* and together they are Typed.
LEMMA SortedIsTyped == Sorted /\ Sounds => Typed
<1> SUFFICES ASSUME Sorted, Sounds PROVE Typed
  OBVIOUS
<1>1. uploads \in 0 .. MaxUploads /\ pushes \in 0 .. MaxPushes
  BY DEF Sorted
<1>2. Genuineness
  <2>1. ASSUME NEW r \in Req, req[r].at # "idle" PROVE Genuine(req[r].form, req[r].tenant)
    BY <2>1 DEF Sounds, Sound, Genuine
  <2>2. QED
    BY <2>1 DEF Sorted, Genuineness
<1>3. Formed
  BY DEF Sounds, Sound, Formed
<1>4. Shape
  <2>1. 0 .. pushes \subseteq 0 .. MaxPushes /\ 1 .. uploads \subseteq Upload
    BY <1>1, Sizes DEF Upload
  <2>2. rows \in [Tenant -> SUBSET (0 .. MaxPushes)] /\ acked \in [Tenant -> SUBSET (0 .. MaxPushes)]
    BY <2>1 DEF Sorted
  <2>3. kept \in [Tenant -> SUBSET Upload]
    BY <2>1 DEF Sorted
  <2>4. QED
    BY <2>2, <2>3 DEF Sorted, Sounds, Shape
<1>5. TypeOK
  <2>1. ASSUME NEW t \in Tenant, NEW u \in Tenant, t # u, NoConfig \notin {config[t], config[u]}
        PROVE  config[t].artifactId # config[u].artifactId
    BY <2>1 DEF Sorted, Genuine
  <2>2. \A t \in Tenant : rows[t] \subseteq 0 .. pushes /\ acked[t] \subseteq 0 .. pushes
                          /\ kept[t] \subseteq 1 .. uploads
    BY DEF Sorted
  <2>3. ASSUME NEW r \in Req
        PROVE  /\ req[r].tenant \in Tenant \cup {Nobody}
               /\ req[r].form \in Config \cup {NoConfig} /\ req[r].got \in Instance \cup {NoInstance}
               /\ (req[r].at = "idle") = (req[r] = Idle)
               /\ req[r].at \in {"write", "page", "save"} => req[r].form # NoConfig
               /\ req[r].at \in {"install", "store"} => req[r].got # NoInstance
    <3>1. Sound(req[r], made, uploads, pushes)
      BY DEF Sounds
    <3>2. req[r] \in Request
      BY <3>1 DEF Sound
    <3>3. req[r].tenant \in Tenant \cup {Nobody}
          /\ req[r].form \in Config \cup {NoConfig} /\ req[r].got \in Instance \cup {NoInstance}
      BY <3>2 DEF Request
    <3>4. QED
      BY <3>1, <3>3 DEF Sound
  <2>4. QED
    BY <2>1, <2>2, <2>3 DEF Sorted, TypeOK
<1>6. QED
  BY <1>2, <1>3, <1>4, <1>5 DEF Typed

\* A request that is not under way is sound.
LEMMA IdleSound ==
  ASSUME Sorted PROVE Sound(Idle, made, uploads, pushes)
<1>1. Idle \in Request
  BY Sizes DEF Idle, Request, Admin, At
<1>2. QED
  BY <1>1 DEF Idle, Sound, Sorted

-----------------------------------------------------------------------------
(* The first layer is inductive.                                           *)

\* A step that changes one request, and forgets no artifact id, keeps them sound.
LEMMA SoundsStep ==
  ASSUME Sorted, Sounds, NEW r \in Req, NEW y, req' = [req EXCEPT ![r] = y],
         Sound(y, made', uploads', pushes'),
         uploads' \in Nat, pushes' \in Nat, uploads <= uploads', pushes <= pushes',
         \A a \in Upload : made[a] # Nobody => made'[a] = made[a]
  PROVE  Sounds'
<1>1. req \in [Req -> Request] /\ \A q \in Req : Sound(req[q], made, uploads, pushes)
  BY DEF Sounds
<1>2. y \in Request
  BY DEF Sound
<1>3. req' \in [Req -> Request]
  BY <1>1, <1>2
<1>4. ASSUME NEW q \in Req, q # r PROVE Sound(req[q], made', uploads', pushes')
  <2>1. Sound(req[q], made, uploads, pushes) /\ req[q] \in Request
    BY <1>1
  <2>2. uploads \in Nat /\ pushes \in Nat /\ req[q].event \in Nat
    BY <2>1, Sizes DEF Sorted, Request
  <2>3. req[q].event <= pushes'
    <3>1. req[q].event <= pushes
      BY <2>1 DEF Sound
    <3>2. QED
      BY <3>1, <2>2
  <2>4. ASSUME req[q].at # "idle", req[q].form # NoConfig
        PROVE  req[q].form.edits \subseteq 1 .. uploads' /\ made'[req[q].form.artifactId] = req[q].tenant
    <3>1. req[q].form \in Config
      BY <2>1, <2>4 DEF Request
    <3>2. req[q].form.edits \subseteq 1 .. uploads /\ made[req[q].form.artifactId] = req[q].tenant
          /\ req[q].tenant \in Tenant
      BY <2>1, <2>4 DEF Sound
    <3>3. 1 .. uploads \subseteq 1 .. uploads'
      BY <2>2
    <3>4. req[q].form.artifactId \in Upload
      BY <3>1 DEF Config
    <3>5. QED
      BY <3>2, <3>3, <3>4, Values
  <2>5. QED
    BY <2>1, <2>3, <2>4 DEF Sound
<1>5. ASSUME NEW q \in Req PROVE Sound(req'[q], made', uploads', pushes')
  <2>1. CASE q = r
    BY <2>1, <1>1
  <2>2. CASE q # r
    BY <2>2, <1>1, <1>4
  <2>3. QED
    BY <2>1, <2>2
<1>6. QED
  BY <1>3, <1>5 DEF Sounds

\* The usual case: ids and bounds stay.
LEMMA SoundsStay ==
  ASSUME Sorted, Sounds, NEW r \in Req, NEW y, req' = [req EXCEPT ![r] = y],
         Sound(y, made, uploads, pushes), UNCHANGED <<made, uploads, pushes>>
  PROVE  Sounds'
<1>1. uploads \in Nat /\ pushes \in Nat
  BY Sizes DEF Sorted
<1>2. Sound(y, made', uploads', pushes')
  OBVIOUS
<1>3. uploads' \in Nat /\ pushes' \in Nat /\ uploads <= uploads' /\ pushes <= pushes'
  BY <1>1
<1>4. QED
  BY <1>2, <1>3, SoundsStep

\* The marks stay within the programs.
LEMMA MeetMarks ==
  ASSUME Sorted, NEW r \in Req, NEW kind, NEW t \in Tenant, Meet(r, kind, t)
  PROVE  /\ torn' \subseteq frayed' /\ frayed' \subseteq Tenant /\ clashed' \subseteq Tenant
         /\ torn' \in {torn, torn \cup {t}} /\ frayed' \in {frayed, frayed \cup {t}}
         /\ clashed' \in {clashed, clashed \cup {t}}
BY DEF Meet, Sorted

\* There is always a free number for a new instance.
LEMMA FreeId ==
  ASSUME Sounds, Sorted, NEW t \in Tenant
  PROVE  \E i \in Id : \A x \in ({instances[t]} \cup {req[q].got : q \in Req}) \ {NoInstance} : x.id # i
<1> DEFINE gots == {req[q].got : q \in Req}
           got == [q \in Req |-> req[q].got]
           used == ({instances[t]} \cup gots) \ {NoInstance}
           ids == {x.id : x \in used}
           id == [x \in used |-> x.id]
<1>1. IsFiniteSet(gots) /\ Cardinality(gots) <= Cardinality(Req)
  <2>1. got \in Surjection(Req, gots)
    BY DEF Surjection
  <2> HIDE DEF got, gots
  <2>2. QED
    BY <2>1, Sizes, FS_Surjection
<1> DEFINE all == gots \cup {instances[t]}
<1>2. IsFiniteSet(all) /\ Cardinality(all) <= Cardinality(gots) + 1
  <2> HIDE DEF gots
  <2>1. Cardinality(gots) \in Nat
    BY <1>1, FS_CardinalityType
  <2>2. IsFiniteSet(gots \cup {instances[t]})
    BY <1>1, FS_AddElement
  <2>3. Cardinality(gots \cup {instances[t]}) =
            IF instances[t] \in gots THEN Cardinality(gots) ELSE Cardinality(gots) + 1
    BY <1>1, FS_AddElement
  <2>4. QED
    BY <2>1, <2>2, <2>3
<1>3. IsFiniteSet(used) /\ Cardinality(used) <= Cardinality(all)
  <2>1. used \in SUBSET all
    OBVIOUS
  <2> HIDE DEF used, all
  <2>2. QED
    BY <1>2, <2>1, FS_Subset
<1>4. IsFiniteSet(ids) /\ Cardinality(ids) <= Cardinality(used)
  <2>1. id \in Surjection(used, ids)
    BY DEF Surjection
  <2> HIDE DEF id, used, ids
  <2>2. QED
    BY <2>1, <1>3, FS_Surjection
<1> HIDE DEF gots, all, used, ids
<1>5. /\ Cardinality(gots) \in Nat /\ Cardinality(all) \in Nat /\ Cardinality(used) \in Nat
      /\ Cardinality(ids) \in Nat /\ Cardinality(Req) \in Nat
  BY <1>1, <1>2, <1>3, <1>4, Sizes, FS_CardinalityType
<1>6. IsFiniteSet(Id) /\ Cardinality(Id) = Cardinality(Req) + 2
  <2> DEFINE n == Cardinality(Req) + 2
  <2>1. n \in Int /\ n > 1
    BY <1>5
  <2> HIDE DEF n
  <2>2. IsFiniteSet(1 .. n) /\ Cardinality(1 .. n) = IF 1 > n THEN 0 ELSE n - 1 + 1
    BY <2>1, FS_Interval
  <2>3. IsFiniteSet(1 .. n) /\ Cardinality(1 .. n) = n
    BY <2>1, <2>2
  <2>4. QED
    BY <2>3 DEF n, Id
<1>7. ~(Id \subseteq ids)
  <2>1. SUFFICES ASSUME Id \subseteq ids PROVE FALSE
    OBVIOUS
  <2>2. Cardinality(Id) <= Cardinality(ids)
    BY <2>1, <1>4, FS_Subset
  <2>3. QED
    BY <2>2, <1>1, <1>2, <1>3, <1>4, <1>5, <1>6
<1>8. PICK i \in Id : i \notin ids
  BY <1>7
<1>9. \A x \in used : x.id # i
  BY <1>8 DEF ids
<1>10. QED
  BY <1>9 DEF used, gots

\* The config of a new program.
LEMMA FormIs ==
  ASSUME uploads + 1 \in Upload, NEW form \in {Created(uploads + 1), Uploaded(uploads + 1)}
  PROVE  form \in Config /\ form.artifactId = uploads + 1 /\ form.edits = {uploads + 1}
<1> DEFINE n == uploads + 1
<1>1. n \in Upload /\ {n} \in SUBSET Upload
  OBVIOUS
<1> HIDE DEF n
<1>2. Created(n) \in Config /\ Created(n).artifactId = n /\ Created(n).edits = {n}
  BY <1>1 DEF Created, Config
<1>3. Uploaded(n) \in Config /\ Uploaded(n).artifactId = n /\ Uploaded(n).edits = {n}
  BY <1>1 DEF Created, Uploaded, Config
<1>4. QED
  BY <1>2, <1>3 DEF n

\* A POST that begins keeps the layer Typed,
LEMMA PostTyped ==
  ASSUME Sorted, Sounds, NEW r \in Req, NEW t \in Tenant,
         NEW form \in {Created(uploads + 1), Uploaded(uploads + 1)}, Post(r, t, form)
  PROVE  Sorted' /\ Sounds'
<1>1. /\ req[r] = Idle /\ uploads < MaxUploads /\ uploads' = uploads + 1
      /\ Begin(r, "post", "boot", t, NoConfig, NoInstance)
      /\ config' = [config EXCEPT ![t] = form] /\ made' = [made EXCEPT ![form.artifactId] = t]
      /\ kept' = [kept EXCEPT ![t] = {}] /\ Meet(r, "post", t)
      /\ UNCHANGED <<instances, closed, rows, files, pushes, faults, acked>>
  BY DEF Post
<1>2. uploads \in Nat /\ pushes \in 0 .. MaxPushes /\ uploads + 1 \in Upload /\ uploads' \in 0 .. MaxUploads
  BY <1>1, Sizes DEF Sorted, Upload
<1>3. form \in Config /\ form.artifactId = uploads + 1 /\ form.edits = {uploads + 1}
  BY <1>2, FormIs
<1>4. /\ config \in [Tenant -> Config \cup {NoConfig}] /\ made \in [Upload -> Tenant \cup {Nobody}]
      /\ kept \in [Tenant -> SUBSET (1 .. uploads)]
      /\ \A u \in Tenant : Genuine(config[u], u)
      /\ \A a \in Upload : made[a] # Nobody => a <= uploads
  BY DEF Sorted
<1>5. config' \in [Tenant -> Config \cup {NoConfig}] /\ made' \in [Upload -> Tenant \cup {Nobody}]
  BY <1>1, <1>2, <1>3, <1>4
<1>6. made[uploads + 1] = Nobody
  BY <1>2, <1>4
<1>7. \A a \in Upload : made[a] # Nobody => made'[a] = made[a]
  BY <1>1, <1>2, <1>3, <1>4, <1>6
<1>8. 1 .. uploads \subseteq 1 .. uploads' /\ uploads + 1 \in 1 .. uploads'
  BY <1>1, <1>2
<1>9. kept' \in [Tenant -> SUBSET (1 .. uploads')]
  BY <1>1, <1>4, <1>8
<1>10. ASSUME NEW u \in Tenant, config'[u] # NoConfig
       PROVE  config'[u].edits \subseteq 1 .. uploads' /\ made'[config'[u].artifactId] = u
  <2>1. CASE u = t
    BY <2>1, <1>1, <1>2, <1>3, <1>4, <1>8
  <2>2. CASE u # t
    <3>1. config'[u] = config[u] /\ config[u] \in Config
      BY <2>2, <1>1, <1>4, <1>10
    <3>2. config[u].edits \subseteq 1 .. uploads /\ made[config[u].artifactId] = u /\ config[u].artifactId \in Upload
      BY <3>1, <1>4, <1>10 DEF Genuine, Config
    <3>3. QED
      BY <3>1, <3>2, <1>7, <1>8, Values
  <2>3. QED
    BY <2>1, <2>2
<1>11. \A a \in Upload : made'[a] # Nobody => a <= uploads'
  <2>1. SUFFICES ASSUME NEW a \in Upload, made'[a] # Nobody PROVE a <= uploads'
    OBVIOUS
  <2>2. a = uploads + 1 \/ made'[a] = made[a]
    BY <1>1, <1>2, <1>3, <1>4
  <2>3. QED
    BY <2>1, <2>2, <1>1, <1>2, <1>4 DEF Upload
<1>12. Sorted'
  <2>1. torn' \subseteq frayed' /\ frayed' \subseteq Tenant /\ clashed' \subseteq Tenant
    BY <1>1, MeetMarks
  <2>2. \A u \in Tenant : Genuine(config[u], u)'
    BY <1>10 DEF Genuine
  <2>3. QED
    BY <2>1, <2>2, <1>1, <1>2, <1>5, <1>9, <1>11 DEF Sorted
<1> DEFINE y == [kind |-> "post", at |-> "boot", tenant |-> t, form |-> NoConfig, got |-> NoInstance, event |-> 0]
<1>13. req' = [req EXCEPT ![r] = y]
  BY <1>1 DEF Begin
<1>14. y \in Request
  BY Sizes DEF Request, Admin, At
<1>15. Sound(y, made', uploads', pushes')
  BY <1>14, <1>1, <1>2 DEF Sound, Idle
<1> HIDE DEF y
<1>16. uploads' \in Nat /\ pushes' \in Nat /\ uploads <= uploads' /\ pushes <= pushes'
  BY <1>1, <1>2
<1>17. QED
  BY <1>7, <1>12, <1>13, <1>15, <1>16, SoundsStep

\* as does every request that begins.
LEMMA BeginsTyped ==
  ASSUME Sorted, Sounds, NEW r \in Req, NEW t \in Tenant,
         OpenPage(r, t) \/ Find(r, t) \/ Push(r, t) \/ Fetch(r, t)
  PROVE  Sorted' /\ Sounds'
<1>1. /\ config \in [Tenant -> Config \cup {NoConfig}] /\ instances \in [Tenant -> Instance \cup {NoInstance}]
      /\ Genuine(config[t], t) /\ uploads \in Nat /\ pushes \in Nat /\ pushes \in 0 .. MaxPushes
  BY Sizes DEF Sorted
<1>2. CASE OpenPage(r, t) \/ Find(r, t) \/ Fetch(r, t)
  <2>1. Sorted'
    <3>1. torn' \subseteq frayed' /\ frayed' \subseteq Tenant /\ clashed' \subseteq Tenant
      <4>1. CASE OpenPage(r, t)
        BY <4>1 DEF OpenPage, Sorted
      <4>2. CASE Find(r, t)
        BY <4>2, MeetMarks DEF Find
      <4>3. CASE Fetch(r, t)
        BY <4>3, MeetMarks DEF Fetch
      <4>4. QED
        BY <4>1, <4>2, <4>3, <1>2
    <3>2. UNCHANGED <<serverVars, boundVars, made, kept, acked>>
      BY <1>2 DEF OpenPage, Find, Fetch
    <3>3. QED
      BY <3>1, <3>2 DEF Sorted, serverVars, boundVars, Genuine
  <2>2. ASSUME NEW kind \in {"put", "delete", "get"}, NEW at \in {"page", "drop", "write"},
               Begin(r, kind, at, t, config[t], NoInstance),
               at # "drop" => config[t] # NoConfig, at = "page" => kind = "put",
               at = "drop" => kind = "delete", at = "write" => kind = "get",
               UNCHANGED <<boundVars, made>>
        PROVE  Sounds'
    <3> DEFINE y == [kind |-> kind, at |-> at, tenant |-> t, form |-> config[t], got |-> NoInstance, event |-> 0]
    <3>1. req' = [req EXCEPT ![r] = y]
      BY <2>2 DEF Begin
    <3>2. y \in Request
      BY <1>1, Sizes DEF Request, Admin, At
    <3>3. Sound(y, made, uploads, pushes)
      BY <3>2, <2>2, <1>1 DEF Sound, Idle, Genuine
    <3> HIDE DEF y
    <3>4. QED
      BY <2>2, <3>1, <3>3, SoundsStay DEF boundVars
  <2>3. QED
    BY <2>1, <2>2, <1>2 DEF OpenPage, Find, Fetch
<1>3. CASE Push(r, t)
  <2>1. /\ pushes < MaxPushes /\ instances[t] # NoInstance /\ pushes' = pushes + 1
        /\ Begin(r, "push", "store", t, NoConfig, instances[t]) /\ Meet(r, "push", t)
        /\ UNCHANGED <<serverVars, uploads, faults, made, replaced, acked, kept>>
    BY <1>3 DEF Push
  <2>2. pushes + 1 \in 0 .. MaxPushes /\ 0 .. pushes \subseteq 0 .. pushes'
    BY <2>1, <1>1, Sizes
  <2>3. Sorted'
    <3>1. torn' \subseteq frayed' /\ frayed' \subseteq Tenant /\ clashed' \subseteq Tenant
      BY <2>1, MeetMarks
    <3>2. rows' \in [Tenant -> SUBSET (0 .. pushes')] /\ acked' \in [Tenant -> SUBSET (0 .. pushes')]
      BY <2>1, <2>2 DEF Sorted, serverVars
    <3>3. QED
      BY <3>1, <3>2, <2>1, <2>2 DEF Sorted, serverVars, Genuine
  <2> DEFINE y == [kind |-> "push", at |-> "store", tenant |-> t, form |-> NoConfig, got |-> instances[t],
                   event |-> pushes + 1]
  <2>4. req' = [req EXCEPT ![r] = y]
    BY <2>1 DEF Begin
  <2>5. y \in Request
    BY <2>2, <1>1 DEF Request, Admin, At
  <2>6. Sound(y, made', uploads', pushes')
    BY <2>5, <2>1, <2>2, <1>1 DEF Sound, Idle
  <2> HIDE DEF y
  <2>7. pushes' \in Nat /\ pushes <= pushes' /\ uploads' = uploads /\ uploads <= uploads' /\ made' = made
    BY <1>1, <2>1
  <2>8. QED
    BY <1>1, <2>3, <2>4, <2>6, <2>7, SoundsStep
<1>4. QED
  BY <1>2, <1>3

\* A request that goes on.
Moved(x, at, form, got) ==
    [kind |-> x.kind, at |-> at, tenant |-> x.tenant, form |-> form, got |-> got, event |-> x.event]

\* A request that moves on, and the requests it leaves alone.
LEMMA GoIs ==
  ASSUME Sounds, NEW r \in Req, NEW at
  PROVE  [req EXCEPT ![r].at = at] = [req EXCEPT ![r] = Moved(req[r], at, req[r].form, req[r].got)]
<1>1. req \in [Req -> Request] /\ req[r] \in Request
  BY DEF Sounds
<1> DEFINE m == Moved(req[r], at, req[r].form, req[r].got)
<1>2. [req[r] EXCEPT !.at = at] = m
  BY <1>1 DEF Moved, Request
<1>9. [req EXCEPT ![r].at = at] = [req EXCEPT ![r] = [req[r] EXCEPT !.at = at]]
  BY <1>1
<1>10. QED
  BY <1>2, <1>9

\* A request at such a place has what it needs there.
Suits(x, at, form, got) ==
    /\ at \in At \ {"idle"} /\ form \in Config \cup {NoConfig} /\ got \in Instance \cup {NoInstance}
    /\ form # NoConfig => form.edits \subseteq 1 .. uploads /\ made[form.artifactId] = x.tenant
    /\ at \in {"write", "page", "save"} => form # NoConfig
    /\ at \in {"install", "store"} => got # NoInstance
    /\ at \in {"page", "save", "swap"} => x.kind = "put"
    /\ at \in {"drop", "clear", "forget", "unlink"} => x.kind = "delete"
    /\ at \in {"boot", "install", "publish"} => x.kind \in {"post", "put"}
    /\ at = "load" => x.kind = "post"
    /\ at = "store" => x.kind \in {"post", "push"}
    /\ at = "write" => x.kind \in {"post", "put", "get"}

\* One that has moved on is sound.
LEMMA MovedSound ==
  ASSUME Sorted, Sounds, NEW r \in Req, req[r].at # "idle", NEW at, NEW form, NEW got,
         Suits(req[r], at, form, got),
         req' = [req EXCEPT ![r] = Moved(req[r], at, form, got)], UNCHANGED <<made, uploads, pushes>>
  PROVE  Sounds'
<1> DEFINE y == Moved(req[r], at, form, got)
<1>1. Sound(req[r], made, uploads, pushes) /\ req[r] \in Request
  BY DEF Sounds
<1>2. y \in Request
  BY <1>1 DEF Moved, Request, Suits
<1>3. y # Idle /\ at # "idle"
  BY DEF Moved, Idle, Suits
<1>4. /\ y.kind = req[r].kind /\ y.at = at /\ y.tenant = req[r].tenant /\ y.form = form /\ y.got = got
      /\ y.event = req[r].event
  BY DEF Moved
<1> HIDE DEF y
<1>5. Sound(y, made, uploads, pushes)
  BY <1>1, <1>2, <1>3, <1>4 DEF Sound, Suits
<1>6. req' = [req EXCEPT ![r] = y]
  BY DEF y
<1>7. QED
  BY <1>5, <1>6, SoundsStay

\* The end of a request keeps the layer Typed; likewise the following, each for its steps.
LEMMA FinishTyped ==
  ASSUME Sorted, Sounds, NEW r \in Req, Finish(r), UNCHANGED <<made, uploads, pushes>>
  PROVE  Sounds'
BY IdleSound, SoundsStay DEF Finish

\* A request breaks off.
LEMMA BreakTyped ==
  ASSUME Sorted, Sounds, NEW r \in Req, Break(r), req[r].at # "idle", UNCHANGED <<made, uploads, pushes>>
  PROVE  Sounds' /\ torn' \subseteq frayed' /\ frayed' \subseteq Tenant
<1>1. req[r].tenant \in Tenant
  BY DEF Sounds, Sound
<1>2. QED
  BY <1>1, FinishTyped DEF Break, Sorted

\* What is known of a request that goes on, and of its program.
LEMMA Known ==
  ASSUME Sorted, Sounds, NEW r \in Req, req[r].at # "idle"
  PROVE  /\ req[r] \in Request /\ req[r] # Idle /\ req[r].tenant \in Tenant /\ req[r].kind # "none"
         /\ req[r].form \in Config \cup {NoConfig} /\ req[r].got \in Instance \cup {NoInstance}
         /\ config[req[r].tenant] \in Config \cup {NoConfig}
         /\ instances[req[r].tenant] \in Instance \cup {NoInstance}
         /\ closed[req[r].tenant] \subseteq Id
         /\ req[r].form # NoConfig => req[r].form.edits \subseteq 1 .. uploads
                                      /\ made[req[r].form.artifactId] = req[r].tenant
         /\ config[req[r].tenant] # NoConfig => config[req[r].tenant].edits \subseteq 1 .. uploads
                                      /\ made[config[req[r].tenant].artifactId] = req[r].tenant
<1>1. Sound(req[r], made, uploads, pushes) /\ req[r] \in Request
  BY DEF Sounds
<1>2. req[r].tenant \in Tenant /\ req[r].kind # "none" /\ req[r] # Idle
  BY <1>1 DEF Sound
<1>3. req[r].form \in Config \cup {NoConfig} /\ req[r].got \in Instance \cup {NoInstance}
  BY <1>1 DEF Request
<1>4. req[r].form # NoConfig => req[r].form.edits \subseteq 1 .. uploads
                                /\ made[req[r].form.artifactId] = req[r].tenant
  BY <1>1 DEF Sound
<1>5. QED
  BY <1>1, <1>2, <1>3, <1>4 DEF Sorted, Genuine

\* The number a new instance gets.
FreeIdOf(t) == CHOOSE i \in Id : \A x \in ({instances[t]} \cup {req[q].got : q \in Req}) \ {NoInstance} : x.id # i

\* An id that no instance has is found.
LEMMA FreeIdIs ==
  ASSUME Sounds, Sorted, NEW t \in Tenant
  PROVE  /\ FreeIdOf(t) \in Id
         /\ instances[t] # NoInstance => instances[t].id # FreeIdOf(t)
         /\ \A q \in Req : req[q].got # NoInstance => req[q].got.id # FreeIdOf(t)
<1> DEFINE used == ({instances[t]} \cup {req[q].got : q \in Req}) \ {NoInstance}
<1>1. \E i \in Id : \A x \in used : x.id # i
  BY FreeId
<1>2. FreeIdOf(t) = CHOOSE i \in Id : \A x \in used : x.id # i
  BY DEF FreeIdOf
<1>3. /\ instances[t] # NoInstance => instances[t] \in used
      /\ \A q \in Req : req[q].got # NoInstance => req[q].got \in used
  OBVIOUS
<1> HIDE DEF used
<1>4. FreeIdOf(t) \in Id /\ \A x \in used : x.id # FreeIdOf(t)
  BY <1>1, <1>2
<1>5. QED
  BY <1>3, <1>4

\* An instance is made at the start,
LEMMA BootTyped ==
  ASSUME Sorted, Sounds, NEW r \in Req, Boot(r)
  PROVE  Sorted' /\ Sounds'
<1> DEFINE t == req[r].tenant
           id == FreeIdOf(t)
           got == [id |-> id, edits |-> config[t].edits]
<1>1. /\ req[r].at = "boot"
      /\ IF config[t] = NoConfig
         THEN Break(r) /\ UNCHANGED closed
         ELSE /\ req' = [req EXCEPT ![r].at = "install", ![r].got = got]
              /\ closed' = [closed EXCEPT ![t] = @ \ {id}]
              /\ UNCHANGED <<torn, frayed>>
      /\ UNCHANGED <<config, instances, rows, files, boundVars, made, replaced, acked, kept, clashed>>
  BY DEF Boot, FreeIdOf
<1>2. req[r] \in Request /\ t \in Tenant /\ closed[t] \subseteq Id
      /\ config[t] \in Config \cup {NoConfig} /\ req[r].form \in Config \cup {NoConfig}
      /\ (req[r].form # NoConfig => req[r].form.edits \subseteq 1 .. uploads
                                    /\ made[req[r].form.artifactId] = t)
  BY <1>1, Known
<1>3. id \in Id
  BY <1>2, FreeIdIs
<1> HIDE DEF id
<1>4. CASE config[t] = NoConfig
  <2>1. Break(r) /\ UNCHANGED <<closed, config, instances, rows, files, boundVars, made, acked, kept, clashed>>
    BY <1>1, <1>4
  <2>2. Sounds' /\ torn' \subseteq frayed' /\ frayed' \subseteq Tenant
    BY <2>1, <1>1, BreakTyped DEF boundVars
  <2>3. QED
    BY <2>1, <2>2 DEF Sorted, boundVars, Genuine
<1>5. CASE config[t] # NoConfig
  <2>1. config[t].edits \in SUBSET Upload /\ got \in Instance
    BY <1>2, <1>3, <1>5 DEF Config, Instance
  <2>2. req' = [req EXCEPT ![r].at = "install", ![r].got = got]
    BY <1>1, <1>5
  <2> HIDE DEF got
  <2>3. req' = [req EXCEPT ![r] = Moved(req[r], "install", req[r].form, got)]
    <3>1. [req[r] EXCEPT !.at = "install"] = Moved(req[r], "install", req[r].form, req[r].got)
      BY <2>2, <1>2 DEF Moved, Request
    <3>2. [Moved(req[r], "install", req[r].form, req[r].got) EXCEPT !.got = got] = Moved(req[r], "install", req[r].form, got)
      BY DEF Moved
    <3>3. req' = [req EXCEPT ![r] = [req[r] EXCEPT !.at = "install", !.got = got]]
      BY <2>2, <1>2
    <3>4. QED
      BY <3>1, <3>2, <3>3, Zenon
  <2>4. Sorted'
    <3>1. closed' \in [Tenant -> SUBSET Id]
      BY <1>1, <1>5 DEF Sorted
    <3>2. QED
      BY <3>1, <1>1, <1>5 DEF Sorted, boundVars, Genuine
  <2>5. req[r].kind \in {"post", "put"}
    BY <1>1 DEF Sounds, Sound
  <2>6. Sounds'
    <3>1. got # NoInstance /\ "install" \in At \ {"idle"}
      BY <2>1, Values DEF At
    <3>2. UNCHANGED <<made, uploads, pushes>>
      BY <1>1 DEF boundVars
    <3>3. Suits(req[r], "install", req[r].form, got)
      BY <2>1, <2>5, <1>2, <3>1 DEF Suits
    <3>4. QED
      BY <2>3, <1>1, <3>2, <3>3, MovedSound
  <2>7. QED
    BY <2>4, <2>6
<1>6. QED
  BY <1>4, <1>5

\* or by a request.
LEMMA InstallTyped ==
  ASSUME Sorted, Sounds, NEW r \in Req, Install(r)
  PROVE  Sorted' /\ Sounds'
<1> DEFINE t == req[r].tenant
           at == IF req[r].kind = "post" THEN "load" ELSE "publish"
<1>1. /\ req[r].at = "install" /\ instances' = [instances EXCEPT ![t] = req[r].got]
      /\ req' = [req EXCEPT ![r].at = at, ![r].got = NoInstance]
      /\ UNCHANGED <<config, closed, rows, files, boundVars, historyVars>>
  BY DEF Install
<1>2. req[r] \in Request /\ t \in Tenant /\ req[r].form \in Config \cup {NoConfig}
      /\ req[r].got \in Instance \cup {NoInstance}
      /\ (req[r].form # NoConfig => req[r].form.edits \subseteq 1 .. uploads
                                    /\ made[req[r].form.artifactId] = t)
  BY <1>1, Known
<1>3. req[r].kind \in {"post", "put"}
  BY <1>1 DEF Sounds, Sound
<1>4. at \in {"load", "publish"} /\ (at = "load" => req[r].kind = "post")
  OBVIOUS
<1> HIDE DEF at
<1>5. req' = [req EXCEPT ![r] = Moved(req[r], at, req[r].form, NoInstance)]
  <2>1. [req[r] EXCEPT !.at = at] = Moved(req[r], at, req[r].form, req[r].got)
    BY <1>1, <1>2 DEF Moved, Request
  <2>2. [Moved(req[r], at, req[r].form, req[r].got) EXCEPT !.got = NoInstance] = Moved(req[r], at, req[r].form, NoInstance)
    BY DEF Moved
  <2>3. req' = [req EXCEPT ![r] = [req[r] EXCEPT !.at = at, !.got = NoInstance]]
    BY <1>1, <1>2
  <2>4. QED
    BY <2>1, <2>2, <2>3, Zenon
<1>6. Sorted'
  <2>1. instances' \in [Tenant -> Instance \cup {NoInstance}]
    BY <1>1, <1>2 DEF Sorted
  <2>2. QED
    BY <2>1, <1>1 DEF Sorted, boundVars, historyVars, markVars, Genuine
<1>7. Sounds'
  <2>1. at \in At \ {"idle"} /\ UNCHANGED <<made, uploads, pushes>>
    BY <1>1, <1>4 DEF At, boundVars, historyVars
  <2>2. Suits(req[r], at, req[r].form, NoInstance)
    BY <2>1, <1>2, <1>3, <1>4 DEF Suits
  <2>3. QED
    BY <2>1, <2>2, <1>1, <1>5, MovedSound
<1>8. QED
  BY <1>6, <1>7

\* The configuration is loaded.
LEMMA LoadTyped ==
  ASSUME Sorted, Sounds, NEW r \in Req, Load(r)
  PROVE  Sorted' /\ Sounds'
<1> DEFINE t == req[r].tenant
<1>1. /\ req[r].at = "load"
      /\ IF NoConfig = config[t] \/ NoInstance = instances[t]
         THEN Break(r)
         ELSE /\ req' = IF config[t].entityData
                        THEN [req EXCEPT ![r].at = "store", ![r].got = instances[t]]
                        ELSE [req EXCEPT ![r].at = "publish"]
              /\ UNCHANGED <<torn, frayed>>
      /\ UNCHANGED <<serverVars, boundVars, made, replaced, acked, kept, clashed>>
  BY DEF Load
<1>2. req[r] \in Request /\ t \in Tenant /\ req[r].form \in Config \cup {NoConfig}
      /\ instances[t] \in Instance \cup {NoInstance} /\ req[r].got \in Instance \cup {NoInstance}
      /\ (req[r].form # NoConfig => req[r].form.edits \subseteq 1 .. uploads
                                    /\ made[req[r].form.artifactId] = t)
  BY <1>1, Known
<1>3. req[r].kind = "post"
  BY <1>1 DEF Sounds, Sound
<1>4. UNCHANGED <<made, uploads, pushes>> /\ "store" \in At \ {"idle"} /\ "publish" \in At \ {"idle"}
  BY <1>1 DEF boundVars, At
<1>5. CASE NoConfig = config[t] \/ NoInstance = instances[t]
  <2>1. Break(r)
    BY <1>1, <1>5
  <2>2. Sounds' /\ torn' \subseteq frayed' /\ frayed' \subseteq Tenant
    BY <2>1, <1>1, <1>4, BreakTyped
  <2>3. QED
    BY <2>2, <1>1 DEF Sorted, serverVars, boundVars, Genuine
<1>6. CASE ~(NoConfig = config[t] \/ NoInstance = instances[t]) /\ config[t].entityData
  <2>1. req' = [req EXCEPT ![r].at = "store", ![r].got = instances[t]]
    BY <1>1, <1>6
  <2>2. req' = [req EXCEPT ![r] = Moved(req[r], "store", req[r].form, instances[t])]
    <3>1. [req[r] EXCEPT !.at = "store"] = Moved(req[r], "store", req[r].form, req[r].got)
      BY <2>1, <1>2 DEF Moved, Request
    <3>2. [Moved(req[r], "store", req[r].form, req[r].got) EXCEPT !.got = instances[t]] = Moved(req[r], "store", req[r].form, instances[t])
      BY DEF Moved
    <3>3. req' = [req EXCEPT ![r] = [req[r] EXCEPT !.at = "store", !.got = instances[t]]]
      BY <2>1, <1>2
    <3>4. QED
      BY <3>1, <3>2, <3>3, Zenon
  <2>3. Sounds'
    <3>1. Suits(req[r], "store", req[r].form, instances[t])
      BY <1>2, <1>3, <1>4, <1>6 DEF Suits
    <3>2. QED
      BY <2>2, <3>1, <1>1, <1>4, MovedSound
  <2>4. QED
    BY <2>3, <1>1, <1>6 DEF Sorted, serverVars, boundVars, Genuine
<1>7. CASE ~(NoConfig = config[t] \/ NoInstance = instances[t]) /\ ~config[t].entityData
  <2>1. req' = [req EXCEPT ![r].at = "publish"]
    BY <1>1, <1>7
  <2>2. req' = [req EXCEPT ![r] = Moved(req[r], "publish", req[r].form, req[r].got)]
    BY <2>1, GoIs
  <2>3. Sounds'
    <3>1. Suits(req[r], "publish", req[r].form, req[r].got)
      BY <1>2, <1>3, <1>4 DEF Suits
    <3>2. QED
      BY <2>2, <3>1, <1>1, <1>4, MovedSound
  <2>4. QED
    BY <2>3, <1>1, <1>7 DEF Sorted, serverVars, boundVars, Genuine
<1>8. QED
  BY <1>5, <1>6, <1>7

\* An instance is put in the map.
LEMMA PublishTyped ==
  ASSUME Sorted, Sounds, NEW r \in Req, Publish(r)
  PROVE  Sorted' /\ Sounds'
<1> DEFINE t == req[r].tenant
<1>1. /\ req[r].at = "publish"
      /\ IF config[t] = NoConfig
         THEN Break(r)
         ELSE /\ req' = [req EXCEPT ![r].at = "write", ![r].form = config[t]]
              /\ UNCHANGED <<torn, frayed>>
      /\ UNCHANGED <<serverVars, boundVars, made, replaced, acked, kept, clashed>>
  BY DEF Publish
<1>2. req[r] \in Request /\ t \in Tenant /\ config[t] \in Config \cup {NoConfig}
      /\ req[r].got \in Instance \cup {NoInstance}
      /\ (config[t] # NoConfig => config[t].edits \subseteq 1 .. uploads
                                  /\ made[config[t].artifactId] = t)
  BY <1>1, Known
<1>3. req[r].kind \in {"post", "put"}
  BY <1>1 DEF Sounds, Sound
<1>4. UNCHANGED <<made, uploads, pushes>> /\ "write" \in At \ {"idle"}
  BY <1>1 DEF boundVars, At
<1>5. CASE config[t] = NoConfig
  <2>1. Break(r)
    BY <1>1, <1>5
  <2>2. Sounds' /\ torn' \subseteq frayed' /\ frayed' \subseteq Tenant
    BY <2>1, <1>1, <1>4, BreakTyped
  <2>3. QED
    BY <2>2, <1>1 DEF Sorted, serverVars, boundVars, Genuine
<1>6. CASE config[t] # NoConfig
  <2>1. req' = [req EXCEPT ![r].at = "write", ![r].form = config[t]]
    BY <1>1, <1>6
  <2>2. req' = [req EXCEPT ![r] = Moved(req[r], "write", config[t], req[r].got)]
    <3>1. [req[r] EXCEPT !.at = "write"] = Moved(req[r], "write", req[r].form, req[r].got)
      BY <2>1, <1>2 DEF Moved, Request
    <3>2. [Moved(req[r], "write", req[r].form, req[r].got) EXCEPT !.form = config[t]] = Moved(req[r], "write", config[t], req[r].got)
      BY DEF Moved
    <3>3. req' = [req EXCEPT ![r] = [req[r] EXCEPT !.at = "write", !.form = config[t]]]
      BY <2>1, <1>2
    <3>4. QED
      BY <3>1, <3>2, <3>3, Zenon
  <2>3. Sounds'
    <3>1. Suits(req[r], "write", config[t], req[r].got)
      BY <1>2, <1>3, <1>4, <1>6 DEF Suits
    <3>2. QED
      BY <2>2, <3>1, <1>1, <1>4, MovedSound
  <2>4. QED
    BY <2>3, <1>1, <1>6 DEF Sorted, serverVars, boundVars, Genuine
<1>7. QED
  BY <1>5, <1>6

\* A file is written.
LEMMA WriteTyped ==
  ASSUME Sorted, Sounds, NEW r \in Req, Write(r)
  PROVE  Sorted' /\ Sounds'
<1> DEFINE t == req[r].tenant
           form == req[r].form
<1>1. /\ req[r].at = "write" /\ files' = [files EXCEPT ![form.artifactId] = form]
      /\ kept' = IF req[r].kind = "get" THEN kept ELSE [kept EXCEPT ![t] = @ \cup form.edits]
      /\ Finish(r)
      /\ UNCHANGED <<config, instances, closed, rows, boundVars, made, replaced, acked, markVars>>
  BY DEF Write
<1>2. t \in Tenant /\ form \in Config \cup {NoConfig}
      /\ (form # NoConfig => form.edits \subseteq 1 .. uploads /\ made[form.artifactId] = t)
  BY <1>1, Known
<1>3. form # NoConfig
  BY <1>1 DEF Sounds, Sound
<1> HIDE DEF form, t
<1>4. kept' \in [Tenant -> SUBSET (1 .. uploads)] /\ files' \in [Upload -> Config \cup {NoConfig}]
  <2>1. [kept EXCEPT ![t] = @ \cup form.edits] \in [Tenant -> SUBSET (1 .. uploads)]
    BY <1>2, <1>3 DEF Sorted
  <2>2. [files EXCEPT ![form.artifactId] = form] \in [Upload -> Config \cup {NoConfig}]
    BY <1>2 DEF Sorted
  <2>3. QED
    BY <2>1, <2>2, <1>1 DEF Sorted
<1>5. Sounds'
  BY <1>1, FinishTyped DEF boundVars
<1>6. Sorted'
  BY <1>1, <1>4 DEF Sorted, boundVars, markVars, Genuine
<1>7. QED
  BY <1>5, <1>6

\* A request that goes on is sound.
LEMMA GoSound ==
  ASSUME Sorted, Sounds, NEW r \in Req, req[r].at # "idle", NEW at, Goto(r, at),
         Suits(req[r], at, req[r].form, req[r].got), UNCHANGED <<made, uploads, pushes>>
  PROVE  Sounds'
<1>1. req' = [req EXCEPT ![r] = Moved(req[r], at, req[r].form, req[r].got)]
  BY GoIs DEF Goto
<1>2. QED
  BY <1>1, MovedSound

\* A PUT or DELETE finds its row, or none.
LEMMA CheckTyped ==
  ASSUME Sorted, Sounds, NEW r \in Req, Check(r)
  PROVE  Sorted' /\ Sounds'
<1> DEFINE t == req[r].tenant
           form == [Edited(req[r].form, uploads + 1) EXCEPT !.artifactId = config[t].artifactId]
<1>1. req[r].at = "page" /\ UNCHANGED <<serverVars, pushes, faults, made, replaced, acked, kept>>
  BY DEF Check
<1>2. req[r] \in Request /\ t \in Tenant /\ req[r].form \in Config \cup {NoConfig}
      /\ config[t] \in Config \cup {NoConfig} /\ req[r].got \in Instance \cup {NoInstance}
      /\ (req[r].form # NoConfig => req[r].form.edits \subseteq 1 .. uploads)
      /\ (config[t] # NoConfig => made[config[t].artifactId] = t)
  BY <1>1, Known
<1>3. req[r].kind = "put" /\ req[r].form # NoConfig
  BY <1>1 DEF Sounds, Sound
<1>4. CASE Finish(r) /\ UNCHANGED <<uploads, markVars>>
  <2>1. Sounds'
    BY <1>1, <1>4, FinishTyped
  <2>2. QED
    BY <2>1, <1>1, <1>4 DEF Sorted, serverVars, markVars, Genuine
<1>5. CASE /\ config[t] # NoConfig /\ uploads < MaxUploads /\ uploads' = uploads + 1
           /\ req' = [req EXCEPT ![r].at = "save", ![r].form = form] /\ Meet(r, "put", t)
  <2>1. uploads \in Nat /\ pushes \in Nat /\ uploads + 1 \in Upload /\ uploads' \in 0 .. MaxUploads
        /\ 1 .. uploads \subseteq 1 .. uploads' /\ uploads + 1 \in 1 .. uploads'
    BY <1>5, Sizes DEF Sorted, Upload
  <2>2. form \in Config /\ form.edits = req[r].form.edits \cup {uploads + 1}
        /\ form.artifactId = config[t].artifactId
    <3> DEFINE n == uploads + 1
               f == req[r].form
               e == Edited(f, n)
               a == config[t].artifactId
    <3>1. f \in Config /\ n \in Upload /\ a \in Upload
      BY <1>2, <1>3, <1>5, <2>1 DEF Config
    <3> HIDE DEF f, n, a
    <3>2. e \in Config /\ e.edits = f.edits \cup {n}
      BY <3>1 DEF Config, Edited
    <3> HIDE DEF e
    <3>3. [e EXCEPT !.artifactId = a] \in Config /\ [e EXCEPT !.artifactId = a].edits = e.edits
          /\ [e EXCEPT !.artifactId = a].artifactId = a
      BY <3>1, <3>2 DEF Config
    <3>4. QED
      BY <3>2, <3>3 DEF e, f, n, a
  <2> HIDE DEF form
  <2>3. req' = [req EXCEPT ![r] = Moved(req[r], "save", form, req[r].got)]
    <3>0. req' = [req EXCEPT ![r].at = "save", ![r].form = form]
      BY <1>5
    <3>1. [req[r] EXCEPT !.at = "save"] = Moved(req[r], "save", req[r].form, req[r].got)
      BY <3>0, <1>2 DEF Moved, Request
    <3>2. [Moved(req[r], "save", req[r].form, req[r].got) EXCEPT !.form = form] = Moved(req[r], "save", form, req[r].got)
      BY DEF Moved
    <3>3. req' = [req EXCEPT ![r] = [req[r] EXCEPT !.at = "save", !.form = form]]
      BY <3>0, <1>2
    <3>4. QED
      BY <3>1, <3>2, <3>3, Zenon
  <2> DEFINE y == Moved(req[r], "save", form, req[r].got)
  <2>4. Sound(y, made', uploads', pushes')
    <3>1. y \in Request
      BY <1>2, <2>2 DEF Moved, Request, At
    <3>2. form # NoConfig /\ form.edits \subseteq 1 .. uploads' /\ made'[form.artifactId] = t
      BY <1>1, <1>2, <1>3, <1>5, <2>1, <2>2, Values
    <3>3. req[r].event <= pushes' /\ req[r].event = 0
      BY <1>1, <1>3 DEF Sounds, Sound
    <3>4. /\ y.kind = "put" /\ y.at = "save" /\ y.tenant = t /\ y.form = form /\ y.event = req[r].event
          /\ y # Idle
      BY <1>3 DEF Moved, Idle
    <3> HIDE DEF y
    <3>5. QED
      BY <3>1, <3>2, <3>3, <3>4, <1>2 DEF Sound
  <2>5. Sounds'
    <3>1. req' = [req EXCEPT ![r] = y]
      BY <2>3
    <3> HIDE DEF y
    <3>2. uploads' \in Nat /\ pushes' \in Nat /\ uploads <= uploads' /\ pushes <= pushes'
      BY <1>1, <1>5, <2>1
    <3>3. made' = made
      BY <1>1
    <3>4. QED
      BY <3>1, <3>2, <3>3, <2>4, SoundsStep
  <2>6. Sorted'
    <3>1. torn' \subseteq frayed' /\ frayed' \subseteq Tenant /\ clashed' \subseteq Tenant
      BY <1>2, <1>5, MeetMarks
    <3>2. kept' \in [Tenant -> SUBSET (1 .. uploads')]
      BY <1>1, <2>1 DEF Sorted
    <3>3. ASSUME NEW u \in Tenant PROVE Genuine(config[u], u)'
      <4>1. Genuine(config[u], u)
        BY DEF Sorted
      <4>2. QED
        BY <4>1, <1>1, <2>1 DEF Genuine, serverVars
    <3>4. \A a \in Upload : made'[a] # Nobody => a <= uploads'
      BY <1>1, <1>5, <2>1 DEF Sorted, Upload
    <3>5. QED
      BY <3>1, <3>2, <3>3, <3>4, <2>1, <1>1 DEF Sorted, serverVars
  <2>7. QED
    BY <2>5, <2>6
<1>6. QED
  BY <1>4, <1>5 DEF Check

\* The row is saved.
LEMMA SaveTyped ==
  ASSUME Sorted, Sounds, NEW r \in Req, Save(r)
  PROVE  Sorted' /\ Sounds'
<1> DEFINE t == req[r].tenant
           form == req[r].form
<1>1. /\ req[r].at = "save" /\ config' = [config EXCEPT ![t] = form] /\ Goto(r, "swap")
      /\ UNCHANGED <<instances, closed, rows, files, boundVars, historyVars>>
  BY DEF Save
<1>2. t \in Tenant /\ form \in Config \cup {NoConfig} /\ req[r].got \in Instance \cup {NoInstance}
      /\ (form # NoConfig => form.edits \subseteq 1 .. uploads /\ made[form.artifactId] = t)
  BY <1>1, Known
<1>3. form # NoConfig /\ req[r].kind = "put"
  BY <1>1 DEF Sounds, Sound
<1>4. Sounds'
  <2>1. Suits(req[r], "swap", form, req[r].got)
    BY <1>2, <1>3 DEF Suits, At
  <2>2. QED
    BY <2>1, <1>1, GoSound DEF boundVars, historyVars
<1> HIDE DEF form, t
<1>5. Sorted'
  <2>1. config' \in [Tenant -> Config \cup {NoConfig}]
    BY <1>1, <1>2 DEF Sorted
  <2>2. ASSUME NEW u \in Tenant PROVE Genuine(config[u], u)'
    <3>1. CASE u = t
      BY <3>1, <1>1, <1>2 DEF Genuine, Sorted, boundVars, historyVars
    <3>2. CASE u # t
      BY <3>2, <1>1, <1>2 DEF Genuine, Sorted, boundVars, historyVars
    <3>3. QED
      BY <3>1, <3>2
  <2>3. QED
    BY <2>1, <2>2, <1>1 DEF Sorted, boundVars, historyVars, markVars
<1>6. QED
  BY <1>4, <1>5

\* What a start of the server leaves.
LEMMA StartTyped ==
  ASSUME Sorted, Sounds, Start,
         UNCHANGED <<config, rows, files, uploads, pushes, made, acked, kept, clashed>>, faults' \in 0 .. MaxFaults
  PROVE  Sorted' /\ Sounds'
<1>1. Sounds'
  <2>1. req' = [r \in Req |-> IF Working(r) THEN Idle ELSE req[r]]
    BY DEF Start
  <2>2. ASSUME NEW r \in Req PROVE Sound(req'[r], made', uploads', pushes')
    <3>1. Sound(Idle, made', uploads', pushes')
      BY IdleSound
    <3>2. Sound(req[r], made', uploads', pushes')
      BY DEF Sounds
    <3>3. req'[r] = Idle \/ req'[r] = req[r]
      BY <2>1
    <3>4. QED
      BY <3>1, <3>2, <3>3
  <2>3. \A r \in Req : req'[r] \in Request
    BY <2>2 DEF Sound
  <2>4. req' \in [Req -> Request]
    BY <2>1, <2>3
  <2>5. QED
    BY <2>2, <2>4 DEF Sounds
<1>2. Sorted'
  <2>1. 1 \in Id
    <3>1. Cardinality(Req) \in Nat
      BY Sizes, FS_CardinalityType
    <3>2. QED
      BY <3>1 DEF Id
  <2>2. ASSUME NEW t \in Tenant, config[t] # NoConfig PROVE [id |-> 1, edits |-> config[t].edits] \in Instance
    <3>1. config[t] \in Config
      BY <2>2 DEF Sorted
    <3>2. config[t].edits \in SUBSET Upload
      BY <3>1 DEF Config
    <3>3. QED
      BY <2>1, <3>2 DEF Instance
  <2>3. instances' \in [Tenant -> Instance \cup {NoInstance}]
    BY <2>2 DEF Start
  <2>4. closed' \in [Tenant -> SUBSET Id]
    BY DEF Start
  <2>5. torn' \subseteq frayed' /\ frayed' \subseteq Tenant
    BY DEF Start, Sorted
  <2>6. QED
    BY <2>3, <2>4, <2>5 DEF Sorted, Genuine
<1>3. QED
  BY <1>1, <1>2

\* An instance is exchanged for another.
LEMMA SwapTyped ==
  ASSUME Sorted, Sounds, NEW r \in Req, Swap(r)
  PROVE  Sorted' /\ Sounds'
<1> DEFINE t == req[r].tenant
<1>1. req[r].at = "swap"
      /\ UNCHANGED <<config, rows, files, boundVars, made, replaced, acked, kept, clashed>>
  BY DEF Swap
<1>2. t \in Tenant /\ req[r].form \in Config \cup {NoConfig} /\ req[r].got \in Instance \cup {NoInstance}
      /\ instances[t] \in Instance \cup {NoInstance}
      /\ (req[r].form # NoConfig => req[r].form.edits \subseteq 1 .. uploads /\ made[req[r].form.artifactId] = t)
  BY <1>1, Known
<1>3. req[r].kind = "put"
  BY <1>1 DEF Sounds, Sound
<1>4. Suits(req[r], "boot", req[r].form, req[r].got) /\ Suits(req[r], "publish", req[r].form, req[r].got)
  BY <1>2, <1>3 DEF Suits, At
<1>5. CASE Goto(r, "publish") /\ UNCHANGED <<instances, closed, torn, frayed>>
  <2>1. Sounds'
    BY <1>1, <1>4, <1>5, GoSound DEF boundVars
  <2>2. QED
    BY <2>1, <1>1, <1>5 DEF Sorted, boundVars, Genuine
<1>6. CASE /\ instances[t] # NoInstance /\ Goto(r, "boot")
           /\ closed' = [closed EXCEPT ![t] = @ \cup {instances[t].id}]
           /\ UNCHANGED <<instances, torn, frayed>>
  <2>1. Sounds'
    BY <1>1, <1>4, <1>6, GoSound DEF boundVars
  <2>2. closed' \in [Tenant -> SUBSET Id]
    <3>1. instances[t].id \in Id
      BY <1>2, <1>6 DEF Instance
    <3>2. QED
      BY <3>1, <1>6 DEF Sorted
  <2>3. QED
    BY <2>1, <2>2, <1>1, <1>6 DEF Sorted, boundVars, Genuine
<1>7. CASE Start
  <2>1. faults' \in 0 .. MaxFaults
    BY <1>1 DEF Sorted, boundVars
  <2>2. QED
    BY <2>1, <1>1, <1>7, StartTyped DEF boundVars
<1>8. QED
  BY <1>5, <1>6, <1>7 DEF Swap

\* A row and its instance go.
LEMMA DeleteTyped ==
  ASSUME Sorted, Sounds, NEW r \in Req, Drop(r) \/ Clear(r) \/ Forget(r)
  PROVE  Sorted' /\ Sounds'
<1> DEFINE t == req[r].tenant
<1>1. req[r].at \in {"drop", "clear", "forget"} /\ UNCHANGED <<made, uploads, pushes>>
  BY DEF Drop, Clear, Forget, boundVars, historyVars
<1>2. t \in Tenant /\ req[r].form \in Config \cup {NoConfig} /\ req[r].got \in Instance \cup {NoInstance}
      /\ (req[r].form # NoConfig => req[r].form.edits \subseteq 1 .. uploads /\ made[req[r].form.artifactId] = t)
  BY <1>1, Known
<1>3. req[r].kind = "delete"
  BY <1>1 DEF Sounds, Sound
<1>4. ASSUME NEW at \in {"clear", "forget", "unlink"}, Goto(r, at) PROVE Sounds'
  <2>1. Suits(req[r], at, req[r].form, req[r].got)
    BY <1>2, <1>3 DEF Suits, At
  <2>2. QED
    BY <2>1, <1>1, <1>4, GoSound
<1>5. CASE Drop(r)
  <2>1. config' = [config EXCEPT ![t] = NoConfig] /\ kept' = [kept EXCEPT ![t] = {}]
        /\ Goto(r, "clear")
        /\ UNCHANGED <<instances, closed, rows, files, boundVars, made, replaced, acked, markVars>>
    BY <1>5 DEF Drop
  <2>2. Sounds'
    BY <2>1, <1>4
  <2>3. ASSUME NEW u \in Tenant PROVE Genuine(config[u], u)'
    <3>1. config'[u] = NoConfig \/ config'[u] = config[u]
      BY <2>1 DEF Sorted
    <3>2. QED
      BY <3>1, <2>1 DEF Sorted, Genuine, boundVars
  <2>4. config' \in [Tenant -> Config \cup {NoConfig}] /\ kept' \in [Tenant -> SUBSET (1 .. uploads')]
    BY <2>1, <1>1 DEF Sorted
  <2>5. QED
    BY <2>1, <2>2, <2>3, <2>4 DEF Sorted, boundVars, markVars
<1>6. CASE Clear(r)
  <2>1. UNCHANGED <<config, instances, closed, files, boundVars, made, replaced, kept, clashed>>
    BY <1>6 DEF Clear
  <2>2. CASE Goto(r, "unlink") /\ UNCHANGED <<rows, acked, torn, frayed>>
    <3>1. Sounds'
      BY <2>2, <1>4
    <3>2. QED
      BY <3>1, <2>1, <2>2 DEF Sorted, boundVars, Genuine
  <2>3. CASE Break(r) /\ UNCHANGED <<rows, acked>>
    <3>1. Sounds' /\ torn' \subseteq frayed' /\ frayed' \subseteq Tenant
      BY <2>3, <1>1, BreakTyped
    <3>2. QED
      BY <3>1, <2>1, <2>3 DEF Sorted, boundVars, Genuine
  <2>4. CASE /\ rows' = [rows EXCEPT ![t] = {}] /\ acked' = [acked EXCEPT ![t] = {}]
             /\ Goto(r, "forget") /\ UNCHANGED <<torn, frayed>>
    <3>1. Sounds'
      BY <2>4, <1>4
    <3>2. rows' \in [Tenant -> SUBSET (0 .. pushes')] /\ acked' \in [Tenant -> SUBSET (0 .. pushes')]
      BY <2>4, <1>1 DEF Sorted
    <3>3. QED
      BY <3>1, <3>2, <2>1, <2>4 DEF Sorted, boundVars, Genuine
  <2>5. QED
    BY <2>2, <2>3, <2>4, <1>6 DEF Clear
<1>7. CASE Forget(r)
  <2>1. instances' = [instances EXCEPT ![t] = NoInstance] /\ Goto(r, "unlink")
        /\ UNCHANGED <<config, closed, rows, files, boundVars, historyVars>>
    BY <1>7 DEF Forget
  <2>2. Sounds'
    BY <2>1, <1>4
  <2>3. instances' \in [Tenant -> Instance \cup {NoInstance}]
    BY <2>1 DEF Sorted
  <2>4. QED
    BY <2>1, <2>2, <2>3 DEF Sorted, boundVars, historyVars, markVars, Genuine
<1>8. QED
  BY <1>5, <1>6, <1>7

\* A file is deleted.
LEMMA UnlinkTyped ==
  ASSUME Sorted, Sounds, NEW r \in Req, Unlink(r)
  PROVE  Sorted' /\ Sounds'
<1>1. /\ files' = IF req[r].form = NoConfig THEN files
                  ELSE [files EXCEPT ![req[r].form.artifactId] = NoConfig]
      /\ Finish(r) /\ UNCHANGED <<config, instances, closed, rows, boundVars, historyVars>>
  BY DEF Unlink
<1>2. Sounds'
  BY <1>1, FinishTyped DEF boundVars, historyVars
<1>3. files' \in [Upload -> Config \cup {NoConfig}]
  BY <1>1 DEF Sorted
<1>4. QED
  BY <1>1, <1>2, <1>3 DEF Sorted, boundVars, historyVars, markVars, Genuine

\* A push is stored.
LEMMA StoreTyped ==
  ASSUME Sorted, Sounds, NEW r \in Req, Store(r)
  PROVE  Sorted' /\ Sounds'
<1> DEFINE t == req[r].tenant
           event == req[r].event
<1>1. /\ req[r].at = "store"
      /\ rows' = IF req[r].got.id \in closed[t] THEN rows ELSE [rows EXCEPT ![t] = @ \cup {event}]
      /\ acked' = [acked EXCEPT ![t] = @ \cup {event}]
      /\ IF event = 0 THEN req' = [req EXCEPT ![r].at = "publish", ![r].got = NoInstance] ELSE Finish(r)
      /\ UNCHANGED <<config, instances, closed, files, boundVars, made, replaced, kept, markVars>>
  BY DEF Store
<1>2. req[r] \in Request /\ t \in Tenant /\ req[r].form \in Config \cup {NoConfig}
      /\ (req[r].form # NoConfig => req[r].form.edits \subseteq 1 .. uploads /\ made[req[r].form.artifactId] = t)
  BY <1>1, Known
<1>3. req[r].kind \in {"post", "push"} /\ event <= pushes /\ (event = 0 => req[r].kind = "post")
  BY <1>1 DEF Sounds, Sound
<1>4. event \in 0 .. pushes
  <2>1. pushes \in Nat /\ event \in Nat
    BY <1>2, Sizes DEF Sorted, Request
  <2>2. QED
    BY <2>1, <1>3
<1> HIDE DEF event
<1>5. Sorted'
  <2>1. rows' \in [Tenant -> SUBSET (0 .. pushes)]
    <3>1. [rows EXCEPT ![t] = @ \cup {event}] \in [Tenant -> SUBSET (0 .. pushes)]
      BY <1>2, <1>4 DEF Sorted
    <3>2. QED
      BY <3>1, <1>1 DEF Sorted
  <2>2. acked' \in [Tenant -> SUBSET (0 .. pushes)]
    BY <1>1, <1>2, <1>4 DEF Sorted
  <2>3. QED
    BY <2>1, <2>2, <1>1 DEF Sorted, boundVars, markVars, Genuine
<1>6. Sounds'
  <2>1. CASE event = 0
    <3>1. req' = [req EXCEPT ![r].at = "publish", ![r].got = NoInstance]
      BY <1>1, <2>1
    <3>2. req' = [req EXCEPT ![r] = Moved(req[r], "publish", req[r].form, NoInstance)]
      <4>1. [req[r] EXCEPT !.at = "publish"] = Moved(req[r], "publish", req[r].form, req[r].got)
        BY <3>1, <1>2 DEF Moved, Request
      <4>2. [Moved(req[r], "publish", req[r].form, req[r].got) EXCEPT !.got = NoInstance] = Moved(req[r], "publish", req[r].form, NoInstance)
        BY DEF Moved
      <4>3. req' = [req EXCEPT ![r] = [req[r] EXCEPT !.at = "publish", !.got = NoInstance]]
        BY <3>1, <1>2
      <4>4. QED
        BY <4>1, <4>2, <4>3, Zenon
    <3>3. Suits(req[r], "publish", req[r].form, NoInstance)
      BY <2>1, <1>2, <1>3 DEF Suits, At
    <3>4. QED
      BY <3>2, <3>3, <1>1, MovedSound DEF boundVars
  <2>2. CASE event # 0
    BY <2>2, <1>1, FinishTyped DEF boundVars
  <2>3. QED
    BY <2>1, <2>2
<1>7. QED
  BY <1>5, <1>6

\* A step fails.
LEMMA FaultTyped ==
  ASSUME Sorted, Sounds, (\E r \in Req : Throw(r)) \/ Restart
  PROVE  Sorted' /\ Sounds'
<1>1. faults' \in 0 .. MaxFaults
  BY Sizes DEF Sorted, Throw, Restart
<1>2. ASSUME NEW r \in Req, Throw(r) PROVE Sorted' /\ Sounds'
  <2>1. Break(r) /\ req[r].at # "idle"
        /\ UNCHANGED <<serverVars, uploads, pushes, made, replaced, acked, kept, clashed>>
    BY <1>2 DEF Throw, Working
  <2>2. Sounds' /\ torn' \subseteq frayed' /\ frayed' \subseteq Tenant
    BY <2>1, BreakTyped
  <2>3. QED
    BY <2>1, <2>2, <1>1 DEF Sorted, serverVars, Genuine
<1>3. CASE Restart
  BY <1>1, <1>3, StartTyped DEF Restart
<1>4. QED
  BY <1>2, <1>3

\* Every step keeps the layer Typed,
LEMMA TypedStep == Typed /\ [Next]_vars => Typed'
<1> SUFFICES ASSUME Typed, [Next]_vars PROVE Sorted' /\ Sounds'
  <2>1. Sorted' /\ Sounds' => Typed'
    BY SortedIsTyped, PTL
  <2>2. QED
    BY <2>1
<1>1. Sorted /\ Sounds
  BY TypedIsSorted
<1>2. ASSUME NEW r \in Req, NEW t \in Tenant,
             NEW form \in {Created(uploads + 1), Uploaded(uploads + 1)}, Post(r, t, form)
      PROVE  Sorted' /\ Sounds'
  BY <1>1, <1>2, PostTyped
<1>3. ASSUME NEW r \in Req, NEW t \in Tenant, OpenPage(r, t) \/ Find(r, t) \/ Push(r, t) \/ Fetch(r, t)
      PROVE  Sorted' /\ Sounds'
  BY <1>1, <1>3, BeginsTyped
<1>4. ASSUME NEW r \in Req, Boot(r) \/ Install(r) \/ Load(r) \/ Publish(r) \/ Write(r)
      PROVE  Sorted' /\ Sounds'
  BY <1>1, <1>4, BootTyped, InstallTyped, LoadTyped, PublishTyped, WriteTyped
<1>5. ASSUME NEW r \in Req, Check(r) \/ Save(r) \/ Swap(r)
      PROVE  Sorted' /\ Sounds'
  BY <1>1, <1>5, CheckTyped, SaveTyped, SwapTyped
<1>6. ASSUME NEW r \in Req, Drop(r) \/ Clear(r) \/ Forget(r) \/ Unlink(r) \/ Store(r)
      PROVE  Sorted' /\ Sounds'
  BY <1>1, <1>6, DeleteTyped, UnlinkTyped, StoreTyped
<1>7. CASE (\E r \in Req : Throw(r)) \/ Restart
  BY <1>1, <1>7, FaultTyped
<1>8. CASE UNCHANGED vars
  BY <1>1, <1>8 DEF vars, serverVars, boundVars, historyVars, markVars, Sorted, Sounds, Genuine
<1>9. QED
  BY <1>2, <1>3, <1>4, <1>5, <1>6, <1>7, <1>8 DEF Next

\* which holds at the start.
LEMMA TypedInit == Init => Typed
<1> SUFFICES ASSUME Init PROVE Sorted /\ Sounds
  BY SortedIsTyped
<1>1. Sorted
  BY Sizes DEF Init, Sorted, Genuine
<1>2. Sounds
  <2>1. Sound(Idle, made, uploads, pushes)
    BY <1>1, IdleSound
  <2>2. Idle \in Request
    BY <2>1 DEF Sound
  <2>3. QED
    BY <2>1, <2>2 DEF Init, Sounds
<1>3. QED
  BY <1>1, <1>2

-----------------------------------------------------------------------------
(* What a step leaves alone: the other programs.                           *)

Same(u) ==
    /\ config'[u] = config[u] /\ instances'[u] = instances[u] /\ closed'[u] = closed[u]
    /\ rows'[u] = rows[u] /\ acked'[u] = acked[u] /\ kept'[u] = kept[u]
    /\ u \in torn' <=> u \in torn
    /\ u \in frayed' <=> u \in frayed
    /\ u \in clashed' <=> u \in clashed
    /\ \A q \in Req : req'[q] = req[q] \/ (req[q].tenant # u /\ req'[q].tenant # u)
    /\ \A a \in Upload : made'[a] = u <=> made[a] = u
    /\ \A a \in Upload : made[a] = u => files'[a] = files[a] /\ (a \in replaced' <=> a \in replaced)

\* What is kept of a program that a step leaves alone.
Good(t) ==
    /\ t \notin torn => Apart(t) /\ Staged(t)
    /\ t \notin frayed => Filed(t) /\ acked[t] \subseteq rows[t]
    /\ t \notin clashed => Edits(t)

\* A step that leaves a program as it was keeps what is said of it.
LEMMA Elsewhere ==
  ASSUME NEW u \in Tenant, Sounds, Sounds', Sorted, Sorted', Same(u), Good(u)
  PROVE  Good(u)'
<1>1. /\ config'[u] = config[u] /\ instances'[u] = instances[u] /\ closed'[u] = closed[u]
      /\ rows'[u] = rows[u] /\ acked'[u] = acked[u] /\ kept'[u] = kept[u]
      /\ u \in torn' <=> u \in torn
      /\ u \in frayed' <=> u \in frayed
      /\ u \in clashed' <=> u \in clashed
      /\ \A q \in Req : req'[q] = req[q] \/ (req[q].tenant # u /\ req'[q].tenant # u)
  BY DEF Same
<1>2. \A q \in Req : Served(q, u)' <=> Served(q, u)
  BY <1>1 DEF Served, Working
<1>3. \A q \in Req : Changing(q, u)' <=> Changing(q, u)
  BY <1>1, <1>2 DEF Changing, Served
<1>4. \A q \in Req : Served(q, u) => req'[q] = req[q]
  BY <1>1 DEF Served
<1>5. Resting(u)' <=> Resting(u)
  BY <1>3 DEF Resting
<1>6. Serves(u)' <=> Serves(u)
  BY <1>1 DEF Serves, Running
<1>7. Settled(u)' <=> Settled(u)
  BY <1>1, <1>6 DEF Settled, Emptied
<1>8. u \notin torn' => Apart(u)' /\ Staged(u)'
  <2>1. SUFFICES ASSUME u \notin torn' PROVE Apart(u)' /\ Staged(u)'
    OBVIOUS
  <2>2. Apart(u) /\ Staged(u)
    BY <1>1, <2>1 DEF Good
  <2>3. Apart(u)'
    BY <1>2, <1>3, <2>2 DEF Apart
  <2>4. ASSUME NEW q \in Req, Served(q, u) PROVE Stage(q, u)'
    <3>1. Stage(q, u) /\ req'[q] = req[q]
      BY <2>2, <2>4, <1>4 DEF Staged
    <3>2. QED
      BY <3>1, <1>1, <1>6, <1>7 DEF Stage, Running, Emptied
  <2>5. QED
    BY <2>2, <2>3, <2>4, <1>2, <1>5, <1>7 DEF Staged
<1>9. u \notin frayed' => Filed(u)' /\ acked'[u] \subseteq rows'[u]
  <2>1. SUFFICES ASSUME u \notin frayed' PROVE Filed(u)' /\ acked'[u] \subseteq rows'[u]
    OBVIOUS
  <2>2. Filed(u) /\ acked[u] \subseteq rows[u]
    BY <1>1, <2>1 DEF Good
  <2>3. \A a \in Upload : made'[a] = u /\ a \notin replaced' <=> made[a] = u /\ a \notin replaced
    BY DEF Same
  <2>4. \A a \in Upload : made[a] = u => files'[a] = files[a]
    BY DEF Same
  <2>5. Published(u)' <=> Published(u)
    BY <2>3, <2>4, <1>1 DEF Published
  <2>7. ASSUME NEW q \in Req, Served(q, u) PROVE Publishing(q, u)'
    <3>1. Publishing(q, u) /\ req'[q] = req[q]
      BY <2>2, <2>7, <1>4 DEF Filed
    <3>2. Gone(u, config[u].artifactId)' <=> Gone(u, config[u].artifactId)
      BY <2>3, <2>4, <1>1 DEF Gone
    <3>3. Gone(u, IF req[q].form = NoConfig THEN 0 ELSE req[q].form.artifactId)'
            <=> Gone(u, IF req[q].form = NoConfig THEN 0 ELSE req[q].form.artifactId)
      BY <2>3, <2>4, <3>1 DEF Gone
    <3>4. QED
      BY <3>1, <3>2, <3>3, <1>1, <2>5 DEF Publishing
  <2>8. QED
    BY <2>2, <2>5, <2>7, <1>1, <1>2, <1>5 DEF Filed
<1>10. u \notin clashed' => Edits(u)'
  <2>1. SUFFICES ASSUME u \notin clashed' PROVE Edits(u)'
    OBVIOUS
  <2>2. Edits(u)
    BY <1>1, <2>1 DEF Good
  <2>3. \A q \in Req : (Editing(q, u)' <=> Editing(q, u)) /\ (Editing(q, u) => req'[q] = req[q])
    BY <1>1 DEF Editing
  <2>4. QED
    BY <2>2, <2>3, <1>1 DEF Edits
<1>11. QED
  BY <1>8, <1>9, <1>10 DEF Good

\* The steps of a request for a program leave the others alone.
LEMMA BeginsApart ==
  ASSUME Sorted, Sounds, NEW r \in Req, NEW t \in Tenant, NEW u \in Tenant, u # t,
         (\E form \in {Created(uploads + 1), Uploaded(uploads + 1)} : Post(r, t, form))
            \/ OpenPage(r, t) \/ Find(r, t) \/ Push(r, t) \/ Fetch(r, t)
  PROVE  Same(u)
<1>1. req \in [Req -> Request] /\ Nobody # u
  BY Values DEF Sounds
<1>2. ASSUME NEW kind, NEW at, NEW form, NEW got, req[r] = Idle, Begin(r, kind, at, t, form, got)
      PROVE  \A q \in Req : req'[q] = req[q] \/ (req[q].tenant # u /\ req'[q].tenant # u)
  <2>1. \A q \in Req : q # r => req'[q] = req[q]
    BY <1>1, <1>2 DEF Begin
  <2>2. req'[r].tenant = t
    BY <1>1, <1>2 DEF Begin
  <2>3. req[r].tenant = Nobody
    BY <1>2 DEF Idle
  <2>4. req[r].tenant # u /\ req'[r].tenant # u
    BY <2>2, <2>3, <1>1
  <2>5. QED
    BY <2>1, <2>4
<1>3. ASSUME NEW kind, Meet(r, kind, t)
      PROVE  (u \in torn' <=> u \in torn) /\ (u \in frayed' <=> u \in frayed) /\ (u \in clashed' <=> u \in clashed)
  BY <1>3 DEF Meet
<1>4. ASSUME NEW form \in {Created(uploads + 1), Uploaded(uploads + 1)}, Post(r, t, form) PROVE Same(u)
  <2>1. /\ req[r] = Idle /\ uploads < MaxUploads
        /\ Begin(r, "post", "boot", t, NoConfig, NoInstance)
        /\ config' = [config EXCEPT ![t] = form] /\ made' = [made EXCEPT ![form.artifactId] = t]
        /\ replaced' = IF config[t] = NoConfig THEN replaced ELSE replaced \cup {config[t].artifactId}
        /\ kept' = [kept EXCEPT ![t] = {}] /\ Meet(r, "post", t)
        /\ UNCHANGED <<instances, closed, rows, files, pushes, faults, acked>>
    BY <1>4 DEF Post
  <2>2. form.artifactId = uploads + 1
    BY DEF Created, Uploaded
  <2>3. uploads + 1 \in Upload /\ made[uploads + 1] = Nobody
    <3>1. uploads \in Nat /\ uploads + 1 \in Upload
      BY <2>1, Sizes DEF Sorted, Upload
    <3>2. \A a \in Upload : made[a] # Nobody => a <= uploads
      BY DEF Sorted
    <3>3. QED
      BY <3>1, <3>2
  <2>4. \A a \in Upload : made'[a] = u <=> made[a] = u
    BY <2>1, <2>2, <2>3, <1>1 DEF Sorted
  <2>5. \A a \in Upload : made[a] = u => (a \in replaced' <=> a \in replaced)
    BY <2>1 DEF Sorted, Genuine
  <2>6. config'[u] = config[u] /\ kept'[u] = kept[u]
    BY <2>1 DEF Sorted
  <2>7. \A q \in Req : req'[q] = req[q] \/ (req[q].tenant # u /\ req'[q].tenant # u)
    BY <2>1, <1>2
  <2>8. (u \in torn' <=> u \in torn) /\ (u \in frayed' <=> u \in frayed) /\ (u \in clashed' <=> u \in clashed)
    BY <2>1, <1>3
  <2>9. QED
    BY <2>1, <2>4, <2>5, <2>6, <2>7, <2>8 DEF Same
<1>5. CASE OpenPage(r, t)
  <2>1. req[r] = Idle /\ Begin(r, "put", "page", t, config[t], NoInstance)
        /\ UNCHANGED <<serverVars, boundVars, made, replaced, acked, kept, torn, frayed>>
        /\ clashed' \in {clashed, clashed \cup {t}}
    BY <1>5 DEF OpenPage
  <2>2. \A q \in Req : req'[q] = req[q] \/ (req[q].tenant # u /\ req'[q].tenant # u)
    BY <2>1, <1>2
  <2>3. QED
    BY <2>1, <2>2 DEF Same, serverVars
<1>6. CASE Find(r, t) \/ Fetch(r, t)
  <2>1. \E kind, at : req[r] = Idle /\ Begin(r, kind, at, t, config[t], NoInstance) /\ Meet(r, kind, t)
    BY <1>6 DEF Find, Fetch
  <2>2. \A q \in Req : req'[q] = req[q] \/ (req[q].tenant # u /\ req'[q].tenant # u)
    BY <2>1, <1>2
  <2>3. (u \in torn' <=> u \in torn) /\ (u \in frayed' <=> u \in frayed) /\ (u \in clashed' <=> u \in clashed)
    BY <2>1, <1>3
  <2>4. UNCHANGED <<serverVars, boundVars, made, replaced, acked, kept>>
    BY <1>6 DEF Find, Fetch
  <2>5. QED
    BY <2>2, <2>3, <2>4 DEF Same, serverVars
<1>7. CASE Push(r, t)
  <2>1. req[r] = Idle /\ Begin(r, "push", "store", t, NoConfig, instances[t]) /\ Meet(r, "push", t)
        /\ UNCHANGED <<serverVars, uploads, faults, made, replaced, acked, kept>>
    BY <1>7 DEF Push
  <2>2. \A q \in Req : req'[q] = req[q] \/ (req[q].tenant # u /\ req'[q].tenant # u)
    BY <2>1, <1>2
  <2>3. (u \in torn' <=> u \in torn) /\ (u \in frayed' <=> u \in frayed) /\ (u \in clashed' <=> u \in clashed)
    BY <2>1, <1>3
  <2>4. QED
    BY <2>1, <2>2, <2>3 DEF Same, serverVars
<1>8. QED
  BY <1>4, <1>5, <1>6, <1>7

\* What all later steps of a request have in common.
LEMMA GoesOn ==
  ASSUME Sorted, Sounds, NEW r \in Req, NEW t \in Tenant, NEW u \in Tenant, u # t, req[r].tenant = t,
         (\E at : Goto(r, at)) \/ Finish(r)
            \/ (\E at, form : req' = [req EXCEPT ![r].at = at, ![r].form = form])
            \/ (\E at, got : req' = [req EXCEPT ![r].at = at, ![r].got = got])
  PROVE  \A q \in Req : req'[q] = req[q] \/ (req[q].tenant # u /\ req'[q].tenant # u)
<1>1. req \in [Req -> Request] /\ Nobody # u
  BY Values DEF Sounds
<1>2. \A q \in Req : q # r => req'[q] = req[q]
  BY <1>1 DEF Goto, Finish
<1>3. req[r].tenant # u /\ req'[r].tenant # u
  <2>1. req[r] \in Request
    BY <1>1
  <2>2. CASE \E at : Goto(r, at)
    BY <2>1, <2>2, <1>1 DEF Goto, Request
  <2>3. CASE Finish(r)
    BY <2>3, <1>1 DEF Finish, Idle
  <2>4. ASSUME NEW at, NEW form, req' = [req EXCEPT ![r].at = at, ![r].form = form] PROVE req'[r].tenant = t
    BY <2>1, <2>4, <1>1 DEF Request
  <2>5. ASSUME NEW at, NEW got, req' = [req EXCEPT ![r].at = at, ![r].got = got] PROVE req'[r].tenant = t
    BY <2>1, <2>5, <1>1 DEF Request
  <2>6. QED
    BY <2>2, <2>3, <2>4, <2>5
<1>4. QED
  BY <1>2, <1>3

\* A step of a request, other than one that ends the server.
Steps(r) ==
    \/ Boot(r) \/ Install(r) \/ Load(r) \/ Publish(r) \/ Write(r)
    \/ Check(r) \/ Save(r) \/ (Swap(r) /\ ~Dies(r)) \/ Drop(r) \/ Clear(r) \/ Forget(r) \/ Unlink(r)
    \/ Store(r) \/ Throw(r)

\* A step of a request leaves all other programs as they were.
LEMMA StepsApart ==
  ASSUME Sorted, Sounds, NEW r \in Req, NEW t \in Tenant, NEW u \in Tenant, u # t, req[r].tenant = t,
         Steps(r)
  PROVE  Same(u)
<1>1. ASSUME (\E at : Goto(r, at)) \/ Finish(r)
              \/ (\E at, form : req' = [req EXCEPT ![r].at = at, ![r].form = form])
              \/ (\E at, got : req' = [req EXCEPT ![r].at = at, ![r].got = got])
      PROVE  \A q \in Req : req'[q] = req[q] \/ (req[q].tenant # u /\ req'[q].tenant # u)
  BY <1>1, GoesOn
<1>2. ASSUME Break(r)
      PROVE  /\ \A q \in Req : req'[q] = req[q] \/ (req[q].tenant # u /\ req'[q].tenant # u)
             /\ u \in torn' <=> u \in torn
             /\ u \in frayed' <=> u \in frayed
  BY <1>1, <1>2 DEF Break
<1>3. CASE Boot(r)
  <2>1. \A q \in Req : req'[q] = req[q] \/ (req[q].tenant # u /\ req'[q].tenant # u)
    <3> DEFINE got == [id |-> FreeIdOf(t), edits |-> config[t].edits]
    <3>1. Break(r) \/ req' = [req EXCEPT ![r].at = "install", ![r].got = got]
      BY <1>3 DEF Boot, FreeIdOf
    <3> HIDE DEF got
    <3>2. QED
      BY <3>1, <1>1, <1>2
  <2>2. (u \in torn' <=> u \in torn) /\ (u \in frayed' <=> u \in frayed)
    BY <1>2, <1>3 DEF Boot
  <2>3. closed'[u] = closed[u]
    BY <1>3 DEF Boot, Sorted
  <2>4. QED
    BY <2>1, <2>2, <2>3, <1>3 DEF Boot, Same, boundVars
<1>4. CASE Install(r)
  <2>1. \A q \in Req : req'[q] = req[q] \/ (req[q].tenant # u /\ req'[q].tenant # u)
    BY <1>1, <1>4 DEF Install
  <2>2. instances'[u] = instances[u]
    BY <1>4 DEF Install, Sorted
  <2>3. QED
    BY <2>1, <2>2, <1>4 DEF Install, Same, boundVars, historyVars, markVars
<1>5. CASE Load(r)
  <2>1. \A q \in Req : req'[q] = req[q] \/ (req[q].tenant # u /\ req'[q].tenant # u)
    <3>1. CASE Break(r)
      BY <3>1, <1>2
    <3>2. CASE req' = [req EXCEPT ![r].at = "store", ![r].got = instances[req[r].tenant]]
      BY <3>2, <1>1
    <3>3. CASE Goto(r, "publish")
      BY <3>3, <1>1
    <3>4. QED
      BY <3>1, <3>2, <3>3, <1>5 DEF Load, Goto
  <2>2. (u \in torn' <=> u \in torn) /\ (u \in frayed' <=> u \in frayed)
    BY <1>2, <1>5 DEF Load
  <2>3. QED
    BY <2>1, <2>2, <1>5 DEF Load, Same, boundVars, serverVars
<1>6. CASE Publish(r)
  <2>1. \A q \in Req : req'[q] = req[q] \/ (req[q].tenant # u /\ req'[q].tenant # u)
    BY <1>1, <1>2, <1>6 DEF Publish
  <2>2. (u \in torn' <=> u \in torn) /\ (u \in frayed' <=> u \in frayed)
    BY <1>2, <1>6 DEF Publish
  <2>3. QED
    BY <2>1, <2>2, <1>6 DEF Publish, Same, boundVars, serverVars
<1>7. CASE Write(r) \/ Unlink(r)
  <2>1. \A q \in Req : req'[q] = req[q] \/ (req[q].tenant # u /\ req'[q].tenant # u)
    BY <1>1, <1>7 DEF Write, Unlink
  <2>2. req[r].form # NoConfig => made[req[r].form.artifactId] = t /\ req[r].form \in Config
    <3>1. req[r].at # "idle"
      BY <1>7 DEF Write, Unlink
    <3>2. QED
      BY <3>1, Known
  <2>3. \A a \in Upload : made[a] = u => files'[a] = files[a]
    <3>1. CASE req[r].form = NoConfig
      <4>1. ~Write(r)
        BY <3>1 DEF Write, Sounds, Sound
      <4>2. QED
        BY <4>1, <3>1, <1>7 DEF Unlink
    <3>2. CASE req[r].form # NoConfig
      BY <3>2, <2>2, <1>7 DEF Write, Unlink, Sorted
    <3>3. QED
      BY <3>1, <3>2
  <2>4. kept'[u] = kept[u]
    BY <1>7 DEF Write, Unlink, Sorted, historyVars
  <2>5. QED
    BY <2>1, <2>3, <2>4, <1>7 DEF Write, Unlink, Same, boundVars, historyVars, markVars
<1>8. CASE Check(r)
  <2>1. CASE Finish(r) /\ UNCHANGED markVars
    <3>1. \A q \in Req : req'[q] = req[q] \/ (req[q].tenant # u /\ req'[q].tenant # u)
      BY <1>1, <2>1
    <3>2. QED
      BY <2>1, <3>1, <1>8 DEF Check, Same, serverVars, markVars
  <2>2. CASE /\ req' = [req EXCEPT ![r].at = "save", ![r].form =
                    [Edited(@, uploads + 1) EXCEPT !.artifactId = config[t].artifactId]]
             /\ Meet(r, "put", t)
    <3>1. \E at, form : req' = [req EXCEPT ![r].at = at, ![r].form = form]
      BY <2>2
    <3>2. \A q \in Req : req'[q] = req[q] \/ (req[q].tenant # u /\ req'[q].tenant # u)
      BY <1>1, <3>1
    <3>3. (u \in torn' <=> u \in torn) /\ (u \in frayed' <=> u \in frayed) /\ (u \in clashed' <=> u \in clashed)
      BY <2>2 DEF Meet
    <3>4. QED
      BY <3>2, <3>3, <1>8 DEF Check, Same, serverVars
  <2>3. QED
    BY <2>1, <2>2, <1>8 DEF Check
<1>9. CASE Save(r) \/ Drop(r)
  <2>1. \A q \in Req : req'[q] = req[q] \/ (req[q].tenant # u /\ req'[q].tenant # u)
    BY <1>1, <1>9 DEF Save, Drop
  <2>2. config'[u] = config[u] /\ kept'[u] = kept[u]
    BY <1>9 DEF Save, Drop, Sorted, historyVars
  <2>3. QED
    BY <2>1, <2>2, <1>9 DEF Save, Drop, Same, boundVars, historyVars, markVars
<1>10. CASE Swap(r) /\ ~Dies(r)
  <2>1. \A q \in Req : req'[q] = req[q] \/ (req[q].tenant # u /\ req'[q].tenant # u)
    BY <1>1, <1>10 DEF Swap
  <2>2. closed'[u] = closed[u] /\ UNCHANGED <<instances, torn, frayed>>
    BY <1>10 DEF Swap, Sorted
  <2>3. QED
    BY <2>1, <2>2, <1>10 DEF Swap, Same, boundVars
<1>11. CASE Clear(r)
  <2>1. \A q \in Req : req'[q] = req[q] \/ (req[q].tenant # u /\ req'[q].tenant # u)
    BY <1>1, <1>2, <1>11 DEF Clear
  <2>2. (u \in torn' <=> u \in torn) /\ (u \in frayed' <=> u \in frayed)
    BY <1>2, <1>11 DEF Clear
  <2>3. rows'[u] = rows[u] /\ acked'[u] = acked[u]
    BY <1>11 DEF Clear, Sorted
  <2>4. QED
    BY <2>1, <2>2, <2>3, <1>11 DEF Clear, Same, boundVars
<1>12. CASE Forget(r)
  <2>1. \A q \in Req : req'[q] = req[q] \/ (req[q].tenant # u /\ req'[q].tenant # u)
    BY <1>1, <1>12 DEF Forget
  <2>2. instances'[u] = instances[u]
    BY <1>12 DEF Forget, Sorted
  <2>3. QED
    BY <2>1, <2>2, <1>12 DEF Forget, Same, boundVars, historyVars, markVars
<1>13. CASE Store(r)
  <2>1. \A q \in Req : req'[q] = req[q] \/ (req[q].tenant # u /\ req'[q].tenant # u)
    BY <1>1, <1>13 DEF Store
  <2>2. rows'[u] = rows[u] /\ acked'[u] = acked[u]
    BY <1>13 DEF Store, Sorted
  <2>3. QED
    BY <2>1, <2>2, <1>13 DEF Store, Same, boundVars, markVars
<1>14. CASE Throw(r)
  BY <1>2, <1>14 DEF Throw, Same, serverVars
<1>15. QED
  BY <1>3, <1>4, <1>5, <1>6, <1>7, <1>8, <1>9, <1>10, <1>11, <1>12, <1>13, <1>14 DEF Steps

-----------------------------------------------------------------------------
(* The second layer, for the program of the step. The request that changes *)
(* it is alone with it, so that it stands where it has come to, or is over.*)

\* The one request that changes a program goes on to its next stage, or is over.
LEMMA Advance ==
  ASSUME Sounds, NEW r \in Req, NEW t \in Tenant, Changing(r, t), Apart(t),
         \A q \in Req : q # r => req'[q] = req[q],
         req'[r] = Idle \/ (req'[r].kind = req[r].kind /\ req'[r].tenant = t /\ req'[r].at \notin {"idle", "page"}),
         req'[r] = Idle => Settled(t)',
         req'[r] # Idle => Stage(r, t)'
  PROVE  Apart(t)' /\ Staged(t)'
<1>1. \A q \in Req : q # r => ~Served(q, t)
  BY DEF Apart
<1>2. \A q \in Req : q # r => ~Served(q, t)'
  BY <1>1 DEF Served, Working
<1>3. req'[r] = Idle => ~Served(r, t)'
  BY DEF Served, Working, Idle
<1>4. req'[r] # Idle => Changing(r, t)'
  BY DEF Changing, Served, Working
<1>5. Apart(t)'
  BY <1>2 DEF Apart, Changing
<1>6. Staged(t)'
  BY <1>2, <1>3, <1>4 DEF Staged, Resting
<1>7. QED
  BY <1>5, <1>6

\* The places are told apart by their names.
LEMMA StageIs ==
  ASSUME NEW r \in Req, NEW t \in Tenant, Stage(r, t)
  PROVE  /\ req[r].at = "boot" => config[t] # NoConfig
         /\ req[r].at = "install" => /\ config[t] # NoConfig /\ req[r].got.edits = config[t].edits
                                     /\ req[r].got.id \notin closed[t]
         /\ req[r].at = "store" => Serves(t) /\ req[r].got.id \notin closed[t]
         /\ req[r].at \in {"load", "publish", "write", "save"} => Serves(t)
         /\ req[r].at = "swap" => config[t] # NoConfig /\ Running(t)
         /\ req[r].at = "drop" => Settled(t)
         /\ req[r].at = "clear" => /\ config[t] = NoConfig
                                   /\ IF instances[t] = NoInstance THEN Emptied(t) ELSE Running(t)
         /\ req[r].at = "forget" => config[t] = NoConfig /\ Emptied(t)
         /\ req[r].at = "unlink" => config[t] = NoConfig /\ instances[t] = NoInstance /\ Emptied(t)
         /\ req[r].at \in {"boot", "install", "store", "load", "publish", "write", "save", "swap", "drop",
                           "clear", "forget", "unlink"}
BY DEF Stage

\* A step that only moves the request.
LEMMA AtIs ==
  ASSUME Sounds, NEW r \in Req, NEW at, Goto(r, at)
  PROVE  /\ \A q \in Req : q # r => req'[q] = req[q]
         /\ req'[r].at = at /\ req'[r].kind = req[r].kind /\ req'[r].tenant = req[r].tenant
         /\ req'[r].form = req[r].form /\ req'[r].got = req[r].got
BY DEF Goto, Sounds, Request

\* Where a request is that has ended,
LEMMA FinishIs ==
  ASSUME Sounds, NEW r \in Req, Finish(r)
  PROVE  (\A q \in Req : q # r => req'[q] = req[q]) /\ req'[r] = Idle
BY DEF Finish, Sounds

\* one that goes on with another form,
LEMMA AtFormIs ==
  ASSUME Sounds, NEW r \in Req, NEW at, NEW form, req' = [req EXCEPT ![r].at = at, ![r].form = form]
  PROVE  /\ \A q \in Req : q # r => req'[q] = req[q]
         /\ req'[r].at = at /\ req'[r].kind = req[r].kind /\ req'[r].tenant = req[r].tenant
         /\ req'[r].form = form /\ req'[r].got = req[r].got
BY DEF Sounds, Request

\* and one that goes on with another instance.
LEMMA AtGotIs ==
  ASSUME Sounds, NEW r \in Req, NEW at, NEW got, req' = [req EXCEPT ![r].at = at, ![r].got = got]
  PROVE  /\ \A q \in Req : q # r => req'[q] = req[q]
         /\ req'[r].at = at /\ req'[r].kind = req[r].kind /\ req'[r].tenant = req[r].tenant
         /\ req'[r].form = req[r].form /\ req'[r].got = got
BY DEF Sounds, Request

\* POST, and the steps that PUT shares with it.
LEMMA PostTidy ==
  ASSUME Sorted, Sounds, NEW r \in Req, NEW t \in Tenant, Changing(r, t), Apart(t), Stage(r, t),
         Boot(r) \/ Install(r) \/ Load(r) \/ Store(r) \/ Publish(r) \/ Write(r), t \notin torn'
  PROVE  Apart(t)' /\ Staged(t)'
<1>1. req[r].tenant = t /\ req[r].kind \in Admin /\ ~Break(r)
  BY DEF Changing, Served, Break
<1>2. CASE Boot(r)
  <2> DEFINE got == [id |-> FreeIdOf(t), edits |-> config[t].edits]
  <2>1. config[t] # NoConfig
    BY <1>2, StageIs DEF Boot
  <2>2. /\ req' = [req EXCEPT ![r].at = "install", ![r].got = got]
        /\ closed' = [closed EXCEPT ![t] = @ \ {FreeIdOf(t)}] /\ config' = config
    BY <2>1, <1>1, <1>2 DEF Boot, FreeIdOf
  <2>3. got.edits = config[t].edits /\ got.id \notin closed'[t]
    BY <2>2 DEF Sorted
  <2> HIDE DEF got
  <2>4. /\ \A q \in Req : q # r => req'[q] = req[q]
        /\ req'[r].at = "install" /\ req'[r].kind = req[r].kind /\ req'[r].tenant = t /\ req'[r].got = got
    BY <2>2, <1>1 DEF Sounds, Request
  <2>5. config'[t] # NoConfig /\ req'[r].got.edits = config'[t].edits /\ req'[r].got.id \notin closed'[t]
    BY <2>1, <2>2, <2>3, <2>4
  <2>6. Stage(r, t)' /\ req'[r] # Idle
    BY <2>4, <2>5 DEF Stage, Idle
  <2>7. QED
    BY <2>4, <2>6, <1>1, Advance
<1>3. CASE Install(r)
  <2> DEFINE at == IF req[r].kind = "post" THEN "load" ELSE "publish"
  <2>1. /\ instances' = [instances EXCEPT ![t] = req[r].got]
        /\ req' = [req EXCEPT ![r].at = at, ![r].got = NoInstance] /\ UNCHANGED <<config, closed>>
    BY <1>1, <1>3 DEF Install
  <2>2. at \in {"load", "publish"}
    OBVIOUS
  <2> HIDE DEF at
  <2>3. /\ \A q \in Req : q # r => req'[q] = req[q]
        /\ req'[r].at = at /\ req'[r].kind = req[r].kind /\ req'[r].tenant = t
    BY <2>1, <1>1, AtGotIs
  <2>4. config[t] # NoConfig /\ req[r].got.edits = config[t].edits /\ req[r].got.id \notin closed[t]
        /\ req[r].got # NoInstance
    BY <1>3, StageIs DEF Install, Sounds, Sound
  <2>5. Serves(t)'
    BY <2>1, <2>4 DEF Serves, Running, Sorted
  <2>6. Stage(r, t)' /\ req'[r] # Idle
    BY <2>2, <2>3, <2>5 DEF Stage, Idle
  <2>7. QED
    BY <2>2, <2>3, <2>6, <1>1, Advance
<1>4. CASE Load(r)
  <2>1. Serves(t)
    BY <1>4, StageIs DEF Load
  <2>2. config[t] # NoConfig /\ instances[t] # NoInstance /\ instances[t].id \notin closed[t]
    BY <2>1 DEF Serves, Running
  <2>3. UNCHANGED serverVars
    BY <1>4 DEF Load
  <2>4. Serves(t)'
    BY <2>1, <2>3 DEF Serves, Running, serverVars
  <2>5. CASE req' = [req EXCEPT ![r].at = "store", ![r].got = instances[t]]
    <3>1. /\ \A q \in Req : q # r => req'[q] = req[q]
          /\ req'[r].at = "store" /\ req'[r].kind = req[r].kind /\ req'[r].tenant = t /\ req'[r].got = instances[t]
      BY <2>5, <1>1 DEF Sounds, Request
    <3>2. Stage(r, t)' /\ req'[r] # Idle
      BY <3>1, <2>2, <2>3, <2>4 DEF Stage, Idle, serverVars
    <3>3. QED
      BY <3>1, <3>2, <1>1, Advance
  <2>6. CASE Goto(r, "publish")
    <3>1. /\ \A q \in Req : q # r => req'[q] = req[q]
          /\ req'[r].at = "publish" /\ req'[r].kind = req[r].kind /\ req'[r].tenant = t
      BY <2>6, <1>1, AtIs
    <3>2. Stage(r, t)' /\ req'[r] # Idle
      BY <3>1, <2>4 DEF Stage, Idle
    <3>3. QED
      BY <3>1, <3>2, <1>1, Advance
  <2>7. QED
    BY <2>2, <2>5, <2>6, <1>1, <1>4 DEF Load, Goto
<1>5. CASE Store(r)
  <2>1. Serves(t)
    BY <1>5, StageIs DEF Store
  <2>2. req[r].event = 0
    BY <1>1 DEF Sounds, Sound, Admin
  <2>3. req' = [req EXCEPT ![r].at = "publish", ![r].got = NoInstance] /\ UNCHANGED <<config, instances, closed>>
    BY <2>2, <1>5 DEF Store
  <2>4. Serves(t)'
    BY <2>1, <2>3 DEF Serves, Running
  <2>5. /\ \A q \in Req : q # r => req'[q] = req[q]
        /\ req'[r].at = "publish" /\ req'[r].kind = req[r].kind /\ req'[r].tenant = t
    BY <2>3, <1>1, AtGotIs
  <2>6. Stage(r, t)' /\ req'[r] # Idle
    BY <2>4, <2>5 DEF Stage, Idle
  <2>7. QED
    BY <2>5, <2>6, <1>1, Advance
<1>6. CASE Publish(r)
  <2>1. Serves(t) /\ config[t] # NoConfig
    BY <1>6, StageIs DEF Publish, Serves
  <2>2. req' = [req EXCEPT ![r].at = "write", ![r].form = config[t]] /\ UNCHANGED serverVars
    BY <2>1, <1>1, <1>6 DEF Publish
  <2>3. Serves(t)'
    BY <2>1, <2>2 DEF Serves, Running, serverVars
  <2>4. /\ \A q \in Req : q # r => req'[q] = req[q]
        /\ req'[r].at = "write" /\ req'[r].kind = req[r].kind /\ req'[r].tenant = t
    BY <2>2, <1>1, AtFormIs
  <2>5. Stage(r, t)' /\ req'[r] # Idle
    BY <2>3, <2>4 DEF Stage, Idle
  <2>6. QED
    BY <2>4, <2>5, <1>1, Advance
<1>7. CASE Write(r)
  <2>1. Serves(t) /\ Finish(r) /\ UNCHANGED <<config, instances, closed>>
    BY <1>7, StageIs DEF Write
  <2>2. Serves(t)' /\ config'[t] # NoConfig
    BY <2>1 DEF Serves, Running
  <2>3. Settled(t)'
    BY <2>2 DEF Settled
  <2>4. QED
    BY <2>1, <2>3, FinishIs, Advance
<1>8. QED
  BY <1>2, <1>3, <1>4, <1>5, <1>6, <1>7

\* PUT and DELETE.
LEMMA PutTidy ==
  ASSUME Sorted, Sounds, NEW r \in Req, NEW t \in Tenant, Changing(r, t), Apart(t), Stage(r, t),
         Save(r) \/ Swap(r), ~Dies(r)
  PROVE  Apart(t)' /\ Staged(t)'
<1>1. req[r].tenant = t /\ req[r].kind \in Admin
  BY DEF Changing, Served
<1>2. CASE Save(r)
  <2>1. Serves(t) /\ req[r].form # NoConfig
    BY <1>2, StageIs DEF Save, Sounds, Sound
  <2>2. config' = [config EXCEPT ![t] = req[r].form] /\ Goto(r, "swap") /\ UNCHANGED <<instances, closed>>
    BY <1>1, <1>2 DEF Save
  <2>3. config'[t] # NoConfig /\ Running(t)'
    BY <2>1, <2>2 DEF Serves, Running, Sorted
  <2>4. /\ \A q \in Req : q # r => req'[q] = req[q]
        /\ req'[r].at = "swap" /\ req'[r].kind = req[r].kind /\ req'[r].tenant = t
    BY <2>2, <1>1, AtIs
  <2>5. Stage(r, t)' /\ req'[r] # Idle
    BY <2>3, <2>4 DEF Stage, Idle
  <2>6. QED
    BY <2>4, <2>5, <1>1, Advance
<1>3. CASE Swap(r)
  <2>1. config[t] # NoConfig /\ Running(t)
    BY <1>3, StageIs DEF Swap
  <2>2. Goto(r, "boot") /\ UNCHANGED config
    BY <2>1, <1>1, <1>3 DEF Swap, Running
  <2>3. /\ \A q \in Req : q # r => req'[q] = req[q]
        /\ req'[r].at = "boot" /\ req'[r].kind = req[r].kind /\ req'[r].tenant = t
    BY <2>2, <1>1, AtIs
  <2>4. Stage(r, t)' /\ req'[r] # Idle
    BY <2>1, <2>2, <2>3 DEF Stage, Idle
  <2>5. QED
    BY <2>3, <2>4, <1>1, Advance
<1>4. QED
  BY <1>2, <1>3

\* A DELETE keeps its program tidy,
LEMMA DeleteTidy ==
  ASSUME Sorted, Sounds, NEW r \in Req, NEW t \in Tenant, Changing(r, t), Apart(t), Stage(r, t),
         Drop(r) \/ Clear(r) \/ Forget(r) \/ Unlink(r), t \notin torn'
  PROVE  Apart(t)' /\ Staged(t)'
<1>1. req[r].tenant = t /\ req[r].kind \in Admin /\ ~Break(r)
  BY DEF Changing, Served, Break
<1>2. ASSUME NEW at \in {"clear", "forget", "unlink"}, Goto(r, at), req'[r].at = at => Stage(r, t)'
      PROVE  Apart(t)' /\ Staged(t)'
  <2>1. /\ \A q \in Req : q # r => req'[q] = req[q]
        /\ req'[r].at = at /\ req'[r].kind = req[r].kind /\ req'[r].tenant = t
    BY <1>2, <1>1, AtIs
  <2>2. Stage(r, t)' /\ req'[r] # Idle
    BY <2>1, <1>2 DEF Idle
  <2>3. QED
    BY <2>1, <2>2, <1>1, Advance
<1>3. CASE Drop(r)
  <2>1. Settled(t)
    BY <1>3, StageIs DEF Drop
  <2>2. config' = [config EXCEPT ![t] = NoConfig] /\ Goto(r, "clear")
        /\ UNCHANGED <<instances, closed, rows, frayed>>
    BY <1>1, <1>3 DEF Drop, markVars
  <2>3. config'[t] = NoConfig
    BY <2>2 DEF Sorted
  <2>4. IF instances'[t] = NoInstance THEN Emptied(t)' ELSE Running(t)'
    BY <2>1, <2>2 DEF Settled, Serves, Running, Emptied
  <2>5. req'[r].at = "clear" => Stage(r, t)'
    BY <2>3, <2>4 DEF Stage
  <2>6. QED
    BY <2>2, <2>5, <1>2
<1>4. CASE Clear(r)
  <2>1. config[t] = NoConfig /\ IF instances[t] = NoInstance THEN Emptied(t) ELSE Running(t)
    BY <1>4, StageIs DEF Clear
  <2>2. UNCHANGED <<config, instances>>
    BY <1>4 DEF Clear
  <2>3. CASE instances[t] = NoInstance
    <3>1. Goto(r, "unlink") /\ UNCHANGED <<rows, frayed>>
      BY <2>3, <1>1, <1>4 DEF Clear
    <3>2. Emptied(t)'
      BY <2>1, <2>3, <3>1 DEF Emptied
    <3>3. req'[r].at = "unlink" => Stage(r, t)'
      BY <3>2, <2>1, <2>2, <2>3 DEF Stage
    <3>4. QED
      BY <3>1, <3>3, <1>2
  <2>4. CASE instances[t] # NoInstance
    <3>1. Goto(r, "forget") /\ rows' = [rows EXCEPT ![t] = {}]
      BY <2>1, <2>4, <1>1, <1>4 DEF Clear, Running
    <3>2. Emptied(t)'
      BY <3>1 DEF Emptied, Sorted
    <3>3. req'[r].at = "forget" => Stage(r, t)'
      BY <3>2, <2>1, <2>2 DEF Stage
    <3>4. QED
      BY <3>1, <3>3, <1>2
  <2>5. QED
    BY <2>3, <2>4
<1>5. CASE Forget(r)
  <2>1. config[t] = NoConfig /\ Emptied(t)
    BY <1>5, StageIs DEF Forget
  <2>2. instances' = [instances EXCEPT ![t] = NoInstance] /\ Goto(r, "unlink")
        /\ UNCHANGED <<config, rows, frayed>>
    BY <1>1, <1>5 DEF Forget, historyVars, markVars
  <2>3. instances'[t] = NoInstance /\ config'[t] = NoConfig /\ Emptied(t)'
    BY <2>1, <2>2 DEF Sorted, Emptied
  <2>4. req'[r].at = "unlink" => Stage(r, t)'
    BY <2>3 DEF Stage
  <2>5. QED
    BY <2>2, <2>4, <1>2
<1>6. CASE Unlink(r)
  <2>1. config[t] = NoConfig /\ instances[t] = NoInstance /\ Emptied(t)
    BY <1>6, StageIs DEF Unlink
  <2>2. Finish(r) /\ UNCHANGED <<config, instances, rows, frayed>>
    BY <1>6 DEF Unlink, historyVars, markVars
  <2>3. Settled(t)'
    BY <2>1, <2>2 DEF Settled, Emptied
  <2>4. QED
    BY <2>2, <2>3, FinishIs, Advance
<1>7. QED
  BY <1>3, <1>4, <1>5, <1>6

\* A request that may change the program begins, and meets nobody.
LEMMA Enter ==
  ASSUME NEW r \in Req, NEW t \in Tenant,
         \A q \in Req : q # r => ~Served(q, t),
         \A q \in Req : q # r => req'[q] = req[q],
         req'[r].kind \in Admin /\ req'[r].tenant = t /\ Working(r)' /\ Stage(r, t)'
  PROVE  Apart(t)' /\ Staged(t)'
<1>1. \A q \in Req : q # r => ~Served(q, t)'
  BY DEF Served, Working
<1>2. Changing(r, t)'
  BY DEF Changing, Served
<1>3. QED
  BY <1>1, <1>2 DEF Apart, Staged, Resting, Changing

\* Where a push or a download may be.
LEMMA Places ==
  ASSUME Sounds, NEW q \in Req, NEW t \in Tenant, Served(q, t), ~Changing(q, t)
  PROVE  req[q].at \in {"store", "write"} /\ req[q].kind \in {"push", "get"}
<1>1. Sound(req[q], made, uploads, pushes) /\ req[q] \in Request
  BY DEF Sounds
<1>2. req[q].kind \notin Admin /\ req[q].at \notin {"idle", "page"}
  BY DEF Changing, Served, Working
<1>3. req[q].at \in At /\ req[q].kind \in Admin \cup {"none", "push", "get"}
  BY <1>1 DEF Request
<1>4. QED
  BY <1>1, <1>2, <1>3 DEF Sound, Admin, At

\* A step while no request changes the program.
LEMMA Quietly ==
  ASSUME Sounds, NEW r \in Req, NEW t \in Tenant, Resting(t), Staged(t),
         config'[t] = config[t], instances'[t] = instances[t], closed'[t] = closed[t],
         \A q \in Req : q # r => req'[q] = req[q],
         ~Changing(r, t)', Served(r, t)' => Stage(r, t)', Settled(t)'
  PROVE  Apart(t)' /\ Staged(t)'
<1>1. ASSUME NEW q \in Req, q # r
      PROVE  ~Changing(q, t)' /\ (Served(q, t)' => Stage(q, t)')
  <2>1. ~Changing(q, t)'
    BY <1>1 DEF Resting, Changing, Served, Working
  <2>2. ASSUME Served(q, t)' PROVE Stage(q, t)'
    <3>1. Served(q, t) /\ ~Changing(q, t)
      BY <1>1, <2>2 DEF Served, Working, Resting
    <3>2. req[q].at \in {"store", "write"} /\ Stage(q, t)
      BY <3>1, Places DEF Staged
    <3>3. Serves(t) /\ (req[q].at = "store" => req[q].got.id \notin closed[t])
      BY <3>2, StageIs
    <3>4. Serves(t)'
      BY <3>3 DEF Serves, Running
    <3>5. QED
      BY <1>1, <3>2, <3>3, <3>4 DEF Stage
  <2>3. QED
    BY <2>1, <2>2
<1>2. Resting(t)'
  BY <1>1 DEF Resting
<1>3. QED
  BY <1>1, <1>2 DEF Apart, Staged, Resting

\* No request for the program is under way when one that may change it begins.
LEMMA MeetsNobody ==
  ASSUME NEW r \in Req, NEW t \in Tenant, NEW kind \in Admin, Meet(r, kind, t), t \notin torn',
         ~Served(r, t), Staged(t)
  PROVE  (\A q \in Req : ~Served(q, t)) /\ Settled(t)
<1>1. ASSUME NEW q \in Req PROVE ~Served(q, t)
  BY DEF Meet, Served
<1>2. QED
  BY <1>1 DEF Staged, Resting, Changing

\* as does a request that begins,
LEMMA BeginsTidy ==
  ASSUME Sorted, Sounds, NEW r \in Req, NEW t \in Tenant, Apart(t), Staged(t), t \notin torn',
         (\E form \in {Created(uploads + 1), Uploaded(uploads + 1)} : Post(r, t, form))
            \/ OpenPage(r, t) \/ Find(r, t) \/ Push(r, t) \/ Fetch(r, t)
  PROVE  Apart(t)' /\ Staged(t)'
<1>1. req \in [Req -> Request] /\ req[r] = Idle /\ ~Served(r, t)
  BY DEF Sounds, Post, OpenPage, Find, Push, Fetch, Served, Working, Idle
<1>2. ASSUME NEW kind, NEW at, NEW form, NEW got, Begin(r, kind, at, t, form, got)
      PROVE  /\ \A q \in Req : q # r => req'[q] = req[q]
             /\ req'[r].kind = kind /\ req'[r].at = at /\ req'[r].tenant = t
             /\ req'[r].form = form /\ req'[r].got = got
  BY <1>1, <1>2 DEF Begin
<1>3. ASSUME NEW form \in {Created(uploads + 1), Uploaded(uploads + 1)}, Post(r, t, form)
      PROVE  Apart(t)' /\ Staged(t)'
  <2>1. /\ Begin(r, "post", "boot", t, NoConfig, NoInstance) /\ Meet(r, "post", t)
        /\ config' = [config EXCEPT ![t] = form] /\ uploads < MaxUploads
    BY <1>3 DEF Post
  <2>2. /\ \A q \in Req : q # r => req'[q] = req[q]
        /\ req'[r].kind = "post" /\ req'[r].at = "boot" /\ req'[r].tenant = t
    BY <2>1, <1>2
  <2>3. \A q \in Req : ~Served(q, t)
    <3>1. "post" \in Admin
      BY DEF Admin
    <3>2. QED
      BY <3>1, <2>1, <1>1, MeetsNobody
  <2>4. config'[t] # NoConfig
    <3>1. uploads + 1 \in Upload
      BY <2>1, Sizes DEF Sorted, Upload
    <3>2. form \in Config
      BY <3>1, FormIs
    <3>3. QED
      BY <3>2, <2>1, Values DEF Sorted
  <2>5. Stage(r, t)' /\ Working(r)' /\ req'[r].kind \in Admin
    BY <2>2, <2>4 DEF Stage, Working, Admin
  <2>6. QED
    BY <2>2, <2>3, <2>5, Enter
<1>4. CASE Find(r, t)
  <2>1. /\ Begin(r, "delete", "drop", t, config[t], NoInstance) /\ Meet(r, "delete", t)
        /\ UNCHANGED serverVars
    BY <1>4 DEF Find
  <2>2. /\ \A q \in Req : q # r => req'[q] = req[q]
        /\ req'[r].kind = "delete" /\ req'[r].at = "drop" /\ req'[r].tenant = t
    BY <2>1, <1>2
  <2>3. (\A q \in Req : ~Served(q, t)) /\ Settled(t)
    <3>1. "delete" \in Admin
      BY DEF Admin
    <3>2. QED
      BY <3>1, <2>1, <1>1, MeetsNobody
  <2>4. Settled(t)'
    BY <2>1, <2>3 DEF Settled, Serves, Running, Emptied, Meet, serverVars
  <2>5. Stage(r, t)' /\ Working(r)' /\ req'[r].kind \in Admin
    BY <2>2, <2>4 DEF Stage, Working, Admin
  <2>6. QED
    BY <2>2, <2>3, <2>5, Enter
<1>5. CASE OpenPage(r, t)
  <2>1. Begin(r, "put", "page", t, config[t], NoInstance) /\ UNCHANGED <<serverVars, frayed>>
    BY <1>5 DEF OpenPage
  <2>2. (\A q \in Req : q # r => req'[q] = req[q]) /\ req'[r].at = "page"
    BY <2>1, <1>2
  <2>3. \A q \in Req : (Served(q, t)' <=> Served(q, t)) /\ (Served(q, t) => req'[q] = req[q])
    BY <2>2, <1>1 DEF Served, Working
  <2>4. \A q \in Req : Changing(q, t)' <=> Changing(q, t)
    BY <2>3 DEF Changing
  <2>5. Apart(t)'
    BY <2>3, <2>4 DEF Apart
  <2>6. Settled(t)' <=> Settled(t)
    BY <2>1 DEF Settled, Serves, Running, Emptied, serverVars
  <2>7. ASSUME NEW q \in Req, Served(q, t)' PROVE Stage(q, t)'
    <3>1. Stage(q, t) /\ req'[q] = req[q]
      BY <2>3, <2>7 DEF Staged
    <3>2. QED
      BY <3>1, <2>1, <2>6 DEF Stage, Serves, Running, Emptied, serverVars
  <2>8. QED
    BY <2>4, <2>5, <2>6, <2>7 DEF Staged, Resting
<1>6. CASE Push(r, t) \/ Fetch(r, t)
  <2>1. /\ UNCHANGED serverVars
        /\ \/ /\ Begin(r, "push", "store", t, NoConfig, instances[t]) /\ Meet(r, "push", t)
              /\ instances[t] # NoInstance
           \/ /\ Begin(r, "get", "write", t, config[t], NoInstance) /\ Meet(r, "get", t)
              /\ config[t] # NoConfig
    BY <1>6 DEF Push, Fetch
  <2>2. /\ \A q \in Req : q # r => req'[q] = req[q]
        /\ \/ req'[r].kind = "push" /\ req'[r].at = "store" /\ req'[r].got = instances[t]
           \/ req'[r].kind = "get" /\ req'[r].at = "write"
    BY <2>1, <1>2
  <2>3. Resting(t)
    <3>1. ASSUME NEW q \in Req, Changing(q, t) PROVE FALSE
      BY <3>1, <2>1, <1>1 DEF Changing, Served, Meet
    <3>2. QED
      BY <3>1 DEF Resting
  <2>4. Settled(t)
    BY <2>3 DEF Staged
  <2>5. Serves(t)
    BY <2>1, <2>4 DEF Settled
  <2>6. Serves(t)' /\ Settled(t)'
    BY <2>1, <2>5 DEF Serves, Running, Settled, serverVars
  <2>7. Stage(r, t)' /\ ~Changing(r, t)'
    BY <2>1, <2>2, <2>5, <2>6 DEF Stage, Changing, Admin, Serves, Running, serverVars
  <2>8. QED
    BY <2>1, <2>2, <2>3, <2>6, <2>7, Quietly DEF serverVars
<1>7. QED
  BY <1>3, <1>4, <1>5, <1>6

\* An edit page sends its form, or finds the program gone.
LEMMA CheckTidy ==
  ASSUME Sorted, Sounds, NEW r \in Req, NEW t \in Tenant, req[r].tenant = t, Apart(t), Staged(t),
         Check(r), t \notin torn'
  PROVE  Apart(t)' /\ Staged(t)'
<1>1. req[r].at = "page" /\ ~Served(r, t) /\ UNCHANGED serverVars
  BY DEF Check, Served, Working
<1>2. req[r].kind = "put"
  BY <1>1 DEF Sounds, Sound
<1>3. CASE Finish(r) /\ UNCHANGED markVars
  <2>1. (\A q \in Req : q # r => req'[q] = req[q]) /\ req'[r] = Idle
    BY <1>3, FinishIs
  <2>2. \A q \in Req : (Served(q, t)' <=> Served(q, t)) /\ (Served(q, t) => req'[q] = req[q])
    BY <2>1, <1>1 DEF Served, Working, Idle
  <2>3. \A q \in Req : Changing(q, t)' <=> Changing(q, t)
    BY <2>2 DEF Changing
  <2>4. Apart(t)'
    BY <2>2, <2>3 DEF Apart
  <2>5. Settled(t)' <=> Settled(t)
    BY <1>1, <1>3 DEF Settled, Serves, Running, Emptied, serverVars, markVars
  <2>6. ASSUME NEW q \in Req, Served(q, t)' PROVE Stage(q, t)'
    <3>1. Stage(q, t) /\ req'[q] = req[q]
      BY <2>2, <2>6 DEF Staged
    <3>2. QED
      BY <3>1, <1>1, <1>3, <2>5 DEF Stage, Serves, Running, Emptied, serverVars, markVars
  <2>7. QED
    BY <2>3, <2>4, <2>5, <2>6 DEF Staged, Resting
<1>4. CASE /\ config[t] # NoConfig
           /\ req' = [req EXCEPT ![r].at = "save", ![r].form =
                    [Edited(@, uploads + 1) EXCEPT !.artifactId = config[t].artifactId]]
           /\ Meet(r, "put", t)
  <2>1. /\ \A q \in Req : q # r => req'[q] = req[q]
        /\ req'[r].at = "save" /\ req'[r].kind = "put" /\ req'[r].tenant = t
    BY <1>2, <1>4 DEF Sounds, Request
  <2>2. (\A q \in Req : ~Served(q, t)) /\ Settled(t)
    <3>1. "put" \in Admin
      BY DEF Admin
    <3>2. QED
      BY <3>1, <1>1, <1>4, MeetsNobody
  <2>3. Serves(t)'
    BY <2>2, <1>1, <1>4 DEF Settled, Serves, Running, serverVars
  <2>4. Stage(r, t)' /\ Working(r)' /\ req'[r].kind \in Admin
    BY <2>1, <2>3 DEF Stage, Working, Admin
  <2>5. QED
    BY <2>1, <2>2, <2>4, Enter
<1>5. QED
  BY <1>3, <1>4 DEF Check

\* A push stores its event, a download writes the file.
LEMMA OthersTidy ==
  ASSUME Sorted, Sounds, NEW r \in Req, NEW t \in Tenant, Served(r, t), ~Changing(r, t),
         Apart(t), Staged(t), Store(r) \/ Write(r)
  PROVE  Apart(t)' /\ Staged(t)'
<1>1. req[r].kind \in {"push", "get"} /\ req[r].at \in {"store", "write"} /\ req[r].tenant = t
  BY Places DEF Served
<1>2. Resting(t)
  <2>1. ASSUME NEW q \in Req, Changing(q, t) PROVE FALSE
    BY <2>1 DEF Apart
  <2>2. QED
    BY <2>1 DEF Resting
<1>3. Serves(t)
  <2>1. Stage(r, t)
    BY DEF Staged
  <2>2. QED
    BY <2>1, <1>1, StageIs
<1>4. Finish(r) /\ UNCHANGED <<config, instances, closed>>
  <2>1. Store(r) => req[r].event # 0
    BY <1>1 DEF Store, Sounds, Sound
  <2>2. QED
    BY <2>1 DEF Store, Write
<1>5. (\A q \in Req : q # r => req'[q] = req[q]) /\ req'[r] = Idle
  BY <1>4, FinishIs
<1>6. ~Served(r, t)' /\ ~Changing(r, t)'
  BY <1>5 DEF Changing, Served, Working, Idle
<1>7. Settled(t)'
  BY <1>3, <1>4 DEF Settled, Serves, Running
<1>8. QED
  BY <1>2, <1>4, <1>5, <1>6, <1>7, Quietly

\* and every step of a request.
LEMMA StepsTidy ==
  ASSUME Sorted, Sounds, NEW r \in Req, NEW t \in Tenant, req[r].tenant = t, Apart(t), Staged(t),
         Steps(r), t \notin torn'
  PROVE  Apart(t)' /\ Staged(t)'
<1>1. CASE Check(r)
  BY <1>1, CheckTidy
<1>2. CASE ~Check(r)
  <2>1. req[r].at \notin {"idle", "page"}
    BY <1>2 DEF Steps, Boot, Install, Load, Publish, Write, Save, Swap, Drop, Clear, Forget, Unlink, Store,
                Throw, Working
  <2>2. Served(r, t)
    BY <2>1 DEF Served, Working
  <2>3. Stage(r, t)
    BY <2>2 DEF Staged
  <2>4. CASE Changing(r, t)
    BY <2>3, <2>4, <1>2, PostTidy, PutTidy, DeleteTidy DEF Steps, Throw, Break, Save, Dies
  <2>5. CASE ~Changing(r, t)
    <3>1. req[r].at \in {"store", "write"}
      BY <2>2, <2>5, Places
    <3>2. Store(r) \/ Write(r)
      BY <3>1, <1>2 DEF Steps, Boot, Install, Load, Publish, Save, Swap, Drop, Clear, Forget, Unlink,
                        Throw, Break
    <3>3. QED
      BY <3>2, <2>2, <2>5, OthersTidy
  <2>6. QED
    BY <2>4, <2>5
<1>3. QED
  BY <1>1, <1>2

\* After a start of the server every program is at rest.
LEMMA StartTidy ==
  ASSUME Sorted, Sounds, NEW t \in Tenant, t \notin torn => Staged(t), Start, UNCHANGED <<config, rows>>,
         frayed' = frayed \cup {u \in Tenant : ~Quiet(u)}
  PROVE  Apart(t)' /\ Staged(t)'
<1>1. \A q \in Req : ~Served(q, t)'
  BY DEF Start, Served, Working, Idle
<1>2. Settled(t)'
  <2>1. CASE config[t] = NoConfig
    <3>1. instances'[t] = NoInstance
      BY <2>1 DEF Start
    <3>2. Emptied(t)'
      <4>1. CASE t \in frayed'
        BY <4>1 DEF Emptied
      <4>2. CASE t \notin frayed'
        <5>1. t \notin torn /\ t \notin frayed /\ Quiet(t)
          BY <4>2 DEF Sorted
        <5>2. Resting(t)
          BY <5>1 DEF Quiet, Resting, Changing, Served
        <5>3. QED
          BY <5>1, <5>2, <2>1 DEF Staged, Settled, Emptied
      <4>3. QED
        BY <4>1, <4>2
    <3>3. QED
      BY <3>1, <3>2, <2>1 DEF Settled
  <2>2. CASE config[t] # NoConfig
    <3>1. instances'[t] = [id |-> 1, edits |-> config[t].edits] /\ closed'[t] = {}
      BY <2>2 DEF Start
    <3>2. instances'[t] # NoInstance
      <4>1. instances'[t] \in Instance
        <5>1. config[t] \in Config
          BY <2>2 DEF Sorted
        <5>2. config[t].edits \in SUBSET Upload
          BY <5>1 DEF Config
        <5>3. 1 \in Id
          <6>1. Cardinality(Req) \in Nat
            BY Sizes, FS_CardinalityType
          <6>2. QED
            BY <6>1 DEF Id
        <5>4. QED
          BY <5>2, <5>3, <3>1 DEF Instance
      <4>2. QED
        BY <4>1, Values
    <3>3. QED
      BY <3>1, <3>2, <2>2 DEF Settled, Serves, Running
  <2>3. QED
    BY <2>1, <2>2
<1>3. QED
  BY <1>1, <1>2 DEF Apart, Staged, Resting, Changing

-----------------------------------------------------------------------------
(* The third layer, for the program of the step.                           *)

\* The one request that changes a program goes on, its files being what they should.
LEMMA AdvanceFiled ==
  ASSUME NEW r \in Req, NEW t \in Tenant,
         \A q \in Req : q # r => ~Served(q, t),
         \A q \in Req : q # r => req'[q] = req[q],
         req'[r] = Idle \/ Changing(r, t)',
         req'[r] = Idle => Published(t)',
         req'[r] # Idle => Publishing(r, t)'
  PROVE  Filed(t)'
<1>1. \A q \in Req : q # r => ~Served(q, t)'
  BY DEF Served, Working
<1>2. req'[r] = Idle => ~Served(r, t)'
  BY DEF Served, Working, Idle
<1>3. QED
  BY <1>1, <1>2 DEF Filed, Resting

\* A step of a request that leaves the files, and the config, as they are.
LEMMA StaysGone ==
  ASSUME NEW r \in Req, NEW t \in Tenant, Gone(t, config[t].artifactId),
         UNCHANGED <<config, files, made, replaced>>,
         req'[r].at \in {"boot", "install", "load", "store", "publish", "write", "swap"},
         req'[r].at = "write" => req'[r].form = config[t]
  PROVE  Publishing(r, t)'
<1>1. Gone(t, config[t].artifactId)'
  BY DEF Gone
<1>2. QED
  BY <1>1 DEF Publishing

\* A POST keeps the files with the rows,
LEMMA PostFiled ==
  ASSUME Sorted, Sounds, NEW r \in Req, NEW t \in Tenant, Changing(r, t), Apart(t), Stage(r, t),
         Publishing(r, t), acked[t] \subseteq rows[t],
         Boot(r) \/ Install(r) \/ Load(r) \/ Store(r) \/ Publish(r) \/ Write(r), t \notin frayed'
  PROVE  Filed(t)' /\ acked'[t] \subseteq rows'[t]
<1>1. req[r].tenant = t /\ req[r].kind \in Admin /\ ~Break(r)
  BY DEF Changing, Served, Break
<1>2. \A q \in Req : q # r => ~Served(q, t)
  BY DEF Apart
<1>3. Gone(t, config[t].artifactId) /\ (req[r].at = "write" => req[r].form = config[t])
  <2>1. req[r].at \in {"boot", "install", "load", "store", "publish", "write"}
    BY DEF Boot, Install, Load, Store, Publish, Write
  <2>2. QED
    BY <2>1, <1>1 DEF Publishing
<1>4. ASSUME \A q \in Req : q # r => req'[q] = req[q],
             req'[r].kind = req[r].kind, req'[r].tenant = t,
             req'[r].at \in {"install", "load", "store", "publish", "write"},
             req'[r].at = "write" => req'[r].form = config[t], UNCHANGED <<config, files, made, replaced>>
      PROVE  Filed(t)'
  <2>1. Publishing(r, t)'
    BY <1>3, <1>4, StaysGone
  <2>2. Changing(r, t)' /\ req'[r] # Idle
    BY <1>1, <1>4 DEF Changing, Served, Working, Idle
  <2>3. QED
    BY <1>2, <1>4, <2>1, <2>2, AdvanceFiled
<1>5. CASE Boot(r)
  <2> DEFINE got == [id |-> FreeIdOf(t), edits |-> config[t].edits]
  <2>1. req' = [req EXCEPT ![r].at = "install", ![r].got = got]
        /\ UNCHANGED <<config, files, made, replaced, rows, acked>>
    BY <1>1, <1>5 DEF Boot, FreeIdOf
  <2> HIDE DEF got
  <2>2. /\ \A q \in Req : q # r => req'[q] = req[q]
        /\ req'[r].at = "install" /\ req'[r].kind = req[r].kind /\ req'[r].tenant = t
    BY <2>1, <1>1 DEF Sounds, Request
  <2>3. QED
    BY <2>1, <2>2, <1>4
<1>6. CASE Install(r)
  <2> DEFINE at == IF req[r].kind = "post" THEN "load" ELSE "publish"
  <2>1. req' = [req EXCEPT ![r].at = at, ![r].got = NoInstance]
        /\ UNCHANGED <<config, files, made, replaced, rows, acked>>
    BY <1>6 DEF Install, historyVars
  <2>2. at \in {"load", "publish"}
    OBVIOUS
  <2> HIDE DEF at
  <2>3. /\ \A q \in Req : q # r => req'[q] = req[q]
        /\ req'[r].at = at /\ req'[r].kind = req[r].kind /\ req'[r].tenant = t
    BY <2>1, <1>1, AtGotIs
  <2>4. QED
    BY <2>1, <2>2, <2>3, <1>4
<1>7. CASE Load(r)
  <2>1. UNCHANGED <<config, files, made, replaced, rows, acked>>
    BY <1>7 DEF Load, serverVars
  <2>2. /\ \A q \in Req : q # r => req'[q] = req[q]
        /\ req'[r].at \in {"store", "publish"} /\ req'[r].kind = req[r].kind /\ req'[r].tenant = t
    <3>1. CASE req' = [req EXCEPT ![r].at = "store", ![r].got = instances[t]]
      BY <3>1, <1>1 DEF Sounds, Request
    <3>2. CASE Goto(r, "publish")
      BY <3>2, <1>1, AtIs
    <3>3. QED
      BY <3>1, <3>2, <1>1, <1>7 DEF Load, Goto
  <2>3. QED
    BY <2>1, <2>2, <1>4
<1>8. CASE Store(r)
  <2>1. req[r].event = 0 /\ req[r].got.id \notin closed[t]
    BY <1>1, <1>8, StageIs DEF Sounds, Sound, Admin, Store
  <2>2. req' = [req EXCEPT ![r].at = "publish", ![r].got = NoInstance]
        /\ UNCHANGED <<config, files, made, replaced>>
    BY <2>1, <1>8 DEF Store
  <2>3. /\ \A q \in Req : q # r => req'[q] = req[q]
        /\ req'[r].at = "publish" /\ req'[r].kind = req[r].kind /\ req'[r].tenant = t
    BY <2>2, <1>1, AtGotIs
  <2>4. acked'[t] \subseteq rows'[t]
    BY <2>1, <1>1, <1>8 DEF Store, Sorted
  <2>5. QED
    BY <2>2, <2>3, <2>4, <1>4
<1>9. CASE Publish(r)
  <2>1. req' = [req EXCEPT ![r].at = "write", ![r].form = config[t]]
        /\ UNCHANGED <<config, files, made, replaced, rows, acked>>
    BY <1>1, <1>9 DEF Publish, serverVars
  <2>2. /\ \A q \in Req : q # r => req'[q] = req[q]
        /\ req'[r].at = "write" /\ req'[r].kind = req[r].kind /\ req'[r].tenant = t /\ req'[r].form = config[t]
    BY <2>1, <1>1 DEF Sounds, Request
  <2>3. QED
    BY <2>1, <2>2, <1>4
<1>10. CASE Write(r)
  <2>1. req[r].form = config[t] /\ config[t] # NoConfig
    BY <1>3, <1>10 DEF Write, Sounds, Sound
  <2>2. files' = [files EXCEPT ![config[t].artifactId] = config[t]] /\ Finish(r)
        /\ UNCHANGED <<config, made, replaced, rows, acked>>
    BY <2>1, <1>10 DEF Write
  <2>3. Published(t)'
    BY <2>1, <2>2, <1>3 DEF Published, Gone, Sorted
  <2>4. (\A q \in Req : q # r => req'[q] = req[q]) /\ req'[r] = Idle
    BY <2>2, FinishIs
  <2>5. Filed(t)'
    BY <1>2, <2>3, <2>4, AdvanceFiled
  <2>6. QED
    BY <2>2, <2>5
<1>11. QED
  BY <1>5, <1>6, <1>7, <1>8, <1>9, <1>10

\* so does a PUT,
LEMMA PutFiled ==
  ASSUME Sorted, Sounds, NEW r \in Req, NEW t \in Tenant, Changing(r, t), Apart(t), Stage(r, t),
         Publishing(r, t), acked[t] \subseteq rows[t], Save(r) \/ Swap(r), ~Dies(r)
  PROVE  Filed(t)' /\ acked'[t] \subseteq rows'[t]
<1>1. req[r].tenant = t /\ req[r].kind \in Admin
  BY DEF Changing, Served
<1>2. \A q \in Req : q # r => ~Served(q, t)
  BY DEF Apart
<1>3. CASE Save(r)
  <2>1. Published(t) /\ req[r].form.artifactId = config[t].artifactId /\ req[r].form # NoConfig
        /\ config[t] # NoConfig
    BY <1>3, StageIs DEF Save, Publishing, Sounds, Sound, Serves
  <2>2. config' = [config EXCEPT ![t] = req[r].form] /\ Goto(r, "swap")
        /\ UNCHANGED <<files, made, replaced, rows, acked>>
    BY <1>1, <1>3 DEF Save, historyVars
  <2>3. /\ \A q \in Req : q # r => req'[q] = req[q]
        /\ req'[r].at = "swap" /\ req'[r].kind = req[r].kind /\ req'[r].tenant = t
    BY <2>2, <1>1, AtIs
  <2>4. config'[t] = req[r].form
    BY <2>2 DEF Sorted
  <2>5. Gone(t, config[t].artifactId)'
    BY <2>1, <2>2, <2>4 DEF Gone, Published
  <2>6. Publishing(r, t)'
    BY <2>3, <2>5 DEF Publishing
  <2>7. Changing(r, t)' /\ req'[r] # Idle
    BY <1>1, <2>3 DEF Changing, Served, Working, Idle
  <2>8. Filed(t)'
    BY <1>2, <2>3, <2>6, <2>7, AdvanceFiled
  <2>9. QED
    BY <2>2, <2>8
<1>4. CASE Swap(r)
  <2>1. Running(t) /\ Gone(t, config[t].artifactId)
    BY <1>1, <1>4, StageIs DEF Swap, Publishing
  <2>2. Goto(r, "boot") /\ UNCHANGED <<config, files, made, replaced, rows, acked>>
    BY <2>1, <1>1, <1>4 DEF Swap, Running
  <2>3. /\ \A q \in Req : q # r => req'[q] = req[q]
        /\ req'[r].at = "boot" /\ req'[r].kind = req[r].kind /\ req'[r].tenant = t
    BY <2>2, <1>1, AtIs
  <2>4. Publishing(r, t)'
    BY <2>1, <2>2, <2>3, StaysGone
  <2>5. Changing(r, t)' /\ req'[r] # Idle
    BY <1>1, <2>3 DEF Changing, Served, Working, Idle
  <2>6. Filed(t)'
    BY <1>2, <2>3, <2>4, <2>5, AdvanceFiled
  <2>7. QED
    BY <2>2, <2>6
<1>5. QED
  BY <1>3, <1>4

\* and a DELETE,
LEMMA DeleteFiled ==
  ASSUME Sorted, Sounds, NEW r \in Req, NEW t \in Tenant, Changing(r, t), Apart(t), Stage(r, t),
         Publishing(r, t), acked[t] \subseteq rows[t],
         Drop(r) \/ Clear(r) \/ Forget(r) \/ Unlink(r), t \notin frayed'
  PROVE  Filed(t)' /\ acked'[t] \subseteq rows'[t]
<1>1. req[r].tenant = t /\ req[r].kind \in Admin /\ ~Break(r)
  BY DEF Changing, Served, Break
<1>2. \A q \in Req : q # r => ~Served(q, t)
  BY DEF Apart
<1> DEFINE b == IF req[r].form = NoConfig THEN 0 ELSE req[r].form.artifactId
<1>3. ASSUME NEW at \in {"clear", "forget", "unlink"}, Goto(r, at), Gone(t, b),
             UNCHANGED <<files, made, replaced>>
      PROVE  Filed(t)'
  <2>1. /\ \A q \in Req : q # r => req'[q] = req[q]
        /\ req'[r].at = at /\ req'[r].kind = req[r].kind /\ req'[r].tenant = t /\ req'[r].form = req[r].form
    BY <1>1, <1>3, AtIs
  <2>2. Gone(t, IF req[r].form = NoConfig THEN 0 ELSE req[r].form.artifactId)'
    BY <1>3, <2>1 DEF Gone
  <2>3. Publishing(r, t)'
    BY <2>1, <2>2 DEF Publishing
  <2>4. Changing(r, t)' /\ req'[r] # Idle
    BY <1>1, <2>1 DEF Changing, Served, Working, Idle
  <2>5. QED
    BY <1>2, <2>1, <2>3, <2>4, AdvanceFiled
<1>4. CASE Drop(r)
  <2>1. Published(t) /\ req[r].form = config[t]
    BY <1>4 DEF Drop, Publishing
  <2>2. Gone(t, b)
    BY <2>1 DEF Published, Gone
  <2>3. QED
    BY <2>2, <1>3, <1>4 DEF Drop
<1>5. CASE Clear(r) \/ Forget(r)
  <2>1. Gone(t, b)
    BY <1>5 DEF Clear, Forget, Publishing
  <2>2. \E at \in {"clear", "forget", "unlink"} : Goto(r, at)
    BY <1>1, <1>5 DEF Clear, Forget
  <2>3. Filed(t)'
    BY <2>1, <2>2, <1>3, <1>5 DEF Clear, Forget, historyVars
  <2>4. acked'[t] \subseteq rows'[t]
    BY <1>1, <1>5 DEF Clear, Forget, historyVars, Sorted
  <2>5. QED
    BY <2>3, <2>4
<1>6. CASE Unlink(r)
  <2>1. Gone(t, b) /\ config[t] = NoConfig
    BY <1>6, StageIs DEF Unlink, Publishing
  <2>2. /\ files' = IF req[r].form = NoConfig THEN files ELSE [files EXCEPT ![req[r].form.artifactId] = NoConfig]
        /\ Finish(r) /\ UNCHANGED <<config, made, replaced, rows, acked>>
    BY <1>6 DEF Unlink, historyVars
  <2>3. Published(t)'
    <3>1. SUFFICES ASSUME NEW a \in Upload, made[a] = t, a \notin replaced PROVE files'[a] = NoConfig
      BY <2>1, <2>2 DEF Published
    <3>2. CASE a = b
      BY <3>2, <2>2 DEF Sorted, Upload
    <3>3. CASE a # b
      <4>1. files[a] = NoConfig
        BY <3>1, <3>3, <2>1 DEF Gone
      <4>2. QED
        BY <4>1, <2>2 DEF Sorted
    <3>4. QED
      BY <3>2, <3>3
  <2>4. (\A q \in Req : q # r => req'[q] = req[q]) /\ req'[r] = Idle
    BY <2>2, FinishIs
  <2>5. QED
    BY <1>2, <2>2, <2>3, <2>4, AdvanceFiled
<1>7. QED
  BY <1>4, <1>5, <1>6

\* A step while no request changes the program: the files are as published.
LEMMA QuietlyFiled ==
  ASSUME Sounds, NEW r \in Req, NEW t \in Tenant, Resting(t), Filed(t), UNCHANGED <<config, made, replaced>>,
         Published(t)', \A q \in Req : q # r => req'[q] = req[q],
         Served(r, t)' => req'[r].kind \in {"push", "get"} /\ req'[r].at \in {"store", "write"}
                          /\ (req'[r].at = "write" => req'[r].form = config[t])
  PROVE  Filed(t)'
<1>1. ASSUME NEW q \in Req, q # r, Served(q, t)' PROVE Publishing(q, t)'
  <2>1. Served(q, t) /\ ~Changing(q, t) /\ req'[q] = req[q]
    BY <1>1 DEF Served, Working, Resting
  <2>2. req[q].at \in {"store", "write"} /\ req[q].kind \in {"push", "get"}
    BY <2>1, Places
  <2>3. Publishing(q, t)
    BY <2>1 DEF Filed
  <2>4. req[q].at = "write" => req[q].form = config[t]
    BY <2>3 DEF Publishing
  <2>5. QED
    BY <2>1, <2>2, <2>4 DEF Publishing, Admin
<1>2. Served(r, t)' => Publishing(r, t)'
  BY DEF Publishing, Admin
<1>3. QED
  BY <1>1, <1>2 DEF Filed

\* so does a request that begins,
LEMMA BeginsFiled ==
  ASSUME Sorted, Sounds, NEW r \in Req, NEW t \in Tenant, Apart(t), Staged(t), Filed(t),
         acked[t] \subseteq rows[t], t \notin torn', 
         (\E form \in {Created(uploads + 1), Uploaded(uploads + 1)} : Post(r, t, form))
            \/ OpenPage(r, t) \/ Find(r, t) \/ Push(r, t) \/ Fetch(r, t)
  PROVE  Filed(t)' /\ acked'[t] \subseteq rows'[t]
<1>1. req \in [Req -> Request] /\ req[r] = Idle /\ ~Served(r, t)
  BY DEF Sounds, Post, OpenPage, Find, Push, Fetch, Served, Working, Idle
<1>2. ASSUME NEW kind, NEW at, NEW form, NEW got, Begin(r, kind, at, t, form, got)
      PROVE  /\ \A q \in Req : q # r => req'[q] = req[q]
             /\ req'[r].kind = kind /\ req'[r].at = at /\ req'[r].tenant = t
             /\ req'[r].form = form /\ req'[r].got = got
  BY <1>1, <1>2 DEF Begin
<1>3. acked'[t] \subseteq rows'[t]
  BY DEF Post, OpenPage, Find, Push, Fetch, serverVars
<1>4. ASSUME NEW kind \in Admin, Meet(r, kind, t)
      PROVE  (\A q \in Req : ~Served(q, t)) /\ Published(t)
  <2>1. (\A q \in Req : ~Served(q, t)) /\ Settled(t)
    BY <1>1, <1>4, MeetsNobody
  <2>2. QED
    BY <2>1 DEF Filed, Resting, Changing
<1>5. ASSUME NEW form \in {Created(uploads + 1), Uploaded(uploads + 1)}, Post(r, t, form)
      PROVE  Filed(t)'
  <2>1. /\ Begin(r, "post", "boot", t, NoConfig, NoInstance) /\ Meet(r, "post", t)
        /\ config' = [config EXCEPT ![t] = form] /\ uploads < MaxUploads
        /\ made' = [made EXCEPT ![form.artifactId] = t]
        /\ replaced' = IF config[t] = NoConfig THEN replaced ELSE replaced \cup {config[t].artifactId}
        /\ files' = files
    BY <1>5 DEF Post
  <2>2. /\ \A q \in Req : q # r => req'[q] = req[q]
        /\ req'[r].kind = "post" /\ req'[r].at = "boot" /\ req'[r].tenant = t
    BY <2>1, <1>2
  <2>3. (\A q \in Req : ~Served(q, t)) /\ Published(t)
    <3>1. "post" \in Admin
      BY DEF Admin
    <3>2. QED
      BY <3>1, <2>1, <1>4
  <2>4. config'[t] = form
    BY <2>1 DEF Sorted
  <2>5. Gone(t, config[t].artifactId)'
    <3>1. SUFFICES ASSUME NEW a \in Upload, made'[a] = t, a \notin replaced', a # form.artifactId
                   PROVE  files[a] = NoConfig
      BY <2>1, <2>4 DEF Gone
    <3>2. made[a] = t /\ a \notin replaced
      BY <3>1, <2>1 DEF Sorted
    <3>3. config[t] # NoConfig => a # config[t].artifactId
      BY <3>1, <2>1
    <3>4. QED
      BY <3>2, <3>3, <2>3 DEF Published
  <2>6. Publishing(r, t)' /\ Changing(r, t)'
    BY <2>2, <2>5 DEF Publishing, Changing, Served, Working, Admin
  <2>7. req'[r] # Idle
    BY <2>2 DEF Idle
  <2>8. QED
    BY <2>2, <2>3, <2>6, <2>7, AdvanceFiled
<1>6. CASE Find(r, t)
  <2>1. /\ Begin(r, "delete", "drop", t, config[t], NoInstance) /\ Meet(r, "delete", t)
        /\ UNCHANGED <<config, files, made, replaced>>
    BY <1>6 DEF Find, serverVars
  <2>2. /\ \A q \in Req : q # r => req'[q] = req[q]
        /\ req'[r].kind = "delete" /\ req'[r].at = "drop" /\ req'[r].tenant = t /\ req'[r].form = config[t]
    BY <2>1, <1>2
  <2>3. (\A q \in Req : ~Served(q, t)) /\ Published(t)
    <3>1. "delete" \in Admin
      BY DEF Admin
    <3>2. QED
      BY <3>1, <2>1, <1>4
  <2>4. Published(t)'
    BY <2>1, <2>3 DEF Published
  <2>5. Publishing(r, t)' /\ Changing(r, t)'
    BY <2>1, <2>2, <2>4 DEF Publishing, Changing, Served, Working, Admin
  <2>6. req'[r] # Idle
    BY <2>2 DEF Idle
  <2>7. (\A q \in Req : q # r => ~Served(q, t)) /\ (\A q \in Req : q # r => req'[q] = req[q])
    BY <2>2, <2>3
  <2>8. QED
    BY <1>3, <2>5, <2>6, <2>7, AdvanceFiled
<1>7. CASE OpenPage(r, t)
  <2>1. Begin(r, "put", "page", t, config[t], NoInstance) /\ UNCHANGED <<config, files, made, replaced>>
    BY <1>7 DEF OpenPage, serverVars
  <2>2. (\A q \in Req : q # r => req'[q] = req[q]) /\ req'[r].at = "page"
    BY <2>1, <1>2
  <2>3. \A q \in Req : (Served(q, t)' <=> Served(q, t)) /\ (Served(q, t) => req'[q] = req[q])
    BY <2>2, <1>1 DEF Served, Working
  <2>4. Resting(t)' <=> Resting(t)
    BY <2>3 DEF Resting, Changing
  <2>5. ASSUME NEW q \in Req, Served(q, t)' PROVE Publishing(q, t)'
    <3>1. Publishing(q, t) /\ req'[q] = req[q]
      BY <2>3, <2>5 DEF Filed
    <3>2. QED
      BY <3>1, <2>1 DEF Publishing, Published, Gone
  <2>6. Published(t)' <=> Published(t)
    BY <2>1 DEF Published
  <2>7. QED
    BY <1>3, <2>4, <2>5, <2>6 DEF Filed
<1>8. CASE Push(r, t) \/ Fetch(r, t)
  <2>1. /\ UNCHANGED <<config, files, made, replaced>>
        /\ \/ Begin(r, "push", "store", t, NoConfig, instances[t]) /\ Meet(r, "push", t)
           \/ Begin(r, "get", "write", t, config[t], NoInstance) /\ Meet(r, "get", t)
    BY <1>8 DEF Push, Fetch, serverVars
  <2>2. /\ \A q \in Req : q # r => req'[q] = req[q]
        /\ \/ req'[r].kind = "push" /\ req'[r].at = "store"
           \/ req'[r].kind = "get" /\ req'[r].at = "write" /\ req'[r].form = config[t]
    BY <2>1, <1>2
  <2>3. Resting(t)
    <3>1. ASSUME NEW q \in Req, Changing(q, t) PROVE FALSE
      BY <3>1, <2>1, <1>1 DEF Changing, Served, Meet
    <3>2. QED
      BY <3>1 DEF Resting
  <2>4. Published(t)'
    BY <2>1, <2>3 DEF Filed, Published
  <2>5. req'[r].kind \in {"push", "get"} /\ req'[r].at \in {"store", "write"}
        /\ (req'[r].at = "write" => req'[r].form = config[t])
    BY <2>2
  <2>6. \A q \in Req : q # r => req'[q] = req[q]
    BY <2>2
  <2>7. QED
    BY <1>3, <2>1, <2>3, <2>4, <2>5, <2>6, QuietlyFiled
<1>9. QED
  BY <1>3, <1>5, <1>6, <1>7, <1>8

\* one that has found its row, or none,
LEMMA CheckFiled ==
  ASSUME Sorted, Sounds, NEW r \in Req, NEW t \in Tenant, req[r].tenant = t, Apart(t), Staged(t), Filed(t),
         acked[t] \subseteq rows[t], Check(r), t \notin torn'
  PROVE  Filed(t)' /\ acked'[t] \subseteq rows'[t]
<1>1. req[r].at = "page" /\ ~Served(r, t) /\ UNCHANGED <<config, files, made, replaced, rows, acked>>
  BY DEF Check, Served, Working, serverVars
<1>2. req[r].kind = "put"
  BY <1>1 DEF Sounds, Sound
<1>3. CASE Finish(r) /\ UNCHANGED markVars
  <2>1. (\A q \in Req : q # r => req'[q] = req[q]) /\ req'[r] = Idle
    BY <1>3, FinishIs
  <2>2. \A q \in Req : (Served(q, t)' <=> Served(q, t)) /\ (Served(q, t) => req'[q] = req[q])
    BY <2>1, <1>1 DEF Served, Working, Idle
  <2>3. Resting(t)' <=> Resting(t)
    BY <2>2 DEF Resting, Changing
  <2>4. ASSUME NEW q \in Req, Served(q, t)' PROVE Publishing(q, t)'
    <3>1. Publishing(q, t) /\ req'[q] = req[q]
      BY <2>2, <2>4 DEF Filed
    <3>2. QED
      BY <3>1, <1>1 DEF Publishing, Published, Gone
  <2>5. QED
    BY <1>1, <2>3, <2>4 DEF Filed, Published
<1>4. CASE /\ config[t] # NoConfig
           /\ req' = [req EXCEPT ![r].at = "save", ![r].form =
                    [Edited(@, uploads + 1) EXCEPT !.artifactId = config[t].artifactId]]
           /\ Meet(r, "put", t)
  <2> DEFINE a == config[t].artifactId
             e == Edited(req[r].form, uploads + 1)
             form == [e EXCEPT !.artifactId = a]
  <2>1. form.artifactId = a
    <3>1. req[r].form # NoConfig /\ req[r].form \in Config
      BY <1>1 DEF Sounds, Sound, Request
    <3>2. e = [edits |-> e.edits, artifactId |-> e.artifactId, entityData |-> e.entityData]
      <4> DEFINE f == req[r].form
                 n == uploads + 1
      <4>1. f \in [edits : SUBSET Upload, artifactId : Upload, entityData : BOOLEAN]
        BY <3>1 DEF Config
      <4> HIDE DEF f, n
      <4>2. [f EXCEPT !.edits = @ \cup {n}, !.entityData = FALSE]
                \in [edits : SUBSET (Upload \cup {n}), artifactId : Upload, entityData : BOOLEAN]
        BY <4>1
      <4>3. e \in [edits : SUBSET (Upload \cup {n}), artifactId : Upload, entityData : BOOLEAN]
        BY <4>2 DEF e, Edited, f, n
      <4> HIDE DEF e
      <4>4. QED
        BY <4>3
    <3> HIDE DEF e, a
    <3>3. [[edits |-> e.edits, artifactId |-> e.artifactId, entityData |-> e.entityData]
              EXCEPT !.artifactId = a].artifactId = a
      OBVIOUS
    <3>4. QED
      BY <3>2, <3>3
  <2>2. req' = [req EXCEPT ![r].at = "save", ![r].form = form]
    BY <1>4
  <2> HIDE DEF form
  <2>3. /\ \A q \in Req : q # r => req'[q] = req[q]
        /\ req'[r].at = "save" /\ req'[r].kind = "put" /\ req'[r].tenant = t /\ req'[r].form = form
    BY <1>2, <2>2 DEF Sounds, Request
  <2>4. (\A q \in Req : ~Served(q, t)) /\ Settled(t)
    <3>1. "put" \in Admin
      BY DEF Admin
    <3>2. QED
      BY <3>1, <1>1, <1>4, MeetsNobody
  <2>5. Published(t)'
    BY <2>4, <1>1 DEF Filed, Resting, Changing, Published
  <2>6. Publishing(r, t)' /\ Changing(r, t)'
    BY <2>1, <2>3, <2>5, <1>1 DEF Publishing, Changing, Served, Working, Admin
  <2>7. req'[r] # Idle
    BY <2>3 DEF Idle
  <2>8. QED
    BY <2>3, <2>4, <2>6, <2>7, <1>1, AdvanceFiled
<1>5. QED
  BY <1>3, <1>4 DEF Check

\* any other,
LEMMA OthersFiled ==
  ASSUME Sorted, Sounds, NEW r \in Req, NEW t \in Tenant, Served(r, t), ~Changing(r, t),
         Apart(t), Staged(t), Filed(t), acked[t] \subseteq rows[t], Store(r) \/ Write(r)
  PROVE  Filed(t)' /\ acked'[t] \subseteq rows'[t]
<1>1. req[r].kind \in {"push", "get"} /\ req[r].at \in {"store", "write"} /\ req[r].tenant = t
  BY Places DEF Served
<1>2. Resting(t)
  <2>1. ASSUME NEW q \in Req, Changing(q, t) PROVE FALSE
    BY <2>1 DEF Apart
  <2>2. QED
    BY <2>1 DEF Resting
<1>3. Stage(r, t) /\ Publishing(r, t) /\ Published(t)
  BY <1>2 DEF Staged, Filed
<1>4. Finish(r) /\ UNCHANGED <<config, made, replaced>>
  <2>1. Store(r) => req[r].event # 0
    BY <1>1 DEF Store, Sounds, Sound
  <2>2. QED
    BY <2>1 DEF Store, Write
<1>5. (\A q \in Req : q # r => req'[q] = req[q]) /\ req'[r] = Idle
  BY <1>4, FinishIs
<1>6. ~Served(r, t)'
  BY <1>5 DEF Served, Working, Idle
<1>7. Published(t)' /\ acked'[t] \subseteq rows'[t]
  <2>1. CASE Store(r)
    <3>1. req[r].got.id \notin closed[t]
      BY <2>1, <1>3, StageIs DEF Store
    <3>2. QED
      BY <2>1, <3>1, <1>1, <1>3, <1>4 DEF Store, Published, Sorted
  <2>2. CASE Write(r)
    <3>1. req[r].form = config[t] /\ config[t] # NoConfig
      BY <2>2, <1>3 DEF Write, Publishing, Sounds, Sound
    <3>2. files' = [files EXCEPT ![config[t].artifactId] = config[t]] /\ UNCHANGED <<rows, acked>>
      BY <2>2, <3>1 DEF Write
    <3>3. QED
      BY <3>1, <3>2, <1>3, <1>4 DEF Published, Sorted
  <2>3. QED
    BY <2>1, <2>2
<1>8. QED
  BY <1>2, <1>4, <1>5, <1>6, <1>7, QuietlyFiled

\* and so every step of a request,
LEMMA StepsFiled ==
  ASSUME Sorted, Sounds, NEW r \in Req, NEW t \in Tenant, req[r].tenant = t, Apart(t), Staged(t), Filed(t),
         acked[t] \subseteq rows[t], Steps(r), t \notin torn', t \notin frayed'
  PROVE  Filed(t)' /\ acked'[t] \subseteq rows'[t]
<1>1. CASE Check(r)
  BY <1>1, CheckFiled
<1>2. CASE ~Check(r)
  <2>1. req[r].at \notin {"idle", "page"}
    BY <1>2 DEF Steps, Boot, Install, Load, Publish, Write, Save, Swap, Drop, Clear, Forget, Unlink, Store,
                Throw, Working
  <2>2. Served(r, t)
    BY <2>1 DEF Served, Working
  <2>3. Stage(r, t) /\ Publishing(r, t)
    BY <2>2 DEF Staged, Filed
  <2>4. CASE Changing(r, t)
    BY <2>3, <2>4, <1>2, PostFiled, PutFiled, DeleteFiled DEF Steps, Throw, Break, Save, Dies
  <2>5. CASE ~Changing(r, t)
    <3>1. req[r].at \in {"store", "write"}
      BY <2>2, <2>5, Places
    <3>2. Store(r) \/ Write(r)
      BY <3>1, <1>2 DEF Steps, Boot, Install, Load, Publish, Save, Swap, Drop, Clear, Forget, Unlink,
                        Throw, Break
    <3>3. QED
      BY <3>2, <2>2, <2>5, OthersFiled
  <2>6. QED
    BY <2>4, <2>5
<1>3. QED
  BY <1>1, <1>2

\* and the start of the server.
LEMMA StartFiled ==
  ASSUME Sorted, NEW t \in Tenant, Filed(t), Start, t \notin frayed',
         UNCHANGED <<config, files, made, replaced>>
  PROVE  Filed(t)'
<1>1. \A q \in Req : ~Served(q, t)'
  BY DEF Start, Served, Working, Idle
<1>2. Quiet(t)
  BY DEF Start
<1>3. Published(t)
  BY <1>2 DEF Quiet, Filed, Resting, Changing, Served
<1>4. Published(t)'
  BY <1>3 DEF Published
<1>5. QED
  BY <1>1, <1>4 DEF Filed

-----------------------------------------------------------------------------
(* The fourth layer, for the program of the step.                          *)

\* What it says of a request.
Carries(r, t) ==
    /\ req[r].at \in {"page", "save"} => kept[t] \subseteq req[r].form.edits
    /\ req[r].at = "write" /\ config[t] # NoConfig => req[r].form.edits \subseteq config[t].edits

\* The editor goes on, or is done.
LEMMA EditorGoes ==
  ASSUME NEW r \in Req, NEW t \in Tenant, \A q \in Req : q # r => ~Editing(q, t),
         \A q \in Req : q # r => req'[q] = req[q],
         config'[t] # NoConfig => kept'[t] \subseteq config'[t].edits,
         Editing(r, t)' => Carries(r, t)'
  PROVE  Edits(t)'
<1>1. \A q \in Req : q # r => ~Editing(q, t)'
  BY DEF Editing
<1>2. QED
  BY <1>1 DEF Edits, Carries

\* Somebody else does something.
LEMMA EditorWaits ==
  ASSUME NEW r \in Req, NEW t \in Tenant, Edits(t), \A q \in Req : q # r => req'[q] = req[q],
         config'[t] = config[t], kept'[t] = kept[t], ~Editing(r, t)'
  PROVE  Edits(t)'
<1>1. \A q \in Req : Editing(q, t)' => q # r /\ Editing(q, t) /\ req'[q] = req[q]
  BY DEF Editing
<1>2. QED
  BY <1>1 DEF Edits

\* A request that begins loses no edit,
LEMMA BeginsEdits ==
  ASSUME Sorted, Sounds, NEW r \in Req, NEW t \in Tenant, Edits(t), t \notin clashed',
         (\E form \in {Created(uploads + 1), Uploaded(uploads + 1)} : Post(r, t, form))
            \/ OpenPage(r, t) \/ Find(r, t) \/ Push(r, t) \/ Fetch(r, t)
  PROVE  Edits(t)'
<1>1. req \in [Req -> Request] /\ req[r] = Idle
  BY DEF Sounds, Post, OpenPage, Find, Push, Fetch
<1>2. ASSUME NEW kind, NEW at, NEW form, NEW got, Begin(r, kind, at, t, form, got)
      PROVE  /\ \A q \in Req : q # r => req'[q] = req[q]
             /\ req'[r].kind = kind /\ req'[r].at = at /\ req'[r].tenant = t
             /\ req'[r].form = form /\ req'[r].got = got
  BY <1>1, <1>2 DEF Begin
<1>3. CASE Push(r, t) \/ Fetch(r, t)
  <2>1. /\ UNCHANGED <<config, kept>>
        /\ \/ Begin(r, "push", "store", t, NoConfig, instances[t])
           \/ Begin(r, "get", "write", t, config[t], NoInstance)
    BY <1>3 DEF Push, Fetch, serverVars
  <2>2. (\A q \in Req : q # r => req'[q] = req[q]) /\ req'[r].kind \in {"push", "get"}
    BY <2>1, <1>2
  <2>3. ~Editing(r, t)'
    BY <2>2 DEF Editing, Admin
  <2>4. QED
    BY <2>1, <2>2, <2>3, EditorWaits
<1>4. ASSUME NEW kind \in Admin, Meet(r, kind, t) PROVE \A q \in Req : q # r => ~Editing(q, t)
  BY <1>4 DEF Meet, Editing
<1>5. ASSUME NEW form \in {Created(uploads + 1), Uploaded(uploads + 1)}, Post(r, t, form) PROVE Edits(t)'
  <2>1. /\ Begin(r, "post", "boot", t, NoConfig, NoInstance) /\ Meet(r, "post", t)
        /\ kept' = [kept EXCEPT ![t] = {}]
    BY <1>5 DEF Post
  <2>2. (\A q \in Req : q # r => req'[q] = req[q]) /\ req'[r].at = "boot"
    BY <2>1, <1>2
  <2>3. kept'[t] = {}
    BY <2>1 DEF Sorted
  <2>4. \A q \in Req : q # r => ~Editing(q, t)
    BY <2>1, <1>4 DEF Admin
  <2>5. Carries(r, t)'
    BY <2>2 DEF Carries
  <2>6. QED
    BY <2>2, <2>3, <2>4, <2>5, EditorGoes
<1>6. CASE Find(r, t)
  <2>1. /\ Begin(r, "delete", "drop", t, config[t], NoInstance) /\ Meet(r, "delete", t)
        /\ UNCHANGED <<config, kept>>
    BY <1>6 DEF Find, serverVars
  <2>2. (\A q \in Req : q # r => req'[q] = req[q]) /\ req'[r].at = "drop"
    BY <2>1, <1>2
  <2>3. \A q \in Req : q # r => ~Editing(q, t)
    BY <2>1, <1>4 DEF Admin
  <2>4. Carries(r, t)'
    BY <2>2 DEF Carries
  <2>5. QED
    BY <2>1, <2>2, <2>3, <2>4, EditorGoes DEF Edits
<1>7. CASE OpenPage(r, t)
  <2>1. /\ Begin(r, "put", "page", t, config[t], NoInstance) /\ UNCHANGED <<config, kept>>
        /\ config[t] # NoConfig
    BY <1>7 DEF OpenPage, serverVars
  <2>2. (\A q \in Req : q # r => req'[q] = req[q]) /\ req'[r].at = "page" /\ req'[r].form = config[t]
    BY <2>1, <1>2
  <2>3. \A q \in Req : q # r => ~Editing(q, t)
    BY <1>7 DEF OpenPage, Editing
  <2>4. kept[t] \subseteq config[t].edits
    BY <2>1 DEF Edits
  <2>5. Carries(r, t)'
    BY <2>1, <2>2, <2>4 DEF Carries
  <2>6. QED
    BY <2>1, <2>2, <2>3, <2>4, <2>5, EditorGoes
<1>8. QED
  BY <1>3, <1>5, <1>6, <1>7

\* nor does one that goes on,
LEMMA StepsEdits ==
  ASSUME Sorted, Sounds, NEW r \in Req, NEW t \in Tenant, req[r].tenant = t, Edits(t), Steps(r),
         t \notin clashed'
  PROVE  Edits(t)'
<1>1. Sound(req[r], made, uploads, pushes) /\ req[r] \in Request
  BY DEF Sounds
<1>2. ASSUME Finish(r), UNCHANGED <<config, kept>> PROVE Edits(t)'
  <2>1. (\A q \in Req : q # r => req'[q] = req[q]) /\ req'[r] = Idle
    BY <1>2, FinishIs
  <2>2. ~Editing(r, t)'
    BY <2>1 DEF Editing, Idle, Admin
  <2>3. QED
    BY <2>1, <2>2, <1>2, EditorWaits
<1>3. Editing(r, t) => \A q \in Req : q # r => ~Editing(q, t)
  BY DEF Edits
\* The step takes the request to a place where it carries nothing.
<1>4. ASSUME \A q \in Req : q # r => req'[q] = req[q], UNCHANGED <<config, kept>>,
             req'[r].at \in {"boot", "install", "load", "store", "publish", "clear", "forget", "unlink"},
             Editing(r, t)
      PROVE  Edits(t)'
  <2>1. Carries(r, t)'
    BY <1>4 DEF Carries
  <2>2. QED
    BY <2>1, <1>3, <1>4, EditorGoes DEF Edits
<1>5. CASE Boot(r)
  <2> DEFINE got == [id |-> FreeIdOf(t), edits |-> config[t].edits]
  <2>1. UNCHANGED <<config, kept>> /\ (Break(r) \/ req' = [req EXCEPT ![r].at = "install", ![r].got = got])
    BY <1>5 DEF Boot, FreeIdOf
  <2> HIDE DEF got
  <2>2. Editing(r, t)
    BY <1>1, <1>5 DEF Boot, Sound, Editing, Admin
  <2>3. CASE req' = [req EXCEPT ![r].at = "install", ![r].got = got]
    <3>1. (\A q \in Req : q # r => req'[q] = req[q]) /\ req'[r].at = "install"
      BY <2>3 DEF Sounds, Request
    <3>2. QED
      BY <2>1, <2>2, <3>1, <1>4
  <2>4. QED
    BY <2>1, <2>3, <1>2 DEF Break
<1>6. CASE Install(r)
  <2> DEFINE at == IF req[r].kind = "post" THEN "load" ELSE "publish"
  <2>1. UNCHANGED <<config, kept>> /\ req' = [req EXCEPT ![r].at = at, ![r].got = NoInstance]
    BY <1>6 DEF Install, historyVars
  <2>2. at \in {"load", "publish"}
    OBVIOUS
  <2> HIDE DEF at
  <2>3. (\A q \in Req : q # r => req'[q] = req[q]) /\ req'[r].at = at
    BY <2>1, AtGotIs
  <2>4. Editing(r, t)
    BY <1>1, <1>6 DEF Install, Sound, Editing, Admin
  <2>5. QED
    BY <2>1, <2>2, <2>3, <2>4, <1>4
<1>7. CASE Load(r)
  <2>1. UNCHANGED <<config, kept>>
    BY <1>7 DEF Load, serverVars
  <2>2. Editing(r, t)
    BY <1>1, <1>7 DEF Load, Sound, Editing, Admin
  <2>3. CASE req' = [req EXCEPT ![r].at = "store", ![r].got = instances[t]]
    <3>1. (\A q \in Req : q # r => req'[q] = req[q]) /\ req'[r].at = "store"
      BY <2>3 DEF Sounds, Request
    <3>2. QED
      BY <2>1, <2>2, <3>1, <1>4
  <2>4. CASE Goto(r, "publish")
    <3>1. (\A q \in Req : q # r => req'[q] = req[q]) /\ req'[r].at = "publish"
      BY <2>4, AtIs
    <3>2. QED
      BY <2>1, <2>2, <3>1, <1>4
  <2>5. QED
    BY <2>1, <2>3, <2>4, <1>2, <1>7 DEF Load, Goto, Break
<1>8. CASE Store(r)
  <2>1. UNCHANGED <<config, kept>>
    BY <1>8 DEF Store
  <2>2. CASE req[r].event = 0
    <3>1. req' = [req EXCEPT ![r].at = "publish", ![r].got = NoInstance]
      BY <2>2, <1>8 DEF Store
    <3>2. (\A q \in Req : q # r => req'[q] = req[q]) /\ req'[r].at = "publish"
      BY <3>1, AtGotIs
    <3>3. Editing(r, t)
      BY <2>2, <1>1, <1>8 DEF Store, Sound, Editing, Admin
    <3>4. QED
      BY <2>1, <3>2, <3>3, <1>4
  <2>3. QED
    BY <2>1, <2>2, <1>2, <1>8 DEF Store
<1>9. CASE Publish(r)
  <2>1. UNCHANGED <<config, kept>>
    BY <1>9 DEF Publish, serverVars
  <2>2. Editing(r, t)
    BY <1>1, <1>9 DEF Publish, Sound, Editing, Admin
  <2>3. CASE req' = [req EXCEPT ![r].at = "write", ![r].form = config[t]]
    <3>1. (\A q \in Req : q # r => req'[q] = req[q]) /\ req'[r].at = "write" /\ req'[r].form = config[t]
      BY <2>3 DEF Sounds, Request
    <3>2. Carries(r, t)'
      BY <3>1, <2>1 DEF Carries
    <3>3. QED
      BY <2>1, <2>2, <3>1, <3>2, <1>3, EditorGoes DEF Edits
  <2>4. QED
    BY <2>1, <2>3, <1>2, <1>9 DEF Publish, Break
<1>10. CASE Write(r)
  <2>1. Finish(r) /\ config' = config /\ req[r].at = "write"
    BY <1>10 DEF Write
  <2>2. CASE req[r].kind = "get"
    BY <2>1, <2>2, <1>2, <1>10 DEF Write
  <2>3. CASE req[r].kind # "get"
    <3>1. Editing(r, t)
      BY <2>3, <1>1, <2>1 DEF Sound, Editing, Admin
    <3>2. kept'[t] = kept[t] \cup req[r].form.edits
      BY <2>3, <1>10 DEF Write, Sorted
    <3>3. config[t] # NoConfig => kept'[t] \subseteq config[t].edits
      BY <3>1, <3>2, <2>1 DEF Edits
    <3>4. (\A q \in Req : q # r => req'[q] = req[q]) /\ req'[r] = Idle
      BY <2>1, FinishIs
    <3>5. ~Editing(r, t)'
      BY <3>4 DEF Editing, Idle, Admin
    <3>6. QED
      BY <2>1, <3>1, <3>3, <3>4, <3>5, <1>3, EditorGoes
  <2>4. QED
    BY <2>2, <2>3
<1>11. CASE Check(r)
  <2>1. Editing(r, t) /\ UNCHANGED <<config, kept>> /\ req[r].at = "page" /\ req[r].form # NoConfig
        /\ req[r].form \in Config
    BY <1>1, <1>11 DEF Check, Sound, Editing, Admin, serverVars, Request
  <2>2. kept[t] \subseteq req[r].form.edits
    BY <2>1 DEF Edits
  <2> DEFINE form == [Edited(req[r].form, uploads + 1) EXCEPT !.artifactId = config[t].artifactId]
  <2>3. req[r].form.edits \subseteq form.edits
    BY <2>1 DEF Edited, Config
  <2>4. CASE req' = [req EXCEPT ![r].at = "save", ![r].form = form]
    <3> HIDE DEF form
    <3>1. (\A q \in Req : q # r => req'[q] = req[q]) /\ req'[r].at = "save" /\ req'[r].form = form
      BY <2>4 DEF Sounds, Request
    <3>2. Carries(r, t)'
      BY <3>1, <2>1, <2>2, <2>3 DEF Carries
    <3>3. QED
      BY <2>1, <3>1, <3>2, <1>3, EditorGoes DEF Edits
  <2>5. QED
    BY <2>1, <2>4, <1>2, <1>11 DEF Check
<1>12. CASE Save(r)
  <2>1. Editing(r, t) /\ config' = [config EXCEPT ![t] = req[r].form] /\ Goto(r, "swap") /\ kept' = kept
        /\ req[r].at = "save"
    BY <1>1, <1>12 DEF Save, Sound, Editing, Admin, historyVars
  <2>2. kept[t] \subseteq req[r].form.edits /\ config'[t] = req[r].form
    BY <2>1 DEF Edits, Sorted
  <2>3. (\A q \in Req : q # r => req'[q] = req[q]) /\ req'[r].at = "swap"
    BY <2>1, AtIs
  <2>4. Carries(r, t)'
    BY <2>3 DEF Carries
  <2>5. QED
    BY <2>1, <2>2, <2>3, <2>4, <1>3, EditorGoes
<1>13. CASE Swap(r) /\ ~Dies(r)
  <2>1. Editing(r, t) /\ UNCHANGED <<config, kept>>
    BY <1>1, <1>13 DEF Swap, Sound, Editing, Admin
  <2>2. \E at \in {"boot", "publish"} : Goto(r, at)
    BY <1>13 DEF Swap
  <2>3. (\A q \in Req : q # r => req'[q] = req[q]) /\ req'[r].at \in {"boot", "publish"}
    BY <2>2, AtIs
  <2>4. QED
    BY <2>1, <2>3, <1>4
<1>14. CASE Drop(r)
  <2>1. Editing(r, t) /\ config' = [config EXCEPT ![t] = NoConfig] /\ Goto(r, "clear")
    BY <1>1, <1>14 DEF Drop, Sound, Editing, Admin
  <2>2. config'[t] = NoConfig
    BY <2>1 DEF Sorted
  <2>3. (\A q \in Req : q # r => req'[q] = req[q]) /\ req'[r].at = "clear"
    BY <2>1, AtIs
  <2>4. Carries(r, t)'
    BY <2>3 DEF Carries
  <2>5. QED
    BY <2>1, <2>2, <2>3, <2>4, <1>3, EditorGoes
<1>15. CASE Clear(r) \/ Forget(r)
  <2>1. Editing(r, t) /\ UNCHANGED <<config, kept>>
    BY <1>1, <1>15 DEF Clear, Forget, Sound, Editing, Admin, historyVars
  <2>2. Break(r) \/ \E at \in {"forget", "unlink"} : Goto(r, at)
    BY <1>15 DEF Clear, Forget
  <2>3. ASSUME NEW at \in {"forget", "unlink"}, Goto(r, at) PROVE Edits(t)'
    <3>1. (\A q \in Req : q # r => req'[q] = req[q]) /\ req'[r].at = at
      BY <2>3, AtIs
    <3>2. QED
      BY <2>1, <3>1, <1>4
  <2>4. QED
    BY <2>1, <2>2, <2>3, <1>2 DEF Break
<1>16. CASE Unlink(r) \/ Throw(r)
  BY <1>2, <1>16 DEF Unlink, Throw, Break, serverVars, historyVars
<1>17. QED
  BY <1>5, <1>6, <1>7, <1>8, <1>9, <1>10, <1>11, <1>12, <1>13, <1>14, <1>15, <1>16 DEF Steps

\* nor the start of the server.
LEMMA StartEdits ==
  ASSUME NEW t \in Tenant, Edits(t), Start, UNCHANGED <<config, kept>>
  PROVE  Edits(t)'
<1>1. \A q \in Req : Editing(q, t)' => Editing(q, t) /\ req'[q] = req[q]
  BY DEF Start, Editing, Idle, Admin
<1>2. QED
  BY <1>1 DEF Edits

-----------------------------------------------------------------------------
(* The inductive invariant.                                                *)

\* The inductive invariant, program by program.
LEMMA GoodIs == IInv <=> Typed /\ \A t \in Tenant : Good(t)
BY DEF IInv, Tidy, Clean, Unlost, Good

\* The marks of a program are only taken away by a start of the server.
LEMMA MarksGrow ==
  ASSUME Sorted, Sounds, NEW r \in Req, NEW t \in Tenant,
         \/ \E form \in {Created(uploads + 1), Uploaded(uploads + 1)} : Post(r, t, form)
         \/ OpenPage(r, t) \/ Find(r, t) \/ Push(r, t) \/ Fetch(r, t)
         \/ Steps(r)
  PROVE  torn \subseteq torn' /\ frayed \subseteq frayed' /\ clashed \subseteq clashed'
<1>1. ASSUME NEW q \in Req, NEW kind, NEW u, Meet(q, kind, u)
      PROVE  torn \subseteq torn' /\ frayed \subseteq frayed' /\ clashed \subseteq clashed'
  BY <1>1 DEF Meet
<1>2. CASE (\E form \in {Created(uploads + 1), Uploaded(uploads + 1)} : Post(r, t, form))
              \/ Find(r, t) \/ Push(r, t) \/ Fetch(r, t)
  BY <1>1, <1>2 DEF Post, Find, Push, Fetch
<1>3. CASE OpenPage(r, t)
  BY <1>3 DEF OpenPage
<1>4. CASE Check(r)
  BY <1>1, <1>4 DEF Check, markVars
<1>5. CASE Steps(r) /\ ~Check(r)
  <2>1. CASE Break(r) /\ clashed' = clashed
    BY <2>1 DEF Break
  <2>2. CASE UNCHANGED <<torn, frayed, clashed>>
    BY <2>2
  <2>3. QED
    BY <2>1, <2>2, <1>5 DEF Steps, Boot, Install, Load, Publish, Write, Save, Swap, Drop, Clear, Forget, Unlink,
                            Store, Throw, Dies, historyVars, markVars
<1>6. QED
  BY <1>2, <1>3, <1>4, <1>5

\* A step of one request.
LEMMA GoodStep ==
  ASSUME Typed, Typed', \A u \in Tenant : Good(u), NEW r \in Req, NEW t \in Tenant,
         \/ \E form \in {Created(uploads + 1), Uploaded(uploads + 1)} : Post(r, t, form)
         \/ OpenPage(r, t) \/ Find(r, t) \/ Push(r, t) \/ Fetch(r, t)
         \/ Steps(r) /\ req[r].tenant = t
  PROVE  \A u \in Tenant : Good(u)'
<1>1. Sorted /\ Sounds
  BY TypedIsSorted
<1>2. Sorted' /\ Sounds'
  BY TypedIsSorted, PTL
<1>3. torn \subseteq torn' /\ frayed \subseteq frayed' /\ clashed \subseteq clashed' /\ torn' \subseteq frayed'
  BY <1>1, <1>2, MarksGrow DEF Sorted
<1>4. Good(t)'
  <2>1. Good(t)
    OBVIOUS
  <2>2. t \notin torn' => Apart(t)' /\ Staged(t)'
    BY <2>1, <1>1, <1>3, BeginsTidy, StepsTidy DEF Good
  <2>3. t \notin frayed' => Filed(t)' /\ acked'[t] \subseteq rows'[t]
    BY <2>1, <1>1, <1>3, BeginsFiled, StepsFiled DEF Good
  <2>4. t \notin clashed' => Edits(t)'
    BY <2>1, <1>1, <1>3, BeginsEdits, StepsEdits DEF Good
  <2>5. QED
    BY <2>2, <2>3, <2>4 DEF Good
<1>5. ASSUME NEW u \in Tenant, u # t PROVE Good(u)'
  <2>1. Same(u)
    BY <1>1, <1>5, BeginsApart, StepsApart
  <2>2. QED
    BY <2>1, <1>1, <1>2, Elsewhere
<1>6. QED
  BY <1>4, <1>5

\* A start of the server.
LEMMA GoodStart ==
  ASSUME Typed, \A u \in Tenant : Good(u), Start,
         UNCHANGED <<config, rows, files, made, replaced, acked, kept, clashed>>
  PROVE  \A u \in Tenant : Good(u)'
<1>1. Sorted /\ Sounds
  BY TypedIsSorted
<1>2. SUFFICES ASSUME NEW t \in Tenant PROVE Good(t)'
  OBVIOUS
<1>3. frayed' = frayed \cup {u \in Tenant : ~Quiet(u)}
  BY DEF Start
<1>4. Good(t)
  OBVIOUS
<1>5. Apart(t)' /\ Staged(t)'
  BY <1>1, <1>3, <1>4, StartTidy DEF Good
<1>6. t \notin frayed' => Filed(t)' /\ acked'[t] \subseteq rows'[t]
  BY <1>1, <1>3, <1>4, StartFiled DEF Good
<1>7. t \notin clashed' => Edits(t)'
  BY <1>4, StartEdits DEF Good
<1>8. QED
  BY <1>5, <1>6, <1>7 DEF Good

\* Every step keeps the inductive invariant,
LEMMA IInvStep == IInv /\ [Next]_vars => IInv'
<1> SUFFICES ASSUME IInv, [Next]_vars PROVE IInv'
  OBVIOUS
<1>1. Typed /\ \A t \in Tenant : Good(t)
  BY GoodIs
<1>2. Typed'
  BY <1>1, TypedStep
<1>3. Sorted /\ Sounds /\ Sorted' /\ Sounds'
  BY <1>1, <1>2, TypedIsSorted, PTL
<1>4. \A t \in Tenant : Good(t)'
  <2>1. CASE \E r \in Req, t \in Tenant :
               \/ \E form \in {Created(uploads + 1), Uploaded(uploads + 1)} : Post(r, t, form)
               \/ OpenPage(r, t) \/ Find(r, t) \/ Push(r, t) \/ Fetch(r, t)
    BY <2>1, <1>1, <1>2, GoodStep
  <2>2. ASSUME NEW r \in Req, Steps(r) PROVE \A t \in Tenant : Good(t)'
    <3>1. req[r].at # "idle"
      BY <2>2 DEF Steps, Boot, Install, Load, Publish, Write, Check, Save, Swap, Drop, Clear, Forget, Unlink,
                  Store, Throw, Working
    <3>2. req[r].tenant \in Tenant
      BY <3>1, <1>3, Known
    <3>3. QED
      BY <3>2, <2>2, <1>1, <1>2, GoodStep
  <2>3. ASSUME NEW r \in Req, Swap(r), Dies(r) PROVE \A t \in Tenant : Good(t)'
    <3>1. Start /\ UNCHANGED <<config, rows, files, made, replaced, acked, kept, clashed>>
      BY <2>3 DEF Swap, Dies, Goto
    <3>2. QED
      BY <3>1, <1>1, GoodStart
  <2>4. CASE Restart
    BY <2>4, <1>1, GoodStart DEF Restart
  <2>5. CASE UNCHANGED vars
    <3>1. ASSUME NEW u \in Tenant PROVE Same(u)
      BY <2>5 DEF Same, vars, serverVars, boundVars, historyVars, markVars
    <3>2. QED
      BY <3>1, <1>1, <1>3, Elsewhere
  <2>6. QED
    BY <2>1, <2>2, <2>3, <2>4, <2>5 DEF Next, Steps
<1>5. QED
  BY <1>2, <1>4 DEF IInv, Tidy, Clean, Unlost, Good

\* which holds at the start.
LEMMA IInvInit == Init => IInv
<1> SUFFICES ASSUME Init PROVE IInv
  OBVIOUS
<1>1. Typed
  BY TypedInit
<1>2. \A r \in Req : req[r] = Idle
  BY DEF Init
<1>3. ASSUME NEW t \in Tenant PROVE Good(t)
  <2>1. \A r \in Req : ~Served(r, t) /\ ~Editing(r, t)
    BY <1>2 DEF Served, Working, Editing, Idle, Admin
  <2>2. config[t] = NoConfig /\ instances[t] = NoInstance /\ rows[t] = {} /\ acked[t] = {}
    BY DEF Init
  <2>3. Published(t)
    BY <2>2, Values DEF Init, Published
  <2>4. QED
    BY <2>1, <2>2, <2>3 DEF Good, Apart, Staged, Settled, Emptied, Filed, Edits, Changing
<1>4. QED
  BY <1>1, <1>3, GoodIs

\* Whatever the programs, requests and bounds, every reachable state has it.
THEOREM Invariant == Spec => []IInv
BY IInvInit, IInvStep, PTL DEF Spec

\* The variables have their types: the table of configs, the instances and their
\* pools, the artifact files and the requests of AppConfigStore and AppInstanceStore.
THEOREM Typing == Spec => []TypeOK
<1>1. IInv => TypeOK
  BY DEF IInv, Typed
<1>2. QED
  BY <1>1, Invariant, PTL

\* A program that no overlap or failure has torn since the server was started has an
\* open instance made from its config, or neither; only a torn one makes the list of
\* programs fail, or a PUT end the server.
THEOREM InstancesAgree == Spec => []InstanceIsOfConfig
<1>1. IInv => InstanceIsOfConfig
  <2> SUFFICES ASSUME IInv PROVE InstanceIsOfConfig
    OBVIOUS
  <2>1. Typed /\ (\A t \in Tenant : Good(t)) /\ Sorted /\ Sounds
    BY GoodIs, TypedIsSorted
  <2>2. ASSUME NEW t \in Tenant, t \notin torn, Quiet(t) PROVE Settled(t)
    BY <2>1, <2>2 DEF Good, Staged, Resting, Changing, Served, Quiet
  <2>3. \A t \in Tenant : rows[t] \in SUBSET (0 .. MaxPushes) /\ rows[t] # Error
    <3>1. \A t \in Tenant : rows[t] \in SUBSET (0 .. MaxPushes)
      BY <2>1 DEF Typed, Shape
    <3>2. QED
      BY <3>1, Values
  <2>4. ASSUME NEW t \in Tenant, t \notin torn, Quiet(t)
        PROVE  IF config[t] = NoConfig THEN instances[t] = NoInstance /\ (rows[t] = {} \/ t \in frayed)
               ELSE Shown(t) = rows[t] /\ instances[t].edits = config[t].edits
    BY <2>2, <2>4 DEF Settled, Emptied, Serves, Running, Shown, Entities
  <2>5. ASSUME \A t \in Tenant : t \notin torn /\ Quiet(t) PROVE Listed # Error
    <3> DEFINE Apps == {t \in Tenant : config[t] # NoConfig}
               all == {<<t, Entities(t)>> : t \in Apps}
    <3>1. ASSUME NEW t \in Apps PROVE Entities(t) = rows[t]
      BY <2>2, <2>5 DEF Settled, Serves, Running, Entities
    <3>2. all \in SUBSET (Tenant \X SUBSET (0 .. MaxPushes))
      BY <3>1, <2>3
    <3>3. Listed = all
      BY <3>1, <2>3 DEF Listed
    <3> HIDE DEF all
    <3>4. QED
      BY <3>2, <3>3, Values
  <2>6. ASSUME NEW r \in Req, Dies(r) PROVE req[r].tenant \in torn
    <3> SUFFICES ASSUME req[r].tenant \notin torn PROVE FALSE
      OBVIOUS
    <3>1. req[r].at = "swap" /\ instances[req[r].tenant].id \in closed[req[r].tenant]
      BY <2>6 DEF Dies
    <3>2. PICK t \in Tenant : t = req[r].tenant
      BY <3>1, <2>1, Known
    <3>3. Served(r, t)
      BY <3>1, <3>2 DEF Served, Working
    <3>4. Stage(r, t)
      BY <3>2, <3>3, <2>1 DEF Good, Staged
    <3>5. QED
      BY <3>1, <3>2, <3>4, StageIs DEF Running
  <2>7. QED
    BY <2>4, <2>5, <2>6 DEF InstanceIsOfConfig
<1>2. QED
  BY <1>1, Invariant, PTL

\* The artifact files of a program that no overlap or failure has ever frayed are the
\* one of its config, or none.
THEOREM FilesAgree == Spec => []FilesKnown
<1>1. IInv => FilesKnown
  BY GoodIs DEF FilesKnown, Good, Filed, Published, Resting, Changing, Served, Quiet
<1>2. QED
  BY <1>1, Invariant, PTL

\* A push that was answered "success" is in the events of its program.
THEOREM PushesStay == Spec => []PushesKept
<1>1. IInv => PushesKept
  BY GoodIs DEF PushesKept, Good
<1>2. QED
  BY <1>1, Invariant, PTL

\* An edit that was answered "success" is in the config.
THEOREM EditsStay == Spec => []EditsKept
<1>1. IInv => EditsKept
  BY GoodIs DEF EditsKept, Good, Edits
<1>2. QED
  BY <1>1, Invariant, PTL
=============================================================================

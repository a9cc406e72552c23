---------------------------- MODULE EntityApply ----------------------------
(***************************************************************************)
(* What submitForm does to the entities of one replica:                    *)
(* EventApplierService over EntityStore and its two storage adapters.      *)
(*                                                                         *)
(* Several callers run submitForm over the same store: on a device its     *)
(* user and the download loop, on the server one push handler per device   *)
(* and the administrator.  Each submits its own forms one at a time, by    *)
(* timestamp.  A step is what happens between two awaits that touch the    *)
(* store, so the callers interleave wherever the code can be suspended.    *)
(*                                                                         *)
(* Abstracted: the fields of an entity are the set of forms merged into    *)
(* them; which entities count as similar is a constant relation; nested    *)
(* groups inside one form go one level deep; audit entries, which are only *)
(* ever appended, and custom event appliers are left out.                  *)
(***************************************************************************)
EXTENDS Naturals, FiniteSets, Sequences

CONSTANTS
    Caller,      \* who runs submitForm
    Entity,      \* guids of entities
    Groups,      \* the entities that are groups, the others are individuals
    Form,        \* form submissions
    By,          \* By[f]: the caller that submits f
    Type,        \* Type[f]: see FormType
    Target,      \* Target[f]: entityGuid of f
    Others,      \* Others[f]: data.members, memberId or the duplicate named in f
    Stamp,       \* Stamp[f]: timestamp of f
    Remote,      \* forms with syncLevel REMOTE or EXTERNAL
    Sent,        \* sets of forms: what the callers have to submit is one of them
    Alike,       \* Alike[e]: entities that searchEntities may return for e
    Absent,      \* "no such entity"
    NoForm,      \* "no form under way"
    OneOfEach,   \* IndexedDB: a delete cleans one pair per index, not every pair
    MaxDepth,    \* bound: how deep a cascade may recurse
    MaxFaults,   \* bound: how many calls may throw
    MaxClock     \* bound: where the clock stops

\* "heal" is the update-group that loadGroupDetails submits; "merge" is a
\* resolve-duplicate with shouldDelete.
FormType == {"individual", "group", "heal", "add", "remove", "delete",
             "resolve", "merge"}

ASSUME EntityAssumption ==
    /\ Groups \subseteq Entity
    /\ Absent \notin Entity
    /\ NoForm \notin Form
    /\ Alike \in [Entity -> SUBSET Entity]

\* Forms fit the entities they name, and no group is named a member of itself.
ASSUME FormAssumption ==
    /\ By \in [Form -> Caller]
    /\ Type \in [Form -> FormType]
    /\ Target \in [Form -> Entity]
    /\ Others \in [Form -> SUBSET Entity]
    /\ Stamp \in [Form -> Nat]
    /\ Remote \subseteq Form
    /\ Sent \subseteq SUBSET Form
    /\ \A f \in Form :
         /\ Target[f] \notin Others[f]
         /\ Type[f] \in {"group", "heal", "add", "remove"} => Target[f] \in Groups
         /\ Type[f] = "individual" => Target[f] \notin Groups
         /\ Type[f] \in {"add", "remove", "resolve", "merge"} => \E m \in Entity : Others[f] = {m}

ASSUME BoundAssumption ==
    /\ OneOfEach \in BOOLEAN
    /\ MaxDepth \in Nat
    /\ MaxFaults \in Nat
    /\ MaxClock \in Nat

VARIABLES
    clock,       \* the time of this replica
    events,      \* forms in the event store
    store,       \* store[e]: the EntityPair of e
    pairs,       \* potentialDuplicates
    outcome,     \* outcome[f]: what became of f, "kept" for kept-local
    pc,          \* pc[c]: where the submitForm of c stands
    form,        \* form[c]: formData
    entityPair,  \* entityPair[c]: what c last read of form[c]'s target
    todo,        \* todo[c]: members to save, or duplicates to flag
    stack,       \* stack[c]: the cascadeDeleteEntity calls, innermost last
    faults       \* calls that threw for no reason of their own

callVars == <<pc, form, entityPair, todo, stack>>
vars == <<clock, events, store, pairs, outcome, callVars, faults>>

Doc == [version: Nat, updated: Nat, has: SUBSET Form, members: SUBSET Entity]
Pair == [initial: Doc, modified: Doc]
ASSUME AbsentAssumption == Absent \notin Doc \cup Pair

Frame == [guid: Entity, rest: SUBSET Entity]
PC == {"idle", "save", "individual", "members", "read", "member", "attach", "detach",
       "look", "resolve", "cascade", "clean", "flag", "pairs"}
Outcome == {"never", "new", "running", "applied", "kept", "failed"}

TypeOK ==
    /\ clock \in Nat
    /\ events \in SUBSET Form
    /\ store \in [Entity -> Pair \cup {Absent}]
    /\ pairs \in SUBSET (Entity \X Entity)
    /\ outcome \in [Form -> Outcome]
    /\ pc \in [Caller -> PC]
    /\ form \in [Caller -> Form \cup {NoForm}]
    /\ entityPair \in [Caller -> Pair \cup {Absent}]
    /\ todo \in [Caller -> SUBSET Entity]
    /\ stack \in [Caller -> Seq(Frame)]
    /\ faults \in 0 .. MaxFaults

Init ==
    /\ clock = 0
    /\ events = {}
    /\ store = [e \in Entity |-> Absent]
    /\ pairs = {}
    /\ \E sent \in Sent : outcome = [f \in Form |-> IF f \in sent THEN "new" ELSE "never"]
    /\ pc = [c \in Caller |-> "idle"]
    /\ form = [c \in Caller |-> NoForm]
    /\ entityPair = [c \in Caller |-> Absent]
    /\ todo = [c \in Caller |-> {}]
    /\ stack = [c \in Caller |-> <<>>]
    /\ faults = 0

(***************************************************************************)
(* Documents and the conflict decision.                                    *)
(***************************************************************************)

\* createOrUpdateIndividual and createOrUpdateGroup with no existing entity:
\* version 0, then the increment.  createNewEntity is for custom appliers only.
NewDoc(f, members) == [version |-> 1, updated |-> clock, has |-> {f}, members |-> members]

\* The next version of a document, with f merged into it.
Revised(doc, f, members) ==
    [version |-> doc.version + 1, updated |-> clock,
     has |-> doc.has \cup {f}, members |-> members]

\* Mutant: the two arguments of saveEntity swapped.
Saved_Swapped(s, e, initial, modified) ==
    [s EXCEPT ![e] = [initial |-> modified, modified |-> initial]]

\* saveEntity: one put, or one INSERT ... ON CONFLICT DO UPDATE.
Saved(s, e, initial, modified) == [s EXCEPT ![e] = [initial |-> initial, modified |-> modified]]

Stored(e) == store[e] # Absent

\* memberIds, for what is stored as a group
MembersOf(e) == IF Stored(e) /\ e \in Groups THEN store[e].modified.members ELSE {}

\* hasLocalChanges
LocalChanges(pair) == pair.initial.version # pair.modified.version

Conflict(c) ==
    /\ entityPair[c] # Absent
    /\ form[c] \in Remote
    /\ LocalChanges(entityPair[c])

\* The local document was saved no earlier than the form was filled in.
LocalWins(c) == Conflict(c) /\ entityPair[c].modified.updated >= Stamp[form[c]]

\* Mutant: every form starts from the initial side.
Base_Initial(c) == IF entityPair[c] = Absent THEN Absent ELSE entityPair[c].initial

\* baseEntity: what the form is merged into.
Base(c) ==
    IF entityPair[c] = Absent THEN Absent
    ELSE IF Conflict(c) THEN entityPair[c].initial ELSE entityPair[c].modified

(***************************************************************************)
(* submitForm, from one await to the next.                                 *)
(***************************************************************************)

At(c, where) == pc[c] = where /\ UNCHANGED clock

Go(c, where) == pc' = [pc EXCEPT ![c] = where] /\ UNCHANGED <<form, outcome>>

\* The call returns or throws, and its locals are gone.
Finish(c, how) ==
    /\ outcome' = [outcome EXCEPT ![form[c]] = how]
    /\ pc' = [pc EXCEPT ![c] = "idle"]
    /\ form' = [form EXCEPT ![c] = NoForm]
    /\ entityPair' = [entityPair EXCEPT ![c] = Absent]
    /\ todo' = [todo EXCEPT ![c] = {}]
    /\ stack' = [stack EXCEPT ![c] = <<>>]

Tick ==
    /\ clock < MaxClock
    /\ clock' = clock + 1
    /\ UNCHANGED <<events, store, pairs, outcome, callVars, faults>>

\* loadGroupDetails submits its update-group when it has met a missing member.
MissesMember(g) == \E m \in MembersOf(g) : ~Stored(m)

\* A caller awaits each submitForm before the next, and takes them by timestamp.
Begin(c) ==
    /\ At(c, "idle")
    /\ \E f \in Form :
         /\ By[f] = c /\ outcome[f] = "new"
         /\ \A g \in Form : By[g] = c /\ Stamp[g] < Stamp[f] => outcome[g] \notin {"new", "running"}
         /\ Type[f] = "heal" => MissesMember(Target[f])
         /\ outcome' = [outcome EXCEPT ![f] = "running"]
         /\ form' = [form EXCEPT ![c] = f]
         /\ entityPair' = [entityPair EXCEPT ![c] = store[Target[f]]]
    /\ pc' = [pc EXCEPT ![c] = "save"]
    /\ UNCHANGED <<events, store, pairs, todo, stack, faults>>

\* Where the dispatch on formData.type leads.
Dispatch(f) ==
    CASE Type[f] = "individual" -> "individual"
      [] Type[f] \in {"group", "heal"} -> "members"
      [] Type[f] \in {"add", "remove"} -> "read"
      [] Type[f] = "delete" -> "cascade"
      [] Type[f] \in {"resolve", "merge"} -> "resolve"

\* Mutant: what was downloaded is taken to be in the store already.
Logged_Local(f) == IF f \in Remote THEN events ELSE events \cup {f}

\* saveEvent
Logged(f) == events \cup {f}

\* saveEvent, handleIncomingConflict and the dispatch.  Members of the form are
\* for createOrUpdateGroup; an update-group by loadGroupDetails carries none,
\* its memberIds are merged into data and nowhere else.
StoreEvent(c) ==
    LET f == form[c] IN
    /\ At(c, "save")
    /\ events' = Logged(f)
    /\ \/ LocalWins(c) /\ Finish(c, "kept")
       \/ /\ ~LocalWins(c)
          /\ Type[f] = "delete" /\ entityPair[c] = Absent
          /\ Finish(c, "applied")
       \/ /\ ~LocalWins(c)
          /\ Type[f] = "delete" => entityPair[c] # Absent
          /\ Go(c, Dispatch(f))
          /\ todo' = [todo EXCEPT ![c] = CASE Type[f] = "group" -> Others[f]
                                           [] Type[f] = "delete" -> {Target[f]}
                                           [] OTHER -> {}]
          /\ UNCHANGED <<entityPair, stack>>
    /\ UNCHANGED <<store, pairs, faults>>

\* Mutant: the new document on both sides, as createOrUpdateGroup does.
InitialSide_Level(c, new) == new

\* Mutant: "|| individual" forgotten: a new entity has no initial side.
InitialSide_Missing(c, new) == Base(c)

\* What createOrUpdateIndividual saves as initial: the document it starts from,
\* whatever the store held as initial, or for a new entity the entity itself.
InitialSide(c, new) == IF Base(c) = Absent THEN new ELSE Base(c)

\* createOrUpdateIndividual on the target.
SaveIndividual(c) ==
    LET f == form[c]
        new == IF Base(c) = Absent THEN NewDoc(f, {}) ELSE Revised(Base(c), f, {})
    IN
    /\ At(c, "individual")
    /\ store' = Saved(store, Target[f], InitialSide(c, new), new)
    /\ Go(c, "flag")
    /\ UNCHANGED <<events, pairs, entityPair, todo, stack, faults>>

\* A member of a form is created anew, whatever the store holds under its guid.
Created(s, c, m) == Saved(s, m, NewDoc(form[c], {}), NewDoc(form[c], {}))

\* createOrUpdateGroup, its members: one Promise.all, so in any order.
SaveMember(c) ==
    /\ At(c, "members")
    /\ \E m \in todo[c] :
         /\ store' = Created(store, c, m)
         /\ todo' = [todo EXCEPT ![c] = @ \ {m}]
    /\ UNCHANGED <<events, pairs, outcome, pc, form, entityPair, stack, faults>>

\* createOrUpdateGroup, the group: saved as its own initial.
SaveGroup(c) ==
    LET f == form[c]
        named == IF Type[f] = "group" THEN Others[f] ELSE {}
        new == IF Base(c) = Absent THEN NewDoc(f, named)
               ELSE Revised(Base(c), f, Base(c).members \cup named)
    IN
    /\ At(c, "members") /\ todo[c] = {}
    /\ store' = Saved(store, Target[f], new, new)
    /\ Go(c, "flag")
    /\ UNCHANGED <<events, pairs, entityPair, todo, stack, faults>>

\* addMemberToGroup and removeMemberFromGroup read the group a second time.
ReadGroup(c) ==
    LET f == form[c] IN
    /\ At(c, "read")
    /\ IF Stored(Target[f])
       THEN /\ entityPair' = [entityPair EXCEPT ![c] = store[Target[f]]]
            /\ Go(c, IF Type[f] = "add" THEN "member" ELSE "detach")
            /\ UNCHANGED <<todo, stack>>
       ELSE Finish(c, "failed")
    /\ UNCHANGED <<events, store, pairs, faults>>

\* addMemberToGroup: the member first ...
AddMember(c) ==
    /\ At(c, "member")
    /\ \E m \in Others[form[c]] : store' = Created(store, c, m)
    /\ Go(c, "attach")
    /\ UNCHANGED <<events, pairs, entityPair, todo, stack, faults>>

\* ... then the group as it was read, with the member in it.
Attach(c) ==
    LET f == form[c]
        group == entityPair[c].modified
        new == IF Others[f] \subseteq group.members THEN group
               ELSE Revised(group, f, group.members \cup Others[f])
    IN
    /\ At(c, "attach")
    /\ store' = Saved(store, Target[f], entityPair[c].initial, new)
    /\ Go(c, "flag")
    /\ UNCHANGED <<events, pairs, entityPair, todo, stack, faults>>

\* removeFromGroupStructure and the save.
Detach(c) ==
    LET f == form[c]
        group == entityPair[c].modified
    IN
    /\ At(c, "detach")
    /\ store' = Saved(store, Target[f], entityPair[c].initial,
                      Revised(group, f, group.members \ Others[f]))
    /\ Go(c, "look")
    /\ UNCHANGED <<events, pairs, entityPair, todo, stack, faults>>

\* A removed individual stays an entity, a removed group is deleted.
Look(c) ==
    LET subgroups == {m \in Others[form[c]] : Stored(m) /\ m \in Groups} IN
    /\ At(c, "look")
    /\ todo' = [todo EXCEPT ![c] = subgroups]
    /\ Go(c, IF subgroups = {} THEN "flag" ELSE "cascade")
    /\ UNCHANGED <<events, store, pairs, entityPair, stack, faults>>

\* resolvePotentialDuplicates, then deleteEntity if shouldDelete.
Resolve(c) ==
    LET f == form[c]
        deletes == Type[f] = "merge" /\ entityPair[c] # Absent
    IN
    /\ At(c, "resolve")
    /\ pairs' = pairs \ {<<Target[f], d>> : d \in Others[f]}
    /\ IF deletes
       THEN /\ Go(c, "cascade")
            /\ todo' = [todo EXCEPT ![c] = {Target[f]}]
            /\ UNCHANGED <<entityPair, stack>>
       ELSE Finish(c, "applied")
    /\ UNCHANGED <<events, store, faults>>

(***************************************************************************)
(* cascadeDeleteEntity.  The stack holds the calls under way; todo holds   *)
(* the guid of the first call until it is made.                            *)
(***************************************************************************)

Top(c) == stack[c][Len(stack[c])]
Below(c) == SubSeq(stack[c], 1, Len(stack[c]) - 1)

\* A call reads its entity, and remembers the members it read.
Call(m) == [guid |-> m, rest |-> MembersOf(m)]

\* Mutant: a cascade does not tick off the member it has called.
Called_Again(frame, m) == frame

\* Member m is being dealt with.
Called(frame, m) == [frame EXCEPT !.rest = @ \ {m}]

\* The first call, or the next member of the innermost one.
Descend(c) ==
    /\ At(c, "cascade")
    /\ Len(stack[c]) < MaxDepth
    /\ \/ \E m \in todo[c] :
            /\ stack' = [stack EXCEPT ![c] = <<Call(m)>>]
            /\ todo' = [todo EXCEPT ![c] = @ \ {m}]
       \/ /\ stack[c] # <<>>
          /\ \E m \in Top(c).rest :
               stack' = [stack EXCEPT ![c] = Below(c) \o <<Called(Top(c), m), Call(m)>>]
          /\ UNCHANGED todo
    /\ UNCHANGED <<events, store, pairs, outcome, pc, form, entityPair, faults>>

\* Mutant: the entity goes before its members are looked at.
Remove_Early(c) ==
    /\ At(c, "cascade")
    /\ stack[c] # <<>>
    /\ store' = [store EXCEPT ![Top(c).guid] = Absent]
    /\ Go(c, "clean")
    /\ UNCHANGED <<events, pairs, entityPair, todo, stack, faults>>

\* Nothing left below it: the entity goes,
Remove(c) ==
    /\ At(c, "cascade")
    /\ stack[c] # <<>> /\ Top(c).rest = {}
    /\ store' = [store EXCEPT ![Top(c).guid] = Absent]
    /\ Go(c, "clean")
    /\ UNCHANGED <<events, pairs, entityPair, todo, stack, faults>>

\* What deleteEntity of the adapter takes out of potentialDuplicates: Postgres
\* every pair that names e, IndexedDB the one its index.get finds on each side.
Cleaned(e, left) ==
    LET first == {p \in pairs : p[1] = e}
        second == {p \in pairs : p[2] = e}
        OneOf(set) == {{p} : p \in set} \cup (IF set = {} THEN {{}} ELSE {})
    IN  IF OneOfEach
        THEN \E a \in OneOf(first), b \in OneOf(second) : left = pairs \ (a \cup b)
        ELSE left = pairs \ (first \cup second)

\* and then its pairs; the call returns to the one below it, or to submitForm,
\* which flags the group of a remove-member and returns null for the others.
Clean(c) ==
    /\ At(c, "clean")
    /\ \E left \in SUBSET pairs : Cleaned(Top(c).guid, left) /\ pairs' = left
    /\ IF Len(stack[c]) = 1 /\ Type[form[c]] # "remove"
       THEN Finish(c, "applied")
       ELSE /\ Go(c, IF Len(stack[c]) = 1 THEN "flag" ELSE "cascade")
            /\ stack' = [stack EXCEPT ![c] = Below(c)]
            /\ UNCHANGED <<entityPair, todo>>
    /\ UNCHANGED <<events, store, faults>>

(***************************************************************************)
(* flagPotentialDuplicate, and failure.                                    *)
(***************************************************************************)

\* getEntity and searchEntities; what matches depends on the data.
Flag(c) ==
    LET t == Target[form[c]]
        similar == {d \in Alike[t] \ {t} : Stored(d)}
    IN
    /\ At(c, "flag")
    /\ \/ ~Stored(t) /\ Finish(c, "failed")
       \/ Stored(t) /\ Finish(c, "applied")
       \/ /\ Stored(t)
          /\ \E found \in SUBSET similar \ {{}} : todo' = [todo EXCEPT ![c] = found]
          /\ Go(c, "pairs")
          /\ UNCHANGED <<entityPair, stack>>
    /\ UNCHANGED <<events, store, pairs, faults>>

\* savePotentialDuplicates, one found entity after the other.
SavePair(c) ==
    /\ At(c, "pairs")
    /\ \E d \in todo[c] :
         /\ pairs' = pairs \cup {<<Target[form[c]], d>>}
         /\ IF todo[c] = {d}
            THEN Finish(c, "applied")
            ELSE /\ todo' = [todo EXCEPT ![c] = @ \ {d}]
                 /\ UNCHANGED <<outcome, pc, form, entityPair, stack>>
    /\ UNCHANGED <<events, store, faults>>

\* A database call throws, or the program stops: what is written stays, and
\* nothing undoes it.  The saves that one Promise.all has started go on.
Throw(c) ==
    /\ pc[c] # "idle" /\ UNCHANGED clock
    /\ faults < MaxFaults
    /\ faults' = faults + 1
    /\ \E started \in SUBSET todo[c] :
         /\ pc[c] # "members" => started = {}
         /\ store' = [e \in Entity |-> IF e \in started THEN Created(store, c, e)[e] ELSE store[e]]
    /\ Finish(c, "failed")
    /\ UNCHANGED <<events, pairs>>

Step(c) ==
    \/ StoreEvent(c) \/ SaveIndividual(c) \/ SaveMember(c) \/ SaveGroup(c)
    \/ ReadGroup(c) \/ AddMember(c) \/ Attach(c) \/ Detach(c) \/ Look(c)
    \/ Resolve(c) \/ Descend(c) \/ Remove(c) \/ Clean(c)
    \/ Flag(c) \/ SavePair(c)

Next == Tick \/ \E c \in Caller : Begin(c) \/ Step(c) \/ Throw(c)

Spec == Init /\ [][Next]_vars

\* A started call goes on: its awaits settle.  Nobody has to submit a form, and
\* the clock need not move.
FairSpec == Spec /\ \A c \in Caller : WF_vars(Step(c))
(***************************************************************************)
(* Properties of any number of callers.                                    *)
(***************************************************************************)

\* handleIncomingConflict compares the versions of the two sides only for being
\* different: the initial side never overtakes the modified one and has nothing
\* merged into it that the modified one lacks, whatever stale pair was saved.
InitialBehind ==
    \A e \in Entity : Stored(e) =>
        /\ store[e].initial.version <= store[e].modified.version
        /\ store[e].initial.has \subseteq store[e].modified.has

\* An individual has local changes from its second form on, for good, whoever
\* sent the forms and however they interleaved: syncing never levels the sides.
NeverSettled ==
    \A e \in Entity \ Groups : Stored(e) =>
        (LocalChanges(store[e]) <=> store[e].modified.version > 1)

\* Whatever failed or interleaved, what an entity shows came from an event that
\* the log holds, so the log can account for it.
MergedIsLogged == \A e \in Entity : Stored(e) => store[e].modified.has \subseteq events

(***************************************************************************)
(* Properties of a store while every form comes from one caller.           *)
(***************************************************************************)

\* So far one caller has submitted forms.
Alone == \E c \in Caller : \A f \in Form : outcome[f] \notin {"never", "new"} => By[f] = c

\* An entity is deleted only after everything it has as a member: a cascade
\* leaves no member behind, not even one that failed and was called again.
MembersGoFirst ==
    [][Alone => \A e \in Entity : Stored(e) /\ store'[e] = Absent
          => \A m \in MembersOf(e) : ~Stored(m)]_vars

\* A member leaves a group that stays only by a remove-member that names both, when
\* a form names the group itself as a member and so creates it anew, or when a form
\* for the group that was synced wins a conflict and starts from the initial side.
MembersKept ==
    [][Alone => \A g \in Groups : Stored(g) /\ store'[g] # Absent =>
          \A m \in MembersOf(g) \ store'[g].modified.members :
             \E c \in Caller :
                LET f == form[c] IN
                /\ f # NoForm
                /\ \/ Type[f] = "remove" /\ Target[f] = g /\ m \in Others[f]
                   \/ Type[f] \in {"add", "group"} /\ g \in Others[f]
                   \/ Type[f] \in {"group", "heal"} /\ Target[f] = g /\ Conflict(c)]_vars

\* Every submitForm that starts returns or throws; a cascade comes to an end.
CallsEnd == \A c \in Caller : pc[c] # "idle" ~> pc[c] = "idle"

(***************************************************************************)
(* What the tests and documents say, and the code does not keep.           *)
(***************************************************************************)

\* A form loses to the local document only against a newer form
\* (EntityDataManager.test.ts: "resolve sync conflicts using latest timestamp
\* precedence").
LatestWins ==
    \A f \in Form : outcome[f] = "kept" =>
        \E g \in Form : outcome[g] = "applied" /\ Target[g] = Target[f] /\ Stamp[g] >= Stamp[f]
=============================================================================

------------------------- MODULE EntityApplyProofs -------------------------
(***************************************************************************)
(* For any number of callers, entities and forms: type correctness of      *)
(* EntityApply, and what holds of the stored pairs however stale a pair a  *)
(* caller saves.  The inductive invariant says where a call stands         *)
(* (Running) and that a pair is sound, in the store as in the hands of a   *)
(* caller (Sound): a pair that was read stays sound while others write.    *)
(* Then two properties of a store while one caller has submitted its forms *)
(* (Alone): what that caller holds is what the store holds (Reading), and  *)
(* its cascade works from below (Cascading).                               *)
(***************************************************************************)
EXTENDS EntityApply, SequenceTheorems, TLAPS

\* What the place a call has reached says about its form and what it has read.
RunningOne(c) ==
    /\ pc[c] # "idle" => form[c] \in Form
    /\ pc[c] = "individual" => Type[form[c]] = "individual"
    /\ pc[c] = "members" => Type[form[c]] \in {"group", "heal"}
    /\ pc[c] = "read" => Type[form[c]] \in {"add", "remove"}
    /\ pc[c] \in {"member", "attach", "detach"} =>
          entityPair[c] # Absent /\ Target[form[c]] \in Groups
    /\ pc[c] = "clean" => stack[c] # <<>>
    /\ pc[c] \notin {"idle", "save"} => form[c] \in events

Running == \A c \in Caller : RunningOne(c)

\* A pair of entity e whose contents the log evs accounts for.
SoundPair(evs, pair, e) ==
    /\ 1 <= pair.initial.version
    /\ pair.initial.version <= pair.modified.version
    /\ pair.initial.has \subseteq pair.modified.has
    /\ pair.modified.has \subseteq evs
    /\ e \notin Groups => (pair.initial.version # pair.modified.version <=> pair.modified.version > 1)

Sound ==
    /\ \A e \in Entity : store[e] # Absent => SoundPair(events, store[e], e)
    /\ \A c \in Caller : pc[c] # "idle" /\ entityPair[c] # Absent
          => SoundPair(events, entityPair[c], Target[form[c]])

(***************************************************************************)
(* Lemmas about the operators.                                             *)
(***************************************************************************)

\* Documents are documents.
LEMMA NewDocType ==
    ASSUME TypeOK, NEW f \in Form, NEW S \in SUBSET Entity
    PROVE  NewDoc(f, S) \in Doc
BY DEF TypeOK, NewDoc, Doc

LEMMA RevisedType ==
    ASSUME TypeOK, NEW f \in Form, NEW S \in SUBSET Entity, NEW doc \in Doc
    PROVE  Revised(doc, f, S) \in Doc
BY DEF TypeOK, Revised, Doc

\* Saving two documents keeps the type of the store, and touches one entity.
LEMMA SavedType ==
    ASSUME NEW s \in [Entity -> Pair \cup {Absent}], NEW e \in Entity, NEW a \in Doc, NEW b \in Doc
    PROVE  /\ Saved(s, e, a, b) \in [Entity -> Pair \cup {Absent}]
           /\ Saved(s, e, a, b)[e] = [initial |-> a, modified |-> b]
           /\ \A x \in Entity \ {e} : Saved(s, e, a, b)[x] = s[x]
BY DEF Saved, Pair

\* What a form is merged into is a document, if there is anything.
LEMMA BaseType ==
    ASSUME TypeOK, NEW c \in Caller, Base(c) # Absent
    PROVE  Base(c) \in Doc /\ entityPair[c] \in Pair /\ entityPair[c] # Absent
<1>1. entityPair[c] # Absent /\ entityPair[c] \in Pair
  BY DEF TypeOK, Base
<1>2. Base(c) \in {entityPair[c].initial, entityPair[c].modified}
  BY <1>1 DEF Base
<1> QED
  BY <1>1, <1>2 DEF Pair

LEMMA MembersType ==
    ASSUME TypeOK, NEW e \in Entity
    PROVE  MembersOf(e) \in SUBSET Entity
<1>1. CASE Stored(e) /\ e \in Groups
  <2>1. store[e] \in Pair
    BY <1>1 DEF TypeOK, Stored
  <2> QED
    BY <1>1, <2>1 DEF MembersOf, Pair, Doc
<1>2. CASE ~(Stored(e) /\ e \in Groups)
  BY <1>2 DEF MembersOf
<1> QED
  BY <1>1, <1>2

\* The calls of a cascade: the innermost one, and the stack below it.
LEMMA StackType ==
    ASSUME TypeOK, NEW c \in Caller, stack[c] # <<>>
    PROVE  /\ Top(c) \in Frame
           /\ Below(c) \in Seq(Frame)
<1>1. stack[c] \in Seq(Frame)
  BY DEF TypeOK
<1>2. Len(stack[c]) \in Nat /\ Len(stack[c]) >= 1
  BY <1>1, EmptySeq
<1>3. \A i \in 1 .. Len(stack[c]) : stack[c][i] \in Frame
  BY <1>1, ElementOfSeq
<1>4. \A i \in 1 .. (Len(stack[c]) - 1) : stack[c][i] \in Frame
  BY <1>2, <1>3
<1>5. Below(c) \in Seq(Frame)
  <2> DEFINE n == Len(stack[c]) - 1
  <2>1. n \in Int /\ 1 \in Int
    BY <1>2
  <2>2. \A i \in 1 .. n : stack[c][i] \in Frame
    BY <1>4
  <2>3. SubSeq(stack[c], 1, n) \in Seq(Frame)
    <3> HIDE DEF n
    <3> QED
      BY <2>1, <2>2, SubSeqProperties
  <2> QED
    BY <2>3 DEF Below
<1>6. Len(stack[c]) \in 1 .. Len(stack[c])
  BY <1>2
<1> QED
  BY <1>3, <1>5, <1>6 DEF Top

LEMMA CallType ==
    ASSUME TypeOK, NEW m \in Entity
    PROVE  Call(m) \in Frame
BY MembersType DEF Call, Frame

(***************************************************************************)
(* Type correctness.                                                       *)
(***************************************************************************)

\* What Finish and Go leave well-typed.
LEMMA FinishType ==
    ASSUME TypeOK, Running, NEW c \in Caller, pc[c] # "idle", NEW how \in Outcome, Finish(c, how)
    PROVE  /\ outcome' \in [Form -> Outcome]
           /\ pc' \in [Caller -> PC]
           /\ form' \in [Caller -> Form \cup {NoForm}]
           /\ entityPair' \in [Caller -> Pair \cup {Absent}]
           /\ todo' \in [Caller -> SUBSET Entity]
           /\ stack' \in [Caller -> Seq(Frame)]
<1>1. form[c] \in Form
  BY DEF Running, RunningOne
<1>2. <<>> \in Seq(Frame)
  OBVIOUS
<1>3. outcome' \in [Form -> Outcome]
  BY <1>1 DEF TypeOK, Finish
<1>4. stack' \in [Caller -> Seq(Frame)]
  BY <1>2 DEF TypeOK, Finish
<1> QED
  BY <1>3, <1>4 DEF TypeOK, Finish, PC

LEMMA GoType ==
    ASSUME TypeOK, NEW c \in Caller, NEW where \in PC, Go(c, where)
    PROVE  /\ outcome' \in [Form -> Outcome]
           /\ pc' \in [Caller -> PC]
           /\ form' \in [Caller -> Form \cup {NoForm}]
BY DEF TypeOK, Go

LEMMA DispatchType ==
    ASSUME NEW f \in Form
    PROVE  Dispatch(f) \in PC \ {"idle", "save", "member", "attach", "detach", "look", "clean", "flag", "pairs"}
<1>1. Type[f] \in FormType
  BY FormAssumption
<1> QED
  BY <1>1 DEF Dispatch, FormType, PC

LEMMA TypeStep ==
    ASSUME TypeOK, Running, [Next]_vars
    PROVE  TypeOK'
<1> USE DEF At
<1>1. CASE Tick
  BY <1>1 DEF TypeOK, Tick, callVars
<1>2. ASSUME NEW c \in Caller, Begin(c) PROVE TypeOK'
  <2>1. PICK f \in Form :
           /\ outcome' = [outcome EXCEPT ![f] = "running"]
           /\ form' = [form EXCEPT ![c] = f]
           /\ entityPair' = [entityPair EXCEPT ![c] = store[Target[f]]]
    BY <1>2 DEF Begin
  <2>2. store[Target[f]] \in Pair \cup {Absent}
    BY FormAssumption DEF TypeOK
  <2>3. outcome' \in [Form -> Outcome]
    BY <2>1 DEF TypeOK, Outcome
  <2>4. form' \in [Caller -> Form \cup {NoForm}] /\ entityPair' \in [Caller -> Pair \cup {Absent}]
    BY <2>1, <2>2 DEF TypeOK
  <2>5. pc' \in [Caller -> PC]
    BY <1>2 DEF TypeOK, Begin, PC
  <2> QED
    BY <1>2, <2>3, <2>4, <2>5 DEF TypeOK, Begin
<1>3. ASSUME NEW c \in Caller, StoreEvent(c) PROVE TypeOK'
  <2>1. form[c] \in Form
    BY <1>3 DEF Running, RunningOne, StoreEvent
  <2>2. events' \in SUBSET Form
    BY <1>3, <2>1 DEF TypeOK, StoreEvent, Logged
  <2>3. CASE Finish(c, "kept") \/ Finish(c, "applied")
    BY <1>3, <2>2, <2>3, FinishType DEF TypeOK, StoreEvent, Outcome
  <2>4. CASE ~(Finish(c, "kept") \/ Finish(c, "applied"))
    <3>1. /\ Go(c, Dispatch(form[c]))
          /\ UNCHANGED <<entityPair, stack>>
          /\ todo' = [todo EXCEPT ![c] = CASE Type[form[c]] = "group" -> Others[form[c]]
                                           [] Type[form[c]] = "delete" -> {Target[form[c]]}
                                           [] OTHER -> {}]
      BY <1>3, <2>4 DEF StoreEvent
    <3>2. todo' \in [Caller -> SUBSET Entity]
      BY <2>1, <3>1, FormAssumption DEF TypeOK
    <3>3. Dispatch(form[c]) \in PC
      BY <2>1, DispatchType
    <3> QED
      BY <1>3, <2>2, <3>1, <3>2, <3>3, GoType DEF TypeOK, StoreEvent
  <2> QED
    BY <2>3, <2>4
<1>4. ASSUME NEW c \in Caller, SaveIndividual(c) PROVE TypeOK'
  <2> DEFINE f == form[c]
             new == IF Base(c) = Absent THEN NewDoc(f, {}) ELSE Revised(Base(c), f, {})
  <2>1. f \in Form /\ Target[f] \in Entity
    BY <1>4, FormAssumption DEF Running, RunningOne, SaveIndividual
  <2>2. new \in Doc
    BY <2>1, NewDocType, RevisedType, BaseType
  <2>3. InitialSide(c, new) \in Doc
    BY <2>2, BaseType DEF InitialSide
  <2>4. store' = Saved(store, Target[f], InitialSide(c, new), new)
    BY <1>4 DEF SaveIndividual
  <2>5. store \in [Entity -> Pair \cup {Absent}]
    BY DEF TypeOK
  <2>6. store' \in [Entity -> Pair \cup {Absent}]
    <3> HIDE DEF new, f
    <3> QED
      BY <2>1, <2>2, <2>3, <2>4, <2>5, SavedType
  <2>7. "flag" \in PC
    BY DEF PC
  <2> QED
    BY <1>4, <2>6, <2>7, GoType DEF TypeOK, SaveIndividual
<1>5. ASSUME NEW c \in Caller, SaveMember(c) PROVE TypeOK'
  <2>1. PICK m \in todo[c] : store' = Created(store, c, m) /\ todo' = [todo EXCEPT ![c] = @ \ {m}]
    BY <1>5 DEF SaveMember
  <2>2. m \in Entity /\ form[c] \in Form
    BY <1>5, <2>1 DEF TypeOK, Running, RunningOne, SaveMember
  <2>3. store' \in [Entity -> Pair \cup {Absent}]
    BY <2>1, <2>2, NewDocType, SavedType DEF TypeOK, Created
  <2>4. todo' \in [Caller -> SUBSET Entity]
    BY <2>1 DEF TypeOK
  <2> QED
    BY <1>5, <2>3, <2>4 DEF TypeOK, SaveMember
<1>6. ASSUME NEW c \in Caller, SaveGroup(c) PROVE TypeOK'
  <2> DEFINE f == form[c]
             named == IF Type[f] = "group" THEN Others[f] ELSE {}
             new == IF Base(c) = Absent THEN NewDoc(f, named)
                    ELSE Revised(Base(c), f, Base(c).members \cup named)
  <2>1. f \in Form /\ Target[f] \in Entity /\ named \in SUBSET Entity
    BY <1>6, FormAssumption DEF Running, RunningOne, SaveGroup
  <2>2. Base(c) # Absent => Base(c) \in Doc /\ Base(c).members \cup named \in SUBSET Entity
    BY <2>1, BaseType DEF Doc
  <2>3. new \in Doc
    BY <2>1, <2>2, NewDocType, RevisedType
  <2>4. store' = Saved(store, Target[f], new, new)
    BY <1>6 DEF SaveGroup
  <2>5. store \in [Entity -> Pair \cup {Absent}]
    BY DEF TypeOK
  <2>6. store' \in [Entity -> Pair \cup {Absent}]
    <3> HIDE DEF new, f
    <3> QED
      BY <2>1, <2>3, <2>4, <2>5, SavedType
  <2>7. "flag" \in PC
    BY DEF PC
  <2> QED
    BY <1>6, <2>6, <2>7, GoType DEF TypeOK, SaveGroup
<1>7. ASSUME NEW c \in Caller, ReadGroup(c) PROVE TypeOK'
  <2>1. form[c] \in Form /\ pc[c] # "idle" /\ Target[form[c]] \in Entity
    BY <1>7, FormAssumption DEF Running, RunningOne, ReadGroup
  <2>2. CASE Stored(Target[form[c]])
    <3>1. entityPair' \in [Caller -> Pair \cup {Absent}]
      BY <1>7, <2>1, <2>2 DEF TypeOK, ReadGroup
    <3>2. PICK where \in PC : Go(c, where)
      BY <1>7, <2>2 DEF ReadGroup, PC
    <3> QED
      BY <1>7, <2>2, <3>1, <3>2, GoType DEF TypeOK, ReadGroup
  <2>3. CASE ~Stored(Target[form[c]])
    BY <1>7, <2>1, <2>3, FinishType DEF TypeOK, ReadGroup, Outcome
  <2> QED
    BY <2>2, <2>3
<1>8. ASSUME NEW c \in Caller, AddMember(c) PROVE TypeOK'
  <2>1. form[c] \in Form
    BY <1>8 DEF Running, RunningOne, AddMember
  <2>2. PICK m \in Others[form[c]] : store' = Created(store, c, m)
    BY <1>8 DEF AddMember
  <2>3. m \in Entity
    BY <2>1, <2>2, FormAssumption
  <2>4. store' \in [Entity -> Pair \cup {Absent}]
    BY <2>1, <2>2, <2>3, NewDocType, SavedType DEF TypeOK, Created
  <2>5. "attach" \in PC
    BY DEF PC
  <2> QED
    BY <1>8, <2>4, <2>5, GoType DEF TypeOK, AddMember
<1>9. ASSUME NEW c \in Caller, Attach(c) PROVE TypeOK'
  <2> DEFINE f == form[c]
             group == entityPair[c].modified
             new == IF Others[f] \subseteq group.members THEN group
                    ELSE Revised(group, f, group.members \cup Others[f])
  <2>1. f \in Form /\ Target[f] \in Entity /\ Others[f] \in SUBSET Entity
    BY <1>9, FormAssumption DEF Running, RunningOne, Attach
  <2>2. entityPair[c] \in Pair
    BY <1>9 DEF TypeOK, Running, RunningOne, Attach
  <2>3. group \in Doc /\ entityPair[c].initial \in Doc
    BY <2>2 DEF Pair
  <2>4. group.members \cup Others[f] \in SUBSET Entity
    BY <2>1, <2>3 DEF Doc
  <2>5. new \in Doc
    BY <2>1, <2>3, <2>4, RevisedType
  <2>6. store' = Saved(store, Target[f], entityPair[c].initial, new)
    BY <1>9 DEF Attach
  <2>7. store' \in [Entity -> Pair \cup {Absent}]
    <3>1. store \in [Entity -> Pair \cup {Absent}]
      BY DEF TypeOK
    <3> HIDE DEF new, group, f
    <3> QED
      BY <2>1, <2>3, <2>5, <2>6, <3>1, SavedType
  <2>8. "flag" \in PC
    BY DEF PC
  <2> QED
    BY <1>9, <2>7, <2>8, GoType DEF TypeOK, Attach
<1>10. ASSUME NEW c \in Caller, Detach(c) PROVE TypeOK'
  <2> DEFINE f == form[c]
             group == entityPair[c].modified
             new == Revised(group, f, group.members \ Others[f])
  <2>1. f \in Form /\ Target[f] \in Entity
    BY <1>10, FormAssumption DEF Running, RunningOne, Detach
  <2>2. entityPair[c] \in Pair
    BY <1>10 DEF TypeOK, Running, RunningOne, Detach
  <2>3. group \in Doc /\ entityPair[c].initial \in Doc
    BY <2>2 DEF Pair
  <2>4. group.members \ Others[f] \in SUBSET Entity
    BY <2>3 DEF Doc
  <2>5. new \in Doc
    BY <2>1, <2>3, <2>4, RevisedType
  <2>6. store' = Saved(store, Target[f], entityPair[c].initial, new)
    BY <1>10 DEF Detach
  <2>7. store' \in [Entity -> Pair \cup {Absent}]
    <3>1. store \in [Entity -> Pair \cup {Absent}]
      BY DEF TypeOK
    <3> HIDE DEF new, group, f
    <3> QED
      BY <2>1, <2>3, <2>5, <2>6, <3>1, SavedType
  <2>8. "look" \in PC
    BY DEF PC
  <2> QED
    BY <1>10, <2>7, <2>8, GoType DEF TypeOK, Detach
<1>11. ASSUME NEW c \in Caller, Look(c) PROVE TypeOK'
  <2>1. form[c] \in Form
    BY <1>11 DEF Running, RunningOne, Look
  <2>2. todo' \in [Caller -> SUBSET Entity]
    BY <1>11, <2>1, FormAssumption DEF TypeOK, Look
  <2>3. PICK where \in PC : Go(c, where)
    BY <1>11 DEF Look, PC
  <2> QED
    BY <1>11, <2>2, <2>3, GoType DEF TypeOK, Look
<1>12. ASSUME NEW c \in Caller, Resolve(c) PROVE TypeOK'
  <2>1. form[c] \in Form /\ pc[c] # "idle" /\ Target[form[c]] \in Entity
    BY <1>12, FormAssumption DEF Running, RunningOne, Resolve
  <2>2. pairs' \in SUBSET (Entity \X Entity)
    BY <1>12 DEF TypeOK, Resolve
  <2>3. CASE Finish(c, "applied")
    BY <1>12, <2>1, <2>2, <2>3, FinishType DEF TypeOK, Resolve, Outcome
  <2>4. CASE ~Finish(c, "applied")
    <3>1. /\ Go(c, "cascade")
          /\ todo' = [todo EXCEPT ![c] = {Target[form[c]]}]
          /\ UNCHANGED <<entityPair, stack>>
      BY <1>12, <2>4 DEF Resolve
    <3>2. todo' \in [Caller -> SUBSET Entity]
      BY <2>1, <3>1 DEF TypeOK
    <3>3. "cascade" \in PC
      BY DEF PC
    <3> QED
      BY <1>12, <2>2, <3>1, <3>2, <3>3, GoType DEF TypeOK, Resolve
  <2> QED
    BY <2>3, <2>4
<1>13. ASSUME NEW c \in Caller, Descend(c) PROVE TypeOK'
  <2>1. CASE \E m \in todo[c] : stack' = [stack EXCEPT ![c] = <<Call(m)>>]
                             /\ todo' = [todo EXCEPT ![c] = @ \ {m}]
    <3>1. PICK m \in todo[c] : stack' = [stack EXCEPT ![c] = <<Call(m)>>]
                             /\ todo' = [todo EXCEPT ![c] = @ \ {m}]
      BY <2>1
    <3>2. Call(m) \in Frame
      BY CallType DEF TypeOK
    <3>3. <<Call(m)>> \in Seq(Frame)
      BY <3>2
    <3>4. stack' \in [Caller -> Seq(Frame)] /\ todo' \in [Caller -> SUBSET Entity]
      BY <3>1, <3>3 DEF TypeOK
    <3> QED
      BY <1>13, <3>4 DEF TypeOK, Descend
  <2>2. CASE /\ stack[c] # <<>>
             /\ \E m \in Top(c).rest :
                  stack' = [stack EXCEPT ![c] = Below(c) \o <<Called(Top(c), m), Call(m)>>]
             /\ UNCHANGED todo
    <3>1. PICK m \in Top(c).rest :
                  stack' = [stack EXCEPT ![c] = Below(c) \o <<Called(Top(c), m), Call(m)>>]
      BY <2>2
    <3>2. Top(c) \in Frame /\ Below(c) \in Seq(Frame)
      BY <2>2, StackType
    <3>3. m \in Entity
      BY <3>1, <3>2 DEF Frame
    <3>4. Called(Top(c), m) \in Frame /\ Call(m) \in Frame
      BY <3>2, <3>3, CallType DEF Called, Frame
    <3>5. <<Called(Top(c), m), Call(m)>> \in Seq(Frame)
      BY <3>4
    <3>6. Below(c) \o <<Called(Top(c), m), Call(m)>> \in Seq(Frame)
      BY <3>2, <3>5, ConcatProperties
    <3>7. stack' \in [Caller -> Seq(Frame)]
      BY <3>1, <3>6 DEF TypeOK
    <3> QED
      BY <1>13, <2>2, <3>7 DEF TypeOK, Descend
  <2> QED
    BY <1>13, <2>1, <2>2 DEF Descend
<1>14. ASSUME NEW c \in Caller, Remove(c) PROVE TypeOK'
  <2>1. store' \in [Entity -> Pair \cup {Absent}]
    BY <1>14 DEF TypeOK, Remove
  <2>2. "clean" \in PC
    BY DEF PC
  <2> QED
    BY <1>14, <2>1, <2>2, GoType DEF TypeOK, Remove
<1>15. ASSUME NEW c \in Caller, Clean(c) PROVE TypeOK'
  <2>1. pc[c] # "idle" /\ stack[c] # <<>>
    BY <1>15 DEF Running, RunningOne, Clean
  <2>2. pairs' \in SUBSET (Entity \X Entity)
    BY <1>15 DEF TypeOK, Clean
  <2>3. CASE Finish(c, "applied")
    BY <1>15, <2>1, <2>2, <2>3, FinishType DEF TypeOK, Clean, Outcome
  <2>4. CASE ~Finish(c, "applied")
    <3>1. PICK where \in PC : Go(c, where)
      BY <1>15, <2>4 DEF Clean, PC
    <3>2. stack' = [stack EXCEPT ![c] = Below(c)] /\ UNCHANGED <<entityPair, todo>>
      BY <1>15, <2>4 DEF Clean
    <3>3. stack' \in [Caller -> Seq(Frame)]
      BY <2>1, <3>2, StackType DEF TypeOK
    <3> QED
      BY <1>15, <2>2, <3>1, <3>2, <3>3, GoType DEF TypeOK, Clean
  <2> QED
    BY <2>3, <2>4
<1>16. ASSUME NEW c \in Caller, Flag(c) PROVE TypeOK'
  <2>1. pc[c] # "idle"
    BY <1>16 DEF Flag
  <2>2. CASE Finish(c, "failed") \/ Finish(c, "applied")
    BY <1>16, <2>1, <2>2, FinishType DEF TypeOK, Flag, Outcome
  <2>3. CASE ~(Finish(c, "failed") \/ Finish(c, "applied"))
    <3> DEFINE t == Target[form[c]]
    <3>1. form[c] \in Form /\ Alike[t] \in SUBSET Entity
      BY <1>16, FormAssumption, EntityAssumption DEF Running, RunningOne, Flag
    <3>2. Go(c, "pairs") /\ UNCHANGED <<entityPair, stack>>
      BY <1>16, <2>3 DEF Flag
    <3>3. PICK found \in SUBSET {d \in Alike[t] \ {t} : Stored(d)} :
             todo' = [todo EXCEPT ![c] = found]
      BY <1>16, <2>3 DEF Flag
    <3>4. todo' \in [Caller -> SUBSET Entity]
      BY <3>1, <3>3 DEF TypeOK
    <3>5. "pairs" \in PC
      BY DEF PC
    <3> QED
      BY <1>16, <3>2, <3>4, <3>5, GoType DEF TypeOK, Flag
  <2> QED
    BY <2>2, <2>3
<1>17. ASSUME NEW c \in Caller, SavePair(c) PROVE TypeOK'
  <2>1. pc[c] # "idle" /\ form[c] \in Form /\ Target[form[c]] \in Entity
    BY <1>17, FormAssumption DEF Running, RunningOne, SavePair
  <2>2. PICK d \in todo[c] :
           /\ pairs' = pairs \cup {<<Target[form[c]], d>>}
           /\ IF todo[c] = {d}
              THEN Finish(c, "applied")
              ELSE /\ todo' = [todo EXCEPT ![c] = @ \ {d}]
                   /\ UNCHANGED <<outcome, pc, form, entityPair, stack>>
    BY <1>17 DEF SavePair
  <2>3. pairs' \in SUBSET (Entity \X Entity)
    BY <2>1, <2>2 DEF TypeOK
  <2>4. CASE todo[c] = {d}
    BY <1>17, <2>1, <2>2, <2>3, <2>4, FinishType DEF TypeOK, SavePair, Outcome
  <2>5. CASE todo[c] # {d}
    <3>1. todo' \in [Caller -> SUBSET Entity]
      BY <2>2, <2>5, SMTT(60) DEF TypeOK
    <3> QED
      BY <1>17, <2>2, <2>3, <2>5, <3>1 DEF TypeOK, SavePair
  <2> QED
    BY <2>4, <2>5
<1>18. ASSUME NEW c \in Caller, Throw(c) PROVE TypeOK'
  <2>1. pc[c] # "idle" /\ form[c] \in Form
    BY <1>18 DEF Running, RunningOne, Throw
  <2>2. ASSUME NEW e \in Entity PROVE Created(store, c, e)[e] \in Pair
    <3>1. NewDoc(form[c], {}) \in Doc /\ store \in [Entity -> Pair \cup {Absent}]
      BY <2>1, NewDocType DEF TypeOK
    <3>2. Created(store, c, e)[e] = [initial |-> NewDoc(form[c], {}), modified |-> NewDoc(form[c], {})]
      BY <3>1, SavedType DEF Created
    <3> QED
      BY <3>1, <3>2 DEF Pair
  <2>3. store' \in [Entity -> Pair \cup {Absent}]
    <3>1. PICK started \in SUBSET todo[c] :
             store' = [e \in Entity |-> IF e \in started THEN Created(store, c, e)[e] ELSE store[e]]
      BY <1>18 DEF Throw
    <3> QED
      BY <2>2, <3>1 DEF TypeOK
  <2>4. faults' \in 0 .. MaxFaults
    BY <1>18, BoundAssumption DEF TypeOK, Throw
  <2> QED
    BY <1>18, <2>1, <2>3, <2>4, FinishType DEF TypeOK, Throw, Outcome
<1>19. CASE UNCHANGED vars
  BY <1>19 DEF TypeOK, vars, callVars
<1> QED
  BY <1>1, <1>2, <1>3, <1>4, <1>5, <1>6, <1>7, <1>8, <1>9, <1>10, <1>11, <1>12,
     <1>13, <1>14, <1>15, <1>16, <1>17, <1>18, <1>19 DEF Next, Step

(***************************************************************************)
(* Where a call stands.                                                    *)
(***************************************************************************)

\* A step of one caller leaves the others where they are.
LEMMA OthersStay ==
    ASSUME TypeOK, Running, NEW c \in Caller, Begin(c) \/ Step(c) \/ Throw(c)
    PROVE  /\ events \subseteq events'
           /\ \A d \in Caller \ {c} :
                 /\ pc'[d] = pc[d] /\ form'[d] = form[d] /\ entityPair'[d] = entityPair[d]
                 /\ stack'[d] = stack[d]
<1> USE DEF At, Go, Finish
<1>1. CASE Begin(c)
  BY <1>1 DEF TypeOK, Begin
<1>2. CASE StoreEvent(c)
  BY <1>2 DEF TypeOK, StoreEvent, Logged
<1>3. CASE SaveIndividual(c) \/ SaveMember(c) \/ SaveGroup(c)
  BY <1>3 DEF TypeOK, SaveIndividual, SaveMember, SaveGroup
<1>4. CASE ReadGroup(c)
  BY <1>4 DEF TypeOK, ReadGroup
<1>5. CASE AddMember(c) \/ Attach(c) \/ Detach(c) \/ Look(c)
  BY <1>5 DEF TypeOK, AddMember, Attach, Detach, Look
<1>6. CASE Resolve(c)
  BY <1>6 DEF TypeOK, Resolve
<1>7. CASE Descend(c)
  BY <1>7 DEF TypeOK, Descend
<1>8. CASE Remove(c)
  BY <1>8 DEF TypeOK, Remove
<1>9. CASE Clean(c)
  BY <1>9 DEF TypeOK, Clean
<1>10. CASE Flag(c)
  BY <1>10 DEF TypeOK, Flag
<1>11. CASE SavePair(c)
  BY <1>11 DEF TypeOK, SavePair
<1>12. CASE Throw(c)
  BY <1>12 DEF TypeOK, Throw
<1> QED
  BY <1>1, <1>2, <1>3, <1>4, <1>5, <1>6, <1>7, <1>8, <1>9, <1>10, <1>11, <1>12 DEF Step

\* A call that ends stands nowhere.
LEMMA FinishRuns ==
    ASSUME TypeOK, NEW c \in Caller, NEW how, Finish(c, how)
    PROVE  RunningOne(c)'
BY DEF TypeOK, Finish, RunningOne

\* The place a step of the call itself leads to.
LEMMA StepRuns ==
    ASSUME TypeOK, Running, NEW c \in Caller, Begin(c) \/ Step(c) \/ Throw(c)
    PROVE  RunningOne(c)'
<1> USE DEF At
<1>0. RunningOne(c)
  BY DEF Running
<1>1. CASE Begin(c)
  BY <1>1 DEF TypeOK, Begin, RunningOne
<1>2. CASE StoreEvent(c)
  <2>1. form[c] \in Form /\ Type[form[c]] \in FormType
    BY <1>0, <1>2, FormAssumption DEF StoreEvent, RunningOne
  <2>2. CASE Finish(c, "kept") \/ Finish(c, "applied")
    BY <2>2, FinishRuns
  <2>3. CASE ~(Finish(c, "kept") \/ Finish(c, "applied"))
    <3>1. Go(c, Dispatch(form[c])) /\ form[c] \in events'
      BY <1>2, <2>3 DEF StoreEvent, Logged
    <3>2. /\ Dispatch(form[c]) \in PC \ {"idle", "save", "member", "attach", "detach", "look", "clean", "flag", "pairs"}
          /\ Dispatch(form[c]) = "individual" => Type[form[c]] = "individual"
          /\ Dispatch(form[c]) = "members" => Type[form[c]] \in {"group", "heal"}
          /\ Dispatch(form[c]) = "read" => Type[form[c]] \in {"add", "remove"}
      BY <2>1, DispatchType DEF Dispatch, FormType
    <3>3. pc'[c] = Dispatch(form[c]) /\ form' = form
      BY <3>1 DEF Go, TypeOK
    <3> QED
      BY <2>1, <3>1, <3>2, <3>3 DEF RunningOne
  <2> QED
    BY <2>2, <2>3
<1>3. CASE SaveIndividual(c) \/ SaveMember(c) \/ SaveGroup(c)
  BY <1>0, <1>3 DEF TypeOK, Go, SaveIndividual, SaveMember, SaveGroup, RunningOne
<1>4. CASE ReadGroup(c)
  <2>1. CASE Finish(c, "failed")
    BY <2>1, FinishRuns
  <2>2. CASE ~Finish(c, "failed")
    <3>1. /\ Stored(Target[form[c]])
          /\ entityPair' = [entityPair EXCEPT ![c] = store[Target[form[c]]]]
          /\ pc' = [pc EXCEPT ![c] = IF Type[form[c]] = "add" THEN "member" ELSE "detach"]
          /\ form' = form
      BY <1>4, <2>2 DEF ReadGroup, Go
    <3>2. form[c] \in Form /\ Type[form[c]] \in {"add", "remove"} /\ form[c] \in events
      BY <1>0, <1>4 DEF ReadGroup, RunningOne
    <3>3. Target[form[c]] \in Groups
      BY <3>2, FormAssumption
    <3>4. events' = events
      BY <1>4 DEF ReadGroup
    <3> QED
      BY <3>1, <3>2, <3>3, <3>4 DEF TypeOK, RunningOne, Stored
  <2> QED
    BY <2>1, <2>2
<1>5. CASE AddMember(c) \/ Attach(c) \/ Detach(c) \/ Look(c)
  BY <1>0, <1>5 DEF TypeOK, Go, AddMember, Attach, Detach, Look, RunningOne
<1>6. CASE Resolve(c)
  <2>1. CASE Finish(c, "applied")
    BY <2>1, FinishRuns
  <2>2. CASE ~Finish(c, "applied")
    BY <1>0, <1>6, <2>2 DEF TypeOK, Go, Resolve, RunningOne
  <2> QED
    BY <2>1, <2>2
<1>7. CASE Descend(c)
  BY <1>0, <1>7 DEF TypeOK, Descend, RunningOne
<1>8. CASE Remove(c)
  BY <1>0, <1>8 DEF TypeOK, Go, Remove, RunningOne
<1>9. CASE Clean(c)
  <2>1. CASE Finish(c, "applied")
    BY <2>1, FinishRuns
  <2>2. CASE ~Finish(c, "applied")
    BY <1>0, <1>9, <2>2 DEF TypeOK, Go, Clean, RunningOne
  <2> QED
    BY <2>1, <2>2
<1>10. CASE Flag(c)
  <2>1. CASE Finish(c, "failed") \/ Finish(c, "applied")
    BY <2>1, FinishRuns
  <2>2. CASE ~(Finish(c, "failed") \/ Finish(c, "applied"))
    BY <1>0, <1>10, <2>2 DEF TypeOK, Go, Flag, RunningOne
  <2> QED
    BY <2>1, <2>2
<1>11. CASE SavePair(c)
  <2>1. CASE Finish(c, "applied")
    BY <2>1, FinishRuns
  <2>2. CASE ~Finish(c, "applied")
    BY <1>0, <1>11, <2>2 DEF TypeOK, SavePair, RunningOne
  <2> QED
    BY <2>1, <2>2
<1>12. CASE Throw(c)
  BY <1>12, FinishRuns DEF Throw
<1> QED
  BY <1>1, <1>2, <1>3, <1>4, <1>5, <1>6, <1>7, <1>8, <1>9, <1>10, <1>11, <1>12 DEF Step

LEMMA RunningStep ==
    ASSUME TypeOK, Running, [Next]_vars
    PROVE  Running'
<1>1. CASE Tick \/ UNCHANGED vars
  BY <1>1 DEF Running, RunningOne, Tick, vars, callVars
<1>2. ASSUME NEW c \in Caller, Begin(c) \/ Step(c) \/ Throw(c) PROVE Running'
  <2>1. RunningOne(c)'
    BY <1>2, StepRuns
  <2>2. ASSUME NEW d \in Caller \ {c} PROVE RunningOne(d)'
    <3>1. RunningOne(d)
      BY DEF Running
    <3>2. /\ events \subseteq events'
          /\ pc'[d] = pc[d] /\ form'[d] = form[d] /\ entityPair'[d] = entityPair[d]
          /\ stack'[d] = stack[d]
      BY <1>2, OthersStay
    <3> QED
      BY <3>1, <3>2 DEF RunningOne
  <2> QED
    BY <2>1, <2>2 DEF Running
<1> QED
  BY <1>1, <1>2 DEF Next

(***************************************************************************)
(* Sound pairs.                                                            *)
(***************************************************************************)

\* A longer log accounts for as much.
LEMMA SoundGrows ==
    ASSUME NEW evs, NEW more, evs \subseteq more, NEW pair, NEW e, SoundPair(evs, pair, e)
    PROVE  SoundPair(more, pair, e)
BY DEF SoundPair

\* A new entity is its own initial side.
LEMMA NewSound ==
    ASSUME NEW f, NEW evs, f \in evs, NEW S, NEW e
    PROVE  SoundPair(evs, [initial |-> NewDoc(f, S), modified |-> NewDoc(f, S)], e)
BY DEF SoundPair, NewDoc

\* A group is saved as its own initial side, after any document.
LEMMA GroupSound ==
    ASSUME NEW f, NEW evs, f \in evs, NEW S, NEW e \in Groups,
           NEW doc \in Doc, doc.has \subseteq evs
    PROVE  SoundPair(evs, [initial |-> Revised(doc, f, S), modified |-> Revised(doc, f, S)], e)
BY DEF SoundPair, Revised, Doc

\* A revision of a sound document, with the document as the initial side.
LEMMA RevisedSound ==
    ASSUME NEW f, NEW evs, f \in evs, NEW S, NEW e,
           NEW doc \in Doc, doc.has \subseteq evs, 1 <= doc.version
    PROVE  SoundPair(evs, [initial |-> doc, modified |-> Revised(doc, f, S)], e)
BY DEF SoundPair, Revised, Doc

\* A group whose members change keeps the initial side it was read with.
LEMMA MembersSound ==
    ASSUME NEW f, NEW evs, f \in evs, NEW S, NEW e \in Groups,
           NEW pair \in Pair, SoundPair(evs, pair, e)
    PROVE  SoundPair(evs, [initial |-> pair.initial, modified |-> Revised(pair.modified, f, S)], e)
BY DEF SoundPair, Revised, Pair, Doc

\* Whatever a form is merged into is a sound document, and for an individual
\* one that has a version.
LEMMA BaseSound ==
    ASSUME TypeOK, Running, Sound, NEW c \in Caller, pc[c] # "idle", Base(c) # Absent
    PROVE  Base(c) \in Doc /\ Base(c).has \subseteq events /\ 1 <= Base(c).version
<1>1. Base(c) \in Doc /\ entityPair[c] \in Pair /\ entityPair[c] # Absent
  BY BaseType
<1>2. SoundPair(events, entityPair[c], Target[form[c]])
  BY <1>1 DEF Sound
<1>3. Base(c) \in {entityPair[c].initial, entityPair[c].modified}
  BY <1>1 DEF Base
<1> QED
  BY <1>1, <1>2, <1>3 DEF SoundPair, Pair, Doc

\* A save of a sound pair leaves a sound store.
LEMMA SaveKeepsSound ==
    ASSUME TypeOK, Sound, NEW e \in Entity, NEW a \in Doc, NEW b \in Doc,
           SoundPair(events, [initial |-> a, modified |-> b], e),
           store' = Saved(store, e, a, b), events' = events
    PROVE  \A x \in Entity : store'[x] # Absent => SoundPair(events', store'[x], x)
<1>1. store \in [Entity -> Pair \cup {Absent}]
  BY DEF TypeOK
<1>2. store'[e] = [initial |-> a, modified |-> b] /\ \A x \in Entity \ {e} : store'[x] = store[x]
  BY <1>1, SavedType
<1> QED
  BY <1>2 DEF Sound

LEMMA StoreSound ==
    ASSUME TypeOK, Running, Sound, NEW c \in Caller, Begin(c) \/ Step(c) \/ Throw(c)
    PROVE  \A e \in Entity : store'[e] # Absent => SoundPair(events', store'[e], e)
<1> USE DEF At
<1>0. RunningOne(c)
  BY DEF Running
<1>1. CASE UNCHANGED store
  BY <1>1, OthersStay, SoundGrows DEF Sound
<1>2. CASE SaveIndividual(c)
  <2> DEFINE f == form[c]
             new == IF Base(c) = Absent THEN NewDoc(f, {}) ELSE Revised(Base(c), f, {})
  <2>1. f \in Form /\ f \in events /\ Target[f] \in Entity /\ pc[c] # "idle"
    BY <1>0, <1>2, FormAssumption DEF SaveIndividual, RunningOne
  <2>2. store' = Saved(store, Target[f], InitialSide(c, new), new) /\ events' = events
    BY <1>2 DEF SaveIndividual
  <2>3. new \in Doc /\ InitialSide(c, new) \in Doc
    BY <2>1, NewDocType, RevisedType, BaseType DEF InitialSide
  <2>4. SoundPair(events, [initial |-> InitialSide(c, new), modified |-> new], Target[f])
    <3>1. CASE Base(c) = Absent
      BY <2>1, <3>1, NewSound DEF InitialSide
    <3>2. CASE Base(c) # Absent
      BY <2>1, <3>2, BaseSound, RevisedSound DEF InitialSide
    <3> QED
      BY <3>1, <3>2
  <2> HIDE DEF f, new
  <2> QED
    BY <2>1, <2>2, <2>3, <2>4, SaveKeepsSound
<1>3. ASSUME NEW m \in Entity, form[c] \in Form, form[c] \in events,
             store' = Created(store, c, m), events' = events
      PROVE  \A e \in Entity : store'[e] # Absent => SoundPair(events', store'[e], e)
  <2>1. NewDoc(form[c], {}) \in Doc
    BY <1>3, NewDocType
  <2>2. SoundPair(events, [initial |-> NewDoc(form[c], {}), modified |-> NewDoc(form[c], {})], m)
    BY <1>3, NewSound
  <2> QED
    BY <1>3, <2>1, <2>2, SaveKeepsSound DEF Created
<1>4. CASE SaveMember(c)
  <2>1. form[c] \in Form /\ form[c] \in events /\ events' = events
    BY <1>0, <1>4 DEF SaveMember, RunningOne
  <2>2. PICK m \in todo[c] : store' = Created(store, c, m)
    BY <1>4 DEF SaveMember
  <2>3. m \in Entity
    BY <2>2 DEF TypeOK
  <2> QED
    BY <1>3, <2>1, <2>2, <2>3
<1>5. CASE SaveGroup(c)
  <2> DEFINE f == form[c]
             named == IF Type[f] = "group" THEN Others[f] ELSE {}
             new == IF Base(c) = Absent THEN NewDoc(f, named)
                    ELSE Revised(Base(c), f, Base(c).members \cup named)
  <2>1. f \in Form /\ f \in events /\ pc[c] # "idle" /\ Type[f] \in {"group", "heal"}
    BY <1>0, <1>5 DEF SaveGroup, RunningOne
  <2>2. Target[f] \in Entity /\ Target[f] \in Groups /\ named \in SUBSET Entity
    BY <2>1, FormAssumption
  <2>3. store' = Saved(store, Target[f], new, new) /\ events' = events
    BY <1>5 DEF SaveGroup
  <2>4. Base(c) # Absent => /\ Base(c) \in Doc /\ Base(c).has \subseteq events
                           /\ Base(c).members \cup named \in SUBSET Entity
    BY <2>1, <2>2, BaseSound DEF Doc
  <2>5. new \in Doc
    BY <2>1, <2>2, <2>4, NewDocType, RevisedType
  <2>6. SoundPair(events, [initial |-> new, modified |-> new], Target[f])
    BY <2>1, <2>2, <2>4, NewSound, GroupSound
  <2> HIDE DEF f, new
  <2> QED
    BY <2>2, <2>3, <2>5, <2>6, SaveKeepsSound
<1>6. CASE AddMember(c)
  <2>1. form[c] \in Form /\ form[c] \in events /\ events' = events
    BY <1>0, <1>6 DEF AddMember, RunningOne
  <2>2. PICK m \in Others[form[c]] : store' = Created(store, c, m)
    BY <1>6 DEF AddMember
  <2>3. m \in Entity
    BY <2>1, <2>2, FormAssumption
  <2> QED
    BY <1>3, <2>1, <2>2, <2>3
<1>7. CASE Attach(c) \/ Detach(c)
  <2> DEFINE f == form[c]
             pair == entityPair[c]
  <2>1. /\ f \in Form /\ f \in events /\ pc[c] # "idle" /\ pair # Absent
        /\ Target[f] \in Groups /\ events' = events
    BY <1>0, <1>7 DEF Attach, Detach, RunningOne
  <2>2. Target[f] \in Entity /\ Others[f] \in SUBSET Entity
    BY <2>1, FormAssumption
  <2>3. pair \in Pair /\ SoundPair(events, pair, Target[f])
    BY <2>1 DEF TypeOK, Sound
  <2>4. pair.initial \in Doc /\ pair.modified \in Doc /\ pair.modified.members \in SUBSET Entity
    BY <2>3 DEF Pair, Doc
  <2>5. PICK S \in SUBSET Entity :
           store' \in {Saved(store, Target[f], pair.initial, pair.modified),
                      Saved(store, Target[f], pair.initial, Revised(pair.modified, f, S))}
    <3>1. CASE Attach(c)
      <4>1. pair.modified.members \cup Others[f] \in SUBSET Entity
        BY <2>2, <2>4
      <4> QED
        BY <3>1, <4>1 DEF Attach
    <3>2. CASE Detach(c)
      <4>1. pair.modified.members \ Others[f] \in SUBSET Entity
        BY <2>4
      <4> QED
        BY <3>2, <4>1 DEF Detach
    <3> QED
      BY <1>7, <3>1, <3>2
  <2>6. Revised(pair.modified, f, S) \in Doc
    BY <2>1, <2>4, RevisedType
  <2>7. SoundPair(events, [initial |-> pair.initial, modified |-> Revised(pair.modified, f, S)], Target[f])
    BY <2>1, <2>3, MembersSound
  <2>8. SoundPair(events, [initial |-> pair.initial, modified |-> pair.modified], Target[f])
    BY <2>3 DEF SoundPair
  <2> HIDE DEF f, pair
  <2> QED
    BY <2>1, <2>2, <2>4, <2>5, <2>6, <2>7, <2>8, SaveKeepsSound
<1>8. CASE Remove(c)
  BY <1>8 DEF TypeOK, Sound, Remove
<1>9. CASE Throw(c)
  <2>1. form[c] \in Form /\ events' = events /\ (pc[c] = "members" => form[c] \in events)
    BY <1>0, <1>9 DEF Throw, RunningOne
  <2>2. PICK started \in SUBSET todo[c] :
           /\ pc[c] # "members" => started = {}
           /\ store' = [e \in Entity |-> IF e \in started THEN Created(store, c, e)[e] ELSE store[e]]
    BY <1>9 DEF Throw
  <2>3. ASSUME NEW e \in Entity, store'[e] # Absent PROVE SoundPair(events', store'[e], e)
    <3>1. CASE e \in started
      <4>1. NewDoc(form[c], {}) \in Doc /\ store \in [Entity -> Pair \cup {Absent}]
        BY <2>1, NewDocType DEF TypeOK
      <4>2. Created(store, c, e)[e] = [initial |-> NewDoc(form[c], {}), modified |-> NewDoc(form[c], {})]
        BY <4>1, SavedType DEF Created
      <4>3. form[c] \in events
        BY <2>1, <2>2, <3>1
      <4> QED
        BY <2>1, <2>2, <3>1, <4>2, <4>3, NewSound
    <3>2. CASE e \notin started
      BY <2>1, <2>2, <2>3, <3>2 DEF Sound
    <3> QED
      BY <3>1, <3>2
  <2> QED
    BY <2>3
<1> QED
  BY <1>1, <1>2, <1>4, <1>5, <1>6, <1>7, <1>8, <1>9
  DEF Step, Begin, StoreEvent, ReadGroup, Look, Resolve, Descend, Clean, Flag, SavePair

\* A caller has just read its pair, still holds it, or has let go of it.
LEMMA ReadPairs ==
    ASSUME TypeOK, Running, NEW c \in Caller, Begin(c) \/ Step(c) \/ Throw(c), pc'[c] # "idle"
    PROVE  \/ entityPair'[c] = store[Target[form'[c]]] /\ Target[form'[c]] \in Entity
           \/ pc[c] # "idle" /\ entityPair'[c] = entityPair[c] /\ form'[c] = form[c]
<1> USE DEF At, Go
<1>0. \A how : Finish(c, how) => pc'[c] = "idle"
  BY DEF Finish, TypeOK
<1>1. CASE Begin(c)
  <2>1. PICK f \in Form : /\ form' = [form EXCEPT ![c] = f]
                         /\ entityPair' = [entityPair EXCEPT ![c] = store[Target[f]]]
    BY <1>1 DEF Begin
  <2>2. form'[c] = f /\ entityPair'[c] = store[Target[f]] /\ Target[f] \in Entity
    BY <2>1, FormAssumption DEF TypeOK
  <2> QED
    BY <2>2
<1>2. CASE StoreEvent(c)
  BY <1>0, <1>2 DEF TypeOK, StoreEvent
<1>3. CASE SaveIndividual(c) \/ SaveMember(c) \/ SaveGroup(c)
  BY <1>3 DEF TypeOK, SaveIndividual, SaveMember, SaveGroup
<1>4. CASE ReadGroup(c)
  <2>1. form[c] \in Form
    BY <1>4 DEF Running, RunningOne, ReadGroup
  <2> QED
    BY <1>0, <1>4, <2>1, FormAssumption DEF TypeOK, ReadGroup
<1>5. CASE AddMember(c) \/ Attach(c) \/ Detach(c) \/ Look(c)
  BY <1>5 DEF TypeOK, AddMember, Attach, Detach, Look
<1>6. CASE Resolve(c)
  BY <1>0, <1>6 DEF TypeOK, Resolve
<1>7. CASE Descend(c)
  BY <1>7 DEF TypeOK, Descend
<1>8. CASE Remove(c)
  BY <1>8 DEF TypeOK, Remove
<1>9. CASE Clean(c)
  BY <1>0, <1>9 DEF TypeOK, Clean
<1>10. CASE Flag(c)
  BY <1>0, <1>10 DEF TypeOK, Flag
<1>11. CASE SavePair(c)
  BY <1>0, <1>11 DEF TypeOK, SavePair
<1>12. CASE Throw(c)
  BY <1>0, <1>12 DEF Throw
<1> QED
  BY <1>1, <1>2, <1>3, <1>4, <1>5, <1>6, <1>7, <1>8, <1>9, <1>10, <1>11, <1>12 DEF Step

LEMMA SoundStep ==
    ASSUME TypeOK, Running, Sound, [Next]_vars
    PROVE  Sound'
<1>1. CASE Tick \/ UNCHANGED vars
  BY <1>1 DEF Sound, Tick, vars, callVars
<1>2. ASSUME NEW c \in Caller, Begin(c) \/ Step(c) \/ Throw(c) PROVE Sound'
  <2>1. \A e \in Entity : store'[e] # Absent => SoundPair(events', store'[e], e)
    BY <1>2, StoreSound
  <2>2. ASSUME NEW d \in Caller, pc'[d] # "idle", entityPair'[d] # Absent
        PROVE  SoundPair(events', entityPair'[d], Target[form'[d]])
    <3>1. events \subseteq events'
      BY <1>2, OthersStay
    <3>2. CASE d = c
      BY <1>2, <2>2, <3>1, <3>2, ReadPairs, SoundGrows DEF Sound
    <3>3. CASE d # c
      BY <1>2, <2>2, <3>1, <3>3, OthersStay, SoundGrows DEF Sound
    <3> QED
      BY <3>2, <3>3
  <2> QED
    BY <2>1, <2>2 DEF Sound
<1> QED
  BY <1>1, <1>2 DEF Next

(***************************************************************************)
(* The theorems.                                                           *)
(***************************************************************************)

LEMMA Start ==
    ASSUME Init
    PROVE  TypeOK /\ Running /\ Sound
<1>1. <<>> \in Seq(Frame)
  OBVIOUS
<1>2. 0 \in 0 .. MaxFaults
  BY BoundAssumption
<1>3. TypeOK
  BY <1>1, <1>2 DEF Init, TypeOK, PC, Outcome
<1>4. Running /\ Sound
  BY DEF Init, Running, RunningOne, Sound
<1> QED
  BY <1>3, <1>4

\* TypeOK holds of every reachable state of submitForm, together with where its
\* calls stand and the soundness of the pairs they hold.
THEOREM Invariance == Spec => [](TypeOK /\ Running /\ Sound)
<1>1. Init => TypeOK /\ Running /\ Sound
  BY Start
<1>2. TypeOK /\ Running /\ Sound /\ [Next]_vars => (TypeOK /\ Running /\ Sound)'
  BY TypeStep, RunningStep, SoundStep
<1> QED
  BY <1>1, <1>2, PTL DEF Spec

\* The variables of submitForm keep their types.
THEOREM Typing == Spec => []TypeOK
BY Invariance, PTL

\* handleIncomingConflict never meets an initial side that is ahead of the
\* modified one, with any number of callers that save stale pairs.
THEOREM InitialStaysBehind == Spec => []InitialBehind
<1>1. TypeOK /\ Running /\ Sound => InitialBehind
  BY DEF Sound, SoundPair, InitialBehind, Stored
<1> QED
  BY <1>1, Invariance, PTL

\* hasLocalChanges is true of every individual that was revised, for good.
THEOREM SidesNeverLevel == Spec => []NeverSettled
<1>1. TypeOK /\ Running /\ Sound => NeverSettled
  BY DEF Sound, SoundPair, NeverSettled, LocalChanges, Stored
<1> QED
  BY <1>1, Invariance, PTL

\* Entities show nothing that the event log does not hold.
THEOREM LogAccounts == Spec => []MergedIsLogged
<1>1. TypeOK /\ Running /\ Sound => MergedIsLogged
  BY DEF Sound, SoundPair, MergedIsLogged, Stored
<1> QED
  BY <1>1, Invariance, PTL

(***************************************************************************)
(* Who has submitted forms.  A call under way has a form of its caller     *)
(* that counts as submitted, so where all of those come from one caller,   *)
(* every other caller is idle.                                             *)
(***************************************************************************)

Submitted(f) == outcome[f] \notin {"never", "new"}

BegunOne(c) == pc[c] # "idle" => By[form[c]] = c /\ Submitted(form[c])

Begun == \A c \in Caller : BegunOne(c)

\* A step begins a call, ends one, or leaves what became of each form alone.
LEMMA OutcomeStep ==
    ASSUME TypeOK, NEW c \in Caller, Begin(c) \/ Step(c) \/ Throw(c)
    PROVE  \/ Begin(c)
           \/ pc[c] # "idle" /\ \E how \in {"kept", "applied", "failed"} : Finish(c, how)
           \/ pc[c] # "idle" /\ outcome' = outcome /\ form' = form
<1> USE DEF At, Go
<1>1. CASE StoreEvent(c) \/ SaveIndividual(c) \/ SaveMember(c) \/ SaveGroup(c) \/ ReadGroup(c)
  BY <1>1 DEF StoreEvent, SaveIndividual, SaveMember, SaveGroup, ReadGroup
<1>2. CASE AddMember(c) \/ Attach(c) \/ Detach(c) \/ Look(c) \/ Resolve(c)
  BY <1>2 DEF AddMember, Attach, Detach, Look, Resolve
<1>3. CASE Descend(c) \/ Remove(c) \/ Clean(c)
  BY <1>3 DEF Descend, Remove, Clean
<1>4. CASE Flag(c) \/ SavePair(c) \/ Throw(c)
  BY <1>4 DEF Flag, SavePair, Throw
<1> QED
  BY <1>1, <1>2, <1>3, <1>4 DEF Step

\* No form that was submitted is new again,
LEMMA SubmittedStays ==
    ASSUME TypeOK, Running, NEW c \in Caller, Begin(c) \/ Step(c) \/ Throw(c),
           NEW f \in Form, Submitted(f)
    PROVE  Submitted(f)'
<1>1. CASE Begin(c)
  BY <1>1 DEF TypeOK, Begin, Submitted
<1>2. CASE pc[c] # "idle" /\ \E how \in {"kept", "applied", "failed"} : Finish(c, how)
  BY <1>2 DEF TypeOK, Finish, Submitted
<1>3. CASE outcome' = outcome
  BY <1>3 DEF Submitted
<1> QED
  BY <1>1, <1>2, <1>3, OutcomeStep

\* and a call keeps the form it began with.
LEMMA BegunStep ==
    ASSUME TypeOK, Running, Begun, [Next]_vars
    PROVE  Begun'
<1>1. CASE Tick \/ UNCHANGED vars
  BY <1>1 DEF Begun, BegunOne, Submitted, Tick, vars, callVars
<1>2. ASSUME NEW c \in Caller, Begin(c) \/ Step(c) \/ Throw(c) PROVE Begun'
  <2>1. BegunOne(c)'
    <3>1. CASE Begin(c)
      <4>1. PICK f \in Form : /\ By[f] = c
                              /\ outcome' = [outcome EXCEPT ![f] = "running"]
                              /\ form' = [form EXCEPT ![c] = f]
        BY <3>1 DEF Begin
      <4> QED
        BY <4>1 DEF TypeOK, BegunOne, Submitted
    <3>2. CASE \E how : Finish(c, how)
      BY <3>2 DEF TypeOK, Finish, BegunOne
    <3>3. CASE pc[c] # "idle" /\ outcome' = outcome /\ form' = form
      BY <3>3 DEF Begun, BegunOne, Submitted
    <3> QED
      BY <1>2, <3>1, <3>2, <3>3, OutcomeStep
  <2>2. ASSUME NEW d \in Caller \ {c} PROVE BegunOne(d)'
    <3>1. pc'[d] = pc[d] /\ form'[d] = form[d]
      BY <1>2, OthersStay
    <3>2. pc[d] # "idle" => form[d] \in Form /\ By[form[d]] = d /\ Submitted(form[d])
      BY DEF Running, RunningOne, Begun, BegunOne
    <3>3. pc[d] # "idle" => Submitted(form[d])'
      BY <1>2, <3>1, <3>2, SubmittedStays DEF Submitted
    <3> QED
      BY <3>1, <3>2, <3>3 DEF BegunOne
  <2> QED
    BY <2>1, <2>2 DEF Begun
<1> QED
  BY <1>1, <1>2 DEF Next

\* When one caller has submitted every form there was before, and is the only one
\* after a step, then it took that step and the others are idle.
LEMMA Sole ==
    ASSUME TypeOK, Running, Begun, Alone', NEW c \in Caller, Begin(c) \/ Step(c) \/ Throw(c)
    PROVE  /\ Alone
           /\ \A d \in Caller \ {c} : pc[d] = "idle" /\ pc'[d] = "idle" /\ stack'[d] = stack[d]
<1>1. PICK x \in Caller : \A f \in Form : Submitted(f)' => By[f] = x
  BY DEF Alone, Submitted
<1>2. \A f \in Form : Submitted(f) => By[f] = x
  BY <1>1, SubmittedStays
<1>3. Alone
  BY <1>2 DEF Alone, Submitted
<1>4. c = x
  <2>1. CASE Begin(c)
    <3>1. PICK f \in Form : By[f] = c /\ outcome' = [outcome EXCEPT ![f] = "running"]
      BY <2>1 DEF Begin
    <3>2. Submitted(f)'
      BY <3>1 DEF TypeOK, Submitted
    <3> QED
      BY <1>1, <3>1, <3>2
  <2>2. CASE pc[c] # "idle"
    BY <1>2, <2>2 DEF Running, RunningOne, Begun, BegunOne
  <2> QED
    BY <2>1, <2>2, OutcomeStep
<1>5. \A d \in Caller : pc[d] # "idle" => d = x
  BY <1>2 DEF Running, RunningOne, Begun, BegunOne
<1> QED
  BY <1>3, <1>4, <1>5, OthersStay

\* A step that nobody takes changes no form.
LEMMA Unmoved ==
    ASSUME Tick \/ UNCHANGED vars
    PROVE  Alone' <=> Alone
BY DEF Alone, Tick, vars, callVars

(***************************************************************************)
(* One caller: cascades.  Every call under way accounts for the members of *)
(* its entity, which nobody else can change: they are still to be called,  *)
(* or being called, or gone.                                               *)
(***************************************************************************)

\* Where the members of the entity of the i-th call are.
Accounted(s, i) ==
    \A m \in MembersOf(s[i].guid) :
        \/ m \in s[i].rest
        \/ ~Stored(m)
        \/ (i < Len(s) /\ m = s[i + 1].guid)

CascadingOne(c) ==
    /\ pc[c] \notin {"cascade", "clean"} => stack[c] = <<>>
    /\ pc[c] = "clean" => ~Stored(Top(c).guid)
    /\ \A i \in 1 .. Len(stack[c]) : Accounted(stack[c], i)

Cascading == \A c \in Caller : CascadingOne(c)

\* A stack whose innermost call has been replaced by two.
LEMMA Pushed ==
    ASSUME NEW s \in Seq(Frame), s # <<>>, NEW a \in Frame, NEW b \in Frame
    PROVE  LET t == SubSeq(s, 1, Len(s) - 1) \o <<a, b>> IN
           /\ Len(s) \in Nat /\ Len(s) >= 1
           /\ Len(t) = Len(s) + 1
           /\ \A i \in 1 .. Len(s) - 1 : t[i] = s[i]
           /\ t[Len(s)] = a /\ t[Len(s) + 1] = b
<1> DEFINE t == SubSeq(s, 1, Len(s) - 1) \o <<a, b>>
<1>1. Len(s) \in Nat /\ Len(s) >= 1
  BY EmptySeq
<1>2. \A i \in 1 .. Len(s) : s[i] \in Frame
  BY ElementOfSeq
<1> DEFINE n == Len(s) - 1
           u == SubSeq(s, 1, n)
<1>3. n \in Nat /\ n = Len(s) - 1 /\ \A i \in 1 .. n : s[i] \in Frame
  BY <1>1, <1>2
<1>4. u \in Seq(Frame) /\ Len(u) = n /\ \A i \in 1 .. n : u[i] = s[i]
  <2> HIDE DEF n
  <2>1. /\ u \in Seq(Frame)
        /\ Len(u) = IF 1 <= n THEN n - 1 + 1 ELSE 0
        /\ \A i \in 1 .. n - 1 + 1 : u[i] = s[1 + i - 1]
    BY <1>3, SubSeqProperties
  <2> QED
    BY <1>3, <2>1
<1>5. t = u \o <<a, b>>
  OBVIOUS
<1> HIDE DEF n, u, t
<1>6. Len(t) = n + 2 /\ (\A i \in 1 .. n : t[i] = u[i]) /\ t[n + 1] = a /\ t[n + 2] = b
  <2>1. <<a, b>> \in Seq(Frame) /\ Len(<<a, b>>) = 2
    OBVIOUS
  <2>2. /\ Len(t) = Len(u) + 2
        /\ \A i \in 1 .. Len(u) + 2 : t[i] = IF i <= Len(u) THEN u[i] ELSE <<a, b>>[i - Len(u)]
    BY <1>4, <1>5, <2>1, ConcatProperties
  <2>3. Len(t) = n + 2 /\ \A i \in 1 .. n + 2 : t[i] = IF i <= n THEN u[i] ELSE <<a, b>>[i - n]
    BY <1>4, <2>2
  <2>4. n + 1 \in 1 .. n + 2 /\ n + 2 \in 1 .. n + 2 /\ n + 1 - n = 1 /\ n + 2 - n = 2
    BY <1>3
  <2>5. <<a, b>>[1] = a /\ <<a, b>>[2] = b
    OBVIOUS
  <2> DEFINE w == <<a, b>>
  <2>6. t[n + 1] = a /\ t[n + 2] = b
    <3>1. w[1] = a /\ w[2] = b
      BY <2>5
    <3>2. \A i \in 1 .. n + 2 : t[i] = IF i <= n THEN u[i] ELSE w[i - n]
      BY <2>3
    <3> HIDE DEF w
    <3>3. ~(n + 1 <= n) /\ ~(n + 2 <= n)
      BY <1>3
    <3>4. ASSUME NEW j \in 1 .. n + 2, ~(j <= n) PROVE t[j] = w[j - n]
      BY <3>2, <3>4, Zenon
    <3>5. t[n + 1] = w[n + 1 - n]
      BY <1>3, <2>4, <3>3, <3>4
    <3>6. t[n + 2] = w[n + 2 - n]
      BY <1>3, <2>4, <3>3, <3>4
    <3> QED
      BY <2>4, <3>1, <3>5, <3>6
  <2>7. \A i \in 1 .. n : i \in 1 .. n + 2 /\ i <= n
    BY <1>3
  <2> QED
    BY <2>3, <2>6, <2>7
<1>7. Len(s) = n + 1
  BY <1>1, <1>3
<1>8. n + 2 = Len(s) + 1
  BY <1>3, <1>7
<1> QED
  BY <1>1, <1>3, <1>4, <1>6, <1>7, <1>8 DEF t

\* A stack whose innermost call has returned.
LEMMA Popped ==
    ASSUME NEW s \in Seq(Frame), s # <<>>, NEW t, t = SubSeq(s, 1, Len(s) - 1)
    PROVE  /\ Len(s) \in Nat /\ Len(s) >= 1
           /\ Len(t) = Len(s) - 1
           /\ \A i \in 1 .. Len(s) - 1 : t[i] = s[i]
<1>1. Len(s) \in Nat /\ Len(s) >= 1
  BY EmptySeq
<1>2. \A i \in 1 .. Len(s) : s[i] \in Frame
  BY ElementOfSeq
<1> DEFINE n == Len(s) - 1
<1>3. n \in Nat /\ n = Len(s) - 1 /\ \A i \in 1 .. n : s[i] \in Frame
  BY <1>1, <1>2
<1>4. t = SubSeq(s, 1, n)
  OBVIOUS
<1> HIDE DEF n
<1>5. /\ Len(t) = IF 1 <= n THEN n - 1 + 1 ELSE 0
      /\ \A i \in 1 .. n - 1 + 1 : t[i] = s[1 + i - 1]
  BY <1>3, <1>4, SubSeqProperties
<1> QED
  BY <1>1, <1>3, <1>5

\* Outside of a cascade there is nothing to account for.
LEMMA NoCascade ==
    ASSUME TypeOK, NEW c \in Caller, stack'[c] = <<>>, pc'[c] # "clean"
    PROVE  CascadingOne(c)'
<1>1. Len(stack'[c]) = 0
  OBVIOUS
<1> QED
  BY <1>1 DEF CascadingOne

\* A call that ends has no cascade.
LEMMA FinishCascade ==
    ASSUME TypeOK, NEW c \in Caller, NEW how, Finish(c, how)
    PROVE  CascadingOne(c)'
<1>1. stack'[c] = <<>> /\ pc'[c] = "idle"
  BY DEF TypeOK, Finish
<1> QED
  BY <1>1, NoCascade

\* The cascade calls the first guid, or one member of the innermost call,
LEMMA DescendAccounts ==
    ASSUME TypeOK, NEW c \in Caller, CascadingOne(c), Descend(c)
    PROVE  CascadingOne(c)'
<1>0. pc[c] = "cascade" /\ pc' = pc /\ store' = store
  BY DEF Descend, At
<1>1. ASSUME NEW m \in todo[c], stack' = [stack EXCEPT ![c] = <<Call(m)>>]
      PROVE  CascadingOne(c)'
  <2>1. stack'[c] = <<Call(m)>>
    BY <1>1 DEF TypeOK
  <2>2. Len(stack'[c]) = 1 /\ stack'[c][1] = Call(m)
    BY <2>1
  <2>3. Accounted(stack[c], 1)'
    BY <1>0, <2>2 DEF Accounted, Call, MembersOf, Stored
  <2> QED
    BY <1>0, <2>2, <2>3 DEF CascadingOne
<1>2. ASSUME stack[c] # <<>>, NEW m \in Top(c).rest,
             stack' = [stack EXCEPT ![c] = Below(c) \o <<Called(Top(c), m), Call(m)>>]
      PROVE  CascadingOne(c)'
  <2> DEFINE s == stack[c]
             t == stack'[c]
  <2>1. s \in Seq(Frame) /\ Top(c) \in Frame
    BY <1>2, StackType DEF TypeOK
  <2>2. m \in Entity /\ Called(Top(c), m) \in Frame
    BY <1>2, <2>1 DEF Called, Frame
  <2>3. Call(m) \in Frame
    BY <2>2, CallType
  <2>4. t = SubSeq(s, 1, Len(s) - 1) \o <<Called(Top(c), m), Call(m)>>
    BY <1>2 DEF TypeOK, Below
  <2>5. /\ Len(s) \in Nat /\ Len(s) >= 1 /\ Len(t) = Len(s) + 1
        /\ \A i \in 1 .. Len(s) - 1 : t[i] = s[i]
        /\ t[Len(s)] = Called(Top(c), m) /\ t[Len(s) + 1] = Call(m)
    <3>1. s # <<>>
      BY <1>2
    <3> DEFINE a == Called(Top(c), m)
               b == Call(m)
    <3>2. t = SubSeq(s, 1, Len(s) - 1) \o <<a, b>> /\ a \in Frame /\ b \in Frame
      BY <2>2, <2>3, <2>4
    <3> HIDE DEF s, t, a, b
    <3>4. s \in Seq(Frame)
      BY <2>1
    <3>5. a \in Frame
      BY <3>2
    <3>6. b \in Frame
      BY <3>2
    <3>7. t = SubSeq(s, 1, Len(s) - 1) \o <<a, b>>
      BY <3>2
    <3>8. /\ Len(s) \in Nat /\ Len(s) >= 1 /\ Len(t) = Len(s) + 1
          /\ \A i \in 1 .. Len(s) - 1 : t[i] = s[i]
          /\ t[Len(s)] = a /\ t[Len(s) + 1] = b
      <4>1. Len(SubSeq(s, 1, Len(s) - 1) \o <<a, b>>) = Len(s) + 1
        BY <3>1, <3>4, <3>5, <3>6, Pushed
      <4>2. Len(s) \in Nat /\ Len(s) >= 1
        BY <3>1, <3>4, <3>5, <3>6, Pushed
      <4>3. (SubSeq(s, 1, Len(s) - 1) \o <<a, b>>)[Len(s)] = a
        BY <3>1, <3>4, <3>5, <3>6, Pushed
      <4>4. (SubSeq(s, 1, Len(s) - 1) \o <<a, b>>)[Len(s) + 1] = b
        BY <3>1, <3>4, <3>5, <3>6, Pushed
      <4>5. \A i \in 1 .. Len(s) - 1 : (SubSeq(s, 1, Len(s) - 1) \o <<a, b>>)[i] = s[i]
        BY <3>1, <3>4, <3>5, <3>6, Pushed
      <4> QED
        BY <3>7, <4>1, <4>2, <4>3, <4>4, <4>5
    <3> QED
      BY <3>8 DEF a, b
  <2>6. /\ t[Len(s)].guid = s[Len(s)].guid
        /\ t[Len(s)].rest = s[Len(s)].rest \ {m}
        /\ t[Len(s) + 1].guid = m /\ t[Len(s) + 1].rest = MembersOf(m)
    BY <2>1, <2>5 DEF Called, Call, Top, Frame
  <2>7. ASSUME NEW i \in 1 .. Len(t) PROVE Accounted(stack[c], i)'
    <3>0. Accounted(stack[c], i)' <=>
             \A x \in MembersOf(t[i].guid) : \/ x \in t[i].rest
                                            \/ ~Stored(x)
                                            \/ (i < Len(t) /\ x = t[i + 1].guid)
      BY <1>0 DEF Accounted, MembersOf, Stored
    <3>1. i <= Len(s) => Accounted(s, i)
      BY <2>5 DEF CascadingOne
    <3>2. CASE i = Len(s) + 1
      BY <2>6, <3>0, <3>2
    <3>3. CASE i = Len(s)
      <4> HIDE DEF s, t
      <4> QED
        BY <2>5, <2>6, <3>0, <3>1, <3>3 DEF Accounted
    <3>4. CASE i < Len(s)
      <4>1. t[i] = s[i] /\ t[i + 1].guid = s[i + 1].guid
        <5> HIDE DEF s, t
        <5>1. CASE i + 1 = Len(s)
          BY <2>5, <2>6, <3>4, <5>1
        <5>2. CASE i + 1 < Len(s)
          BY <2>5, <3>4, <5>2
        <5> QED
          BY <2>5, <3>4, <5>1, <5>2
      <4> HIDE DEF s, t
      <4> QED
        BY <2>5, <3>0, <3>1, <3>4, <4>1 DEF Accounted
    <3> QED
      BY <2>5, <3>2, <3>3, <3>4
  <2> QED
    BY <1>0, <2>7 DEF CascadingOne
<1> QED
  BY <1>1, <1>2 DEF Descend

\* deletes the innermost entity when it has none left,
LEMMA RemoveAccounts ==
    ASSUME TypeOK, NEW c \in Caller, CascadingOne(c), Remove(c)
    PROVE  CascadingOne(c)'
<1>0. /\ stack' = stack /\ stack[c] # <<>> /\ pc'[c] = "clean"
      /\ store' = [store EXCEPT ![Top(c).guid] = Absent]
  BY DEF TypeOK, Remove, At, Go
<1>1. Top(c).guid \in Entity
  BY <1>0, StackType DEF Frame
<1>2. Top(c)' = Top(c)
  BY <1>0 DEF Top
<1>3. \A e : e \in Entity /\ Stored(e)' => Stored(e) /\ store'[e] = store[e]
  BY <1>0, <1>1 DEF TypeOK, Stored
<1>4. ~Stored(Top(c).guid)'
  BY <1>0, <1>1, <1>2 DEF TypeOK, Stored
<1>5. ASSUME NEW i \in 1 .. Len(stack[c]) PROVE Accounted(stack[c], i)'
  <2>1. stack[c][i] \in Frame
    BY ElementOfSeq DEF TypeOK
  <2>2. stack[c][i].guid \in Entity
    BY <2>1 DEF Frame
  <2>3. MembersOf(stack[c][i].guid)' \subseteq MembersOf(stack[c][i].guid)
    BY <1>0, <1>3, <2>2 DEF MembersOf
  <2>4. MembersOf(stack[c][i].guid) \subseteq Entity
    BY <2>2, MembersType
  <2>5. Accounted(stack[c], i)
    BY DEF CascadingOne
  <2> QED
    BY <1>0, <1>3, <2>3, <2>4, <2>5 DEF Accounted
<1> QED
  BY <1>0, <1>4, <1>5 DEF CascadingOne

\* and returns to the call below it.
LEMMA CleanAccounts ==
    ASSUME TypeOK, Running, NEW c \in Caller, CascadingOne(c), Clean(c)
    PROVE  CascadingOne(c)'
<1>0. pc[c] = "clean" /\ stack[c] # <<>> /\ store' = store /\ ~Stored(Top(c).guid)
  BY DEF Clean, At, Running, RunningOne, CascadingOne
<1>1. CASE Finish(c, "applied")
  BY <1>1, FinishCascade
<1>2. CASE ~Finish(c, "applied")
  <2> DEFINE s == stack[c]
             t == stack'[c]
  <2>1. /\ t = SubSeq(s, 1, Len(s) - 1)
        /\ pc'[c] = (IF Len(s) = 1 THEN "flag" ELSE "cascade")
    BY <1>2 DEF TypeOK, Clean, Below, Go
  <2>2. /\ Len(s) \in Nat /\ Len(s) >= 1 /\ Len(t) = Len(s) - 1
        /\ \A i \in 1 .. Len(s) - 1 : t[i] = s[i]
    <3>1. s \in Seq(Frame) /\ s # <<>>
      BY <1>0 DEF TypeOK
    <3> HIDE DEF s, t
    <3> QED
      BY <2>1, <3>1, Popped
  <2>3. CASE Len(s) = 1
    <3>1. t \in Seq(Frame)
      BY <1>0, <2>1, StackType DEF Below
    <3>2. t = <<>>
      BY <2>2, <2>3, <3>1, EmptySeq
    <3> QED
      BY <2>1, <2>3, <3>2, NoCascade
  <2>4. CASE Len(s) # 1
    <3>1. ASSUME NEW i \in 1 .. Len(t) PROVE Accounted(stack[c], i)'
      <4>0. Accounted(stack[c], i)' <=>
               \A x \in MembersOf(t[i].guid) : \/ x \in t[i].rest
                                              \/ ~Stored(x)
                                              \/ (i < Len(t) /\ x = t[i + 1].guid)
        BY <1>0 DEF Accounted, MembersOf, Stored
      <4>1. Accounted(s, i)
        BY <2>2 DEF CascadingOne
      <4>2. t[i] = s[i] /\ (i < Len(t) => t[i + 1] = s[i + 1])
        BY <2>2
      <4>3. i = Len(t) => s[i + 1] = Top(c)
        BY <2>2 DEF Top
      <4> HIDE DEF s, t
      <4> QED
        BY <1>0, <2>2, <4>0, <4>1, <4>2, <4>3 DEF Accounted
    <3> QED
      BY <2>1, <2>4, <3>1 DEF CascadingOne
  <2> QED
    BY <2>3, <2>4
<1> QED
  BY <1>1, <1>2

LEMMA CascadingStep ==
    ASSUME TypeOK, Running, Begun, Alone => Cascading, [Next]_vars, Alone'
    PROVE  Cascading'
<1> USE DEF At, Go
<1>1. CASE Tick \/ UNCHANGED vars
  BY <1>1, Unmoved
  DEF Cascading, CascadingOne, Accounted, MembersOf, Stored, Top, Tick, vars, callVars
<1>2. ASSUME NEW c \in Caller, Begin(c) \/ Step(c) \/ Throw(c) PROVE CascadingOne(c)'
  <2>0. CascadingOne(c)
    BY <1>2, Sole DEF Cascading
  <2>1. \A how : Finish(c, how) => CascadingOne(c)'
    BY FinishCascade
  <2>2. pc[c] \notin {"cascade", "clean"} => stack[c] = <<>>
    BY <2>0 DEF CascadingOne
  <2>3. CASE Begin(c) \/ StoreEvent(c)
    <3>1. CASE Begin(c)
      BY <2>2, <3>1, NoCascade DEF TypeOK, Begin
    <3>2. CASE StoreEvent(c) /\ ~Finish(c, "kept") /\ ~Finish(c, "applied")
      <4>1. form[c] \in Form
        BY <3>2 DEF Running, RunningOne, StoreEvent
      <4>2. stack'[c] = <<>> /\ pc'[c] = Dispatch(form[c])
        BY <2>2, <3>2 DEF TypeOK, StoreEvent
      <4> QED
        BY <4>1, <4>2, DispatchType, NoCascade
    <3> QED
      BY <2>1, <2>3, <3>1, <3>2
  <2>4. CASE SaveIndividual(c) \/ SaveMember(c) \/ SaveGroup(c)
    BY <2>2, <2>4, NoCascade DEF TypeOK, SaveIndividual, SaveMember, SaveGroup
  <2>5. CASE ReadGroup(c)
    <3>1. CASE ~Finish(c, "failed")
      BY <2>2, <2>5, <3>1, NoCascade DEF TypeOK, ReadGroup
    <3> QED
      BY <2>1, <3>1
  <2>6. CASE AddMember(c) \/ Attach(c) \/ Detach(c) \/ Look(c)
    BY <2>2, <2>6, NoCascade DEF TypeOK, AddMember, Attach, Detach, Look
  <2>7. CASE Resolve(c)
    <3>1. CASE ~Finish(c, "applied")
      BY <2>2, <2>7, <3>1, NoCascade DEF TypeOK, Resolve
    <3> QED
      BY <2>1, <3>1
  <2>8. CASE Descend(c) \/ Remove(c) \/ Clean(c)
    BY <2>0, <2>8, DescendAccounts, RemoveAccounts, CleanAccounts
  <2>9. CASE Flag(c) \/ SavePair(c)
    <3>1. CASE ~Finish(c, "applied") /\ ~Finish(c, "failed")
      BY <2>2, <2>9, <3>1, NoCascade DEF TypeOK, Flag, SavePair
    <3> QED
      BY <2>1, <3>1
  <2>10. CASE Throw(c)
    BY <2>1, <2>10 DEF Throw
  <2> QED
    BY <1>2, <2>3, <2>4, <2>5, <2>6, <2>7, <2>8, <2>9, <2>10 DEF Step
<1>3. ASSUME NEW c \in Caller, Begin(c) \/ Step(c) \/ Throw(c) PROVE Cascading'
  <2>1. ASSUME NEW d \in Caller \ {c} PROVE CascadingOne(d)'
    <3>1. pc[d] = "idle" /\ pc'[d] = "idle" /\ stack'[d] = stack[d] /\ CascadingOne(d)
      BY <1>3, Sole DEF Cascading
    <3> QED
      BY <3>1, NoCascade DEF CascadingOne
  <2> QED
    BY <1>2, <1>3, <2>1 DEF Cascading
<1> QED
  BY <1>1, <1>3 DEF Next

\* Nothing but the last step of a cascade takes an entity out of the store.
LEMMA OnlyRemove ==
    ASSUME TypeOK, Running, NEW c \in Caller, Begin(c) \/ Step(c) \/ Throw(c),
           NEW e \in Entity, Stored(e), store'[e] = Absent
    PROVE  Remove(c) /\ e = Top(c).guid
<1> USE DEF At, Stored
<1>0. \A s, x, a, b : /\ s \in [Entity -> Pair \cup {Absent}] /\ x \in Entity /\ a \in Doc /\ b \in Doc
                       /\ s[e] # Absent
                       => Saved(s, x, a, b)[e] # Absent
  <2> SUFFICES ASSUME NEW s \in [Entity -> Pair \cup {Absent}], NEW x \in Entity, NEW a \in Doc, NEW b \in Doc,
                      s[e] # Absent
               PROVE  Saved(s, x, a, b)[e] # Absent
    OBVIOUS
  <2>1. [initial |-> a, modified |-> b] \in Pair
    BY DEF Pair
  <2>2. /\ Saved(s, x, a, b)[x] = [initial |-> a, modified |-> b]
        /\ \A y \in Entity \ {x} : Saved(s, x, a, b)[y] = s[y]
    BY SavedType
  <2> QED
    BY <2>1, <2>2, AbsentAssumption
<1>1. store \in [Entity -> Pair \cup {Absent}] /\ store[e] # Absent
  BY DEF TypeOK
<1>2. store' # store
  OBVIOUS
<1>3. \A m \in Entity : form[c] \in Form => Created(store, c, m)[e] # Absent
  <2>1. form[c] \in Form => NewDoc(form[c], {}) \in Doc
    BY NewDocType
  <2> QED
    BY <1>0, <1>1, <2>1 DEF Created
<1>4. CASE SaveIndividual(c)
  <2> DEFINE f == form[c]
             new == IF Base(c) = Absent THEN NewDoc(f, {}) ELSE Revised(Base(c), f, {})
  <2>1. f \in Form /\ Target[f] \in Entity
    BY <1>4, FormAssumption DEF Running, RunningOne, SaveIndividual
  <2>2. new \in Doc
    BY <2>1, NewDocType, RevisedType, BaseType
  <2>3. InitialSide(c, new) \in Doc
    BY <2>2, BaseType DEF InitialSide
  <2>4. store' = Saved(store, Target[f], InitialSide(c, new), new)
    BY <1>4 DEF SaveIndividual
  <2> HIDE DEF f, new
  <2> QED
    BY <1>0, <1>1, <2>1, <2>2, <2>3, <2>4
<1>5. CASE SaveMember(c)
  <2>1. PICK m \in todo[c] : store' = Created(store, c, m)
    BY <1>5 DEF SaveMember
  <2>2. m \in Entity /\ form[c] \in Form
    BY <1>5, <2>1 DEF TypeOK, Running, RunningOne, SaveMember
  <2> QED
    BY <1>3, <2>1, <2>2
<1>6. CASE SaveGroup(c)
  <2> DEFINE f == form[c]
             named == IF Type[f] = "group" THEN Others[f] ELSE {}
             new == IF Base(c) = Absent THEN NewDoc(f, named)
                    ELSE Revised(Base(c), f, Base(c).members \cup named)
  <2>1. f \in Form /\ Target[f] \in Entity /\ named \in SUBSET Entity
    BY <1>6, FormAssumption DEF Running, RunningOne, SaveGroup
  <2>2. Base(c) # Absent => Base(c) \in Doc /\ Base(c).members \cup named \in SUBSET Entity
    BY <2>1, BaseType DEF Doc
  <2>3. new \in Doc
    BY <2>1, <2>2, NewDocType, RevisedType
  <2>4. store' = Saved(store, Target[f], new, new)
    BY <1>6 DEF SaveGroup
  <2> HIDE DEF f, new
  <2> QED
    BY <1>0, <1>1, <2>1, <2>3, <2>4
<1>7. CASE AddMember(c)
  <2>1. form[c] \in Form
    BY <1>7 DEF Running, RunningOne, AddMember
  <2>2. PICK m \in Others[form[c]] : store' = Created(store, c, m)
    BY <1>7 DEF AddMember
  <2>3. m \in Entity
    BY <2>1, <2>2, FormAssumption
  <2> QED
    BY <1>3, <2>1, <2>2, <2>3
<1>8. CASE Attach(c) \/ Detach(c)
  <2> DEFINE f == form[c]
             pair == entityPair[c]
  <2>1. f \in Form /\ pair \in Pair /\ Target[f] \in Entity /\ Others[f] \in SUBSET Entity
    BY <1>8, FormAssumption DEF TypeOK, Running, RunningOne, Attach, Detach
  <2>2. /\ pair.initial \in Doc /\ pair.modified \in Doc
        /\ pair.modified.members \cup Others[f] \in SUBSET Entity
        /\ pair.modified.members \ Others[f] \in SUBSET Entity
    BY <2>1 DEF Pair, Doc
  <2>3. /\ Revised(pair.modified, f, pair.modified.members \cup Others[f]) \in Doc
        /\ Revised(pair.modified, f, pair.modified.members \ Others[f]) \in Doc
    BY <2>1, <2>2, RevisedType
  <2>4. \E b \in Doc : store' = Saved(store, Target[f], pair.initial, b)
    BY <1>8, <2>2, <2>3 DEF Attach, Detach
  <2> HIDE DEF f, pair
  <2> QED
    BY <1>0, <1>1, <2>1, <2>2, <2>4
<1>9. CASE Remove(c)
  BY <1>1, <1>9 DEF Remove
<1>10. CASE Throw(c)
  <2>1. form[c] \in Form
    BY <1>10 DEF Throw, Running, RunningOne
  <2> QED
    BY <1>1, <1>3, <1>10, <2>1 DEF Throw
<1> QED
  BY <1>2, <1>4, <1>5, <1>6, <1>7, <1>8, <1>9, <1>10
  DEF Step, Begin, StoreEvent, ReadGroup, Look, Resolve, Descend, Clean, Flag, SavePair

LEMMA CascadeOrder ==
    ASSUME TypeOK, Running, Cascading, [Next]_vars
    PROVE  [\A e \in Entity : Stored(e) /\ store'[e] = Absent
              => \A m \in MembersOf(e) : ~Stored(m)]_vars
<1> SUFFICES ASSUME NEW e \in Entity, Stored(e), store'[e] = Absent, NEW m \in MembersOf(e)
             PROVE  ~Stored(m)
  OBVIOUS
<1>1. store' # store
  BY DEF Stored
<1>2. PICK c \in Caller : Begin(c) \/ Step(c) \/ Throw(c)
  BY <1>1 DEF Next, Tick, vars
<1>3. Remove(c) /\ e = Top(c).guid
  BY <1>2, OnlyRemove
<1>4. stack[c] # <<>> /\ Top(c).rest = {}
  BY <1>3 DEF Remove
<1>5. Len(stack[c]) \in Nat /\ Len(stack[c]) >= 1
  BY <1>4, EmptySeq DEF TypeOK
<1>6. Accounted(stack[c], Len(stack[c]))
  BY <1>5 DEF Cascading, CascadingOne
<1> QED
  BY <1>3, <1>4, <1>5, <1>6 DEF Accounted, Top

\* While one caller has submitted every form, a cascade deletes from the bottom up:
\* whatever failed, and however groups are nested, an entity goes when all its
\* members have gone.
THEOREM CascadesBottomUp == Spec => MembersGoFirst
<1>1. Init => Begun /\ (Alone => Cascading)
  BY DEF Init, Begun, BegunOne, Cascading, CascadingOne
<1>2. TypeOK /\ Running /\ Begun /\ [Next]_vars => Begun'
  BY BegunStep
<1>3. TypeOK /\ Running /\ Begun /\ (Alone => Cascading) /\ [Next]_vars => (Alone => Cascading)'
  BY CascadingStep
<1>4. TypeOK /\ Running /\ (Alone => Cascading) /\ [Next]_vars
         => [Alone => \A e \in Entity : Stored(e) /\ store'[e] = Absent
              => \A m \in MembersOf(e) : ~Stored(m)]_vars
  BY CascadeOrder
<1> QED
  BY <1>1, <1>2, <1>3, <1>4, Invariance, PTL DEF Spec, MembersGoFirst

(***************************************************************************)
(* One caller: the members of a group.  What it holds of the target, from  *)
(* the read to the save, is what the store holds.                          *)
(***************************************************************************)

ReadingOne(c) ==
    LET f == form[c] IN
    /\ pc[c] \in {"save", "members", "member", "attach", "detach"} => entityPair[c] = store[Target[f]]
    /\ pc[c] = "members" => (todo[c] \subseteq Others[f]) /\ (Type[f] # "group" => todo[c] = {})
    /\ pc[c] \in {"member", "attach"} => Type[f] = "add"
    /\ pc[c] = "detach" => Type[f] = "remove"

Reading == \A c \in Caller : ReadingOne(c)

\* Anywhere else nothing is said of what a caller holds.
LEMMA NotReading ==
    ASSUME NEW c \in Caller, pc'[c] \notin {"save", "members", "member", "attach", "detach"}
    PROVE  ReadingOne(c)'
BY DEF ReadingOne

\* A member that is created anew is another entity than the target.
LEMMA CreatedBeside ==
    ASSUME TypeOK, NEW c \in Caller, form[c] \in Form, NEW m \in Entity
    PROVE  /\ \A e \in Entity \ {m} : Created(store, c, m)[e] = store[e]
           /\ m \in Others[form[c]] => m # Target[form[c]]
<1>1. NewDoc(form[c], {}) \in Doc /\ store \in [Entity -> Pair \cup {Absent}]
  BY NewDocType DEF TypeOK
<1>2. \A e \in Entity \ {m} : Created(store, c, m)[e] = store[e]
  BY <1>1 DEF Created, Saved
<1> QED
  BY <1>2, FormAssumption

LEMMA ReadingStep ==
    ASSUME TypeOK, Running, Begun, Alone => Reading, [Next]_vars, Alone'
    PROVE  Reading'
<1> USE DEF At, Go
<1>1. CASE Tick \/ UNCHANGED vars
  BY <1>1, Unmoved DEF Reading, ReadingOne, Tick, vars, callVars
<1>2. ASSUME NEW c \in Caller, Begin(c) \/ Step(c) \/ Throw(c) PROVE ReadingOne(c)'
  <2>0. ReadingOne(c) /\ RunningOne(c)
    BY <1>2, Sole DEF Reading, Running
  <2>1. \A how : Finish(c, how) => ReadingOne(c)'
    BY NotReading DEF Finish, TypeOK
  <2>2. CASE Begin(c)
    <3>1. PICK f \in Form : /\ form' = [form EXCEPT ![c] = f]
                           /\ entityPair' = [entityPair EXCEPT ![c] = store[Target[f]]]
      BY <2>2 DEF Begin
    <3>2. form'[c] = f /\ entityPair'[c] = store'[Target[f]] /\ pc'[c] = "save"
      BY <2>2, <3>1 DEF TypeOK, Begin
    <3> QED
      BY <3>2 DEF ReadingOne
  <2>3. CASE StoreEvent(c) /\ ~Finish(c, "kept") /\ ~Finish(c, "applied")
    <3> DEFINE f == form[c]
    <3>1. f \in Form /\ Type[f] \in FormType /\ entityPair[c] = store[Target[f]]
      BY <2>0, <2>3, FormAssumption DEF StoreEvent, RunningOne, ReadingOne
    <3>2. /\ pc'[c] = Dispatch(f) /\ form'[c] = f /\ store' = store /\ entityPair' = entityPair
          /\ todo'[c] = CASE Type[f] = "group" -> Others[f]
                           [] Type[f] = "delete" -> {Target[f]}
                           [] OTHER -> {}
      BY <2>3 DEF TypeOK, StoreEvent
    <3>3. pc'[c] = "members" => Type[f] \in {"group", "heal"}
      BY <3>1, <3>2 DEF Dispatch, FormType
    <3>4. pc'[c] \notin {"member", "attach", "detach"}
      BY <3>1, <3>2, DispatchType
    <3> QED
      BY <3>1, <3>2, <3>3, <3>4 DEF ReadingOne
  <2>4. CASE SaveMember(c)
    <3>1. PICK m \in todo[c] : store' = Created(store, c, m) /\ todo' = [todo EXCEPT ![c] = @ \ {m}]
      BY <2>4 DEF SaveMember
    <3>2. /\ pc[c] = "members" /\ pc' = pc /\ form' = form /\ entityPair' = entityPair
          /\ m \in Entity /\ form[c] \in Form /\ todo'[c] = todo[c] \ {m}
      BY <2>0, <2>4, <3>1 DEF TypeOK, SaveMember, RunningOne
    <3>3. m \in Others[form[c]] /\ Target[form[c]] \in Entity
      BY <2>0, <3>1, <3>2, FormAssumption DEF ReadingOne
    <3>4. store'[Target[form[c]]] = store[Target[form[c]]]
      BY <3>1, <3>2, <3>3, CreatedBeside
    <3> QED
      BY <2>0, <3>2, <3>4 DEF ReadingOne
  <2>5. CASE ReadGroup(c) /\ ~Finish(c, "failed")
    <3>1. /\ Type[form[c]] \in {"add", "remove"} /\ form' = form /\ store' = store
          /\ entityPair'[c] = store[Target[form[c]]]
          /\ pc'[c] = (IF Type[form[c]] = "add" THEN "member" ELSE "detach")
      BY <2>0, <2>5 DEF TypeOK, ReadGroup, RunningOne
    <3> QED
      BY <3>1 DEF ReadingOne
  <2>6. CASE AddMember(c)
    <3>1. PICK m \in Others[form[c]] : store' = Created(store, c, m)
      BY <2>6 DEF AddMember
    <3>2. /\ pc[c] = "member" /\ pc'[c] = "attach" /\ form' = form /\ entityPair' = entityPair
          /\ form[c] \in Form
      BY <2>0, <2>6 DEF TypeOK, AddMember, RunningOne
    <3>3. m \in Entity /\ Target[form[c]] \in Entity
      BY <3>1, <3>2, FormAssumption
    <3>4. store'[Target[form[c]]] = store[Target[form[c]]]
      BY <3>1, <3>2, <3>3, CreatedBeside
    <3> QED
      BY <2>0, <3>2, <3>4 DEF ReadingOne
  <2>7. CASE SaveIndividual(c) \/ SaveGroup(c) \/ Attach(c) \/ Detach(c) \/ Look(c)
    BY <2>7, NotReading DEF TypeOK, SaveIndividual, SaveGroup, Attach, Detach, Look
  <2>8. CASE Resolve(c) /\ ~Finish(c, "applied")
    BY <2>8, NotReading DEF TypeOK, Resolve
  <2>9. CASE Descend(c) \/ Remove(c)
    BY <2>9, NotReading DEF TypeOK, Descend, Remove
  <2>10. CASE Clean(c) /\ ~Finish(c, "applied")
    BY <2>10, NotReading DEF TypeOK, Clean
  <2>11. CASE (Flag(c) \/ SavePair(c)) /\ ~Finish(c, "applied") /\ ~Finish(c, "failed")
    BY <2>11, NotReading DEF TypeOK, Flag, SavePair
  <2>12. CASE Throw(c)
    BY <2>1, <2>12 DEF Throw
  <2> QED
    BY <1>2, <2>1, <2>2, <2>3, <2>4, <2>5, <2>6, <2>7, <2>8, <2>9, <2>10, <2>11, <2>12 DEF Step
<1>3. ASSUME NEW c \in Caller, Begin(c) \/ Step(c) \/ Throw(c) PROVE Reading'
  <2>1. \A d \in Caller \ {c} : pc'[d] = "idle"
    BY <1>3, Sole
  <2>2. \A d \in Caller \ {c} : ReadingOne(d)'
    BY <2>1, NotReading
  <2> QED
    BY <1>2, <1>3, <2>2 DEF Reading
<1> QED
  BY <1>1, <1>3 DEF Next

\* What lets member m go from group g, as MembersKept lists it.
Lets(c, g, m) ==
    LET f == form[c] IN
    /\ f # NoForm
    /\ \/ Type[f] = "remove" /\ Target[f] = g /\ m \in Others[f]
       \/ Type[f] \in {"add", "group"} /\ g \in Others[f]
       \/ Type[f] \in {"group", "heal"} /\ Target[f] = g /\ Conflict(c)

LEMMA MemberLost ==
    ASSUME TypeOK, Running, Reading, NEW c \in Caller, Begin(c) \/ Step(c) \/ Throw(c),
           NEW g \in Groups, Stored(g), store'[g] # Absent,
           NEW m \in MembersOf(g) \ store'[g].modified.members
    PROVE  Lets(c, g, m)
<1> USE DEF At
<1>0. ReadingOne(c) /\ RunningOne(c)
  BY DEF Reading, Running
<1>1. /\ g \in Entity /\ store \in [Entity -> Pair \cup {Absent}] /\ store[g] \in Pair
      /\ m \in store[g].modified.members
  BY EntityAssumption DEF TypeOK, Stored, MembersOf
<1>2. store'[g] # store[g]
  BY <1>1
<1>3. form[c] \in Form => form[c] # NoForm
  BY EntityAssumption
<1>4. CASE SaveIndividual(c)
  <2> DEFINE f == form[c]
             new == IF Base(c) = Absent THEN NewDoc(f, {}) ELSE Revised(Base(c), f, {})
  <2>1. f \in Form /\ Target[f] \in Entity /\ Target[f] # g
    BY <1>0, <1>4, FormAssumption DEF RunningOne, SaveIndividual
  <2>2. new \in Doc
    BY <2>1, NewDocType, RevisedType, BaseType
  <2>3. InitialSide(c, new) \in Doc
    BY <2>2, BaseType DEF InitialSide
  <2>4. store' = Saved(store, Target[f], InitialSide(c, new), new)
    BY <1>4 DEF SaveIndividual
  <2> HIDE DEF f, new
  <2>5. store'[g] = store[g]
    BY <1>1, <2>1, <2>4 DEF Saved
  <2> QED
    BY <1>2, <2>5
<1>5. CASE SaveMember(c)
  <2>1. PICK x \in todo[c] : store' = Created(store, c, x)
    BY <1>5 DEF SaveMember
  <2>2. /\ x \in Entity /\ form[c] \in Form /\ x \in Others[form[c]]
        /\ Type[form[c]] = "group"
    BY <1>0, <1>5, <2>1 DEF TypeOK, RunningOne, ReadingOne, SaveMember
  <2>3. x = g
    BY <1>1, <1>2, <2>1, <2>2, CreatedBeside
  <2> QED
    BY <1>3, <2>2, <2>3 DEF Lets
<1>6. CASE SaveGroup(c)
  <2> DEFINE f == form[c]
             named == IF Type[f] = "group" THEN Others[f] ELSE {}
             new == IF Base(c) = Absent THEN NewDoc(f, named)
                    ELSE Revised(Base(c), f, Base(c).members \cup named)
  <2>1. /\ f \in Form /\ Target[f] \in Entity /\ named \in SUBSET Entity
        /\ Type[f] \in {"group", "heal"} /\ entityPair[c] = store[Target[f]]
    BY <1>0, <1>6, FormAssumption DEF RunningOne, ReadingOne, SaveGroup
  <2>2. Base(c) # Absent => Base(c) \in Doc /\ Base(c).members \cup named \in SUBSET Entity
    BY <2>1, BaseType DEF Doc
  <2>3. new \in Doc
    BY <2>1, <2>2, NewDocType, RevisedType
  <2>4. store' = Saved(store, Target[f], new, new)
    BY <1>6 DEF SaveGroup
  <2>5. Target[f] = g /\ store'[g] = [initial |-> new, modified |-> new]
    <3> HIDE DEF f, new
    <3> QED
      BY <1>1, <1>2, <2>1, <2>3, <2>4, SavedType
  <2>6. CASE Conflict(c)
    BY <1>3, <2>1, <2>5, <2>6 DEF Lets
  <2>7. CASE ~Conflict(c)
    <3>1. entityPair[c] = store[g] /\ store[g] # Absent
      BY <2>1, <2>5 DEF Stored
    <3>2. Base(c) = store[g].modified
      BY <2>7, <3>1 DEF Base
    <3>3. store[g].modified \in Doc
      BY <1>1 DEF Pair
    <3>4. Base(c) # Absent
      BY <3>2, <3>3, AbsentAssumption
    <3>5. store'[g].modified.members = store[g].modified.members \cup named
      BY <2>5, <3>2, <3>4 DEF Revised
    <3> QED
      BY <1>1, <3>5
  <2> QED
    BY <2>6, <2>7
<1>7. CASE AddMember(c)
  <2>1. form[c] \in Form /\ Type[form[c]] = "add"
    BY <1>0, <1>7 DEF RunningOne, ReadingOne, AddMember
  <2>2. PICK x \in Others[form[c]] : store' = Created(store, c, x)
    BY <1>7 DEF AddMember
  <2>3. x \in Entity
    BY <2>1, <2>2, FormAssumption
  <2>4. x = g
    BY <1>1, <1>2, <2>1, <2>2, <2>3, CreatedBeside
  <2> QED
    BY <1>3, <2>1, <2>2, <2>4 DEF Lets
<1>8. CASE Attach(c) \/ Detach(c)
  <2> DEFINE f == form[c]
             pair == entityPair[c]
  <2>1. /\ f \in Form /\ pair \in Pair /\ Target[f] \in Entity /\ Others[f] \in SUBSET Entity
        /\ pair = store[Target[f]]
    BY <1>0, <1>8, FormAssumption DEF TypeOK, RunningOne, ReadingOne, Attach, Detach
  <2>2. /\ pair.initial \in Doc /\ pair.modified \in Doc
        /\ pair.modified.members \cup Others[f] \in SUBSET Entity
        /\ pair.modified.members \ Others[f] \in SUBSET Entity
    BY <2>1 DEF Pair, Doc
  <2>3. ASSUME NEW S \in SUBSET Entity
        PROVE  Revised(pair.modified, f, S) \in Doc /\ Revised(pair.modified, f, S).members = S
    <3>1. Revised(pair.modified, f, S) \in Doc
      BY <2>1, <2>2, RevisedType
    <3> QED
      BY <3>1 DEF Revised
  <2>4. PICK b \in Doc : /\ store' = Saved(store, Target[f], pair.initial, b)
                        /\ \/ pair.modified.members \subseteq b.members
                           \/ Detach(c) /\ b.members = pair.modified.members \ Others[f]
    <3>1. CASE Attach(c)
      <4>1. CASE Others[f] \subseteq pair.modified.members
        BY <2>2, <3>1, <4>1 DEF Attach
      <4>2. CASE ~(Others[f] \subseteq pair.modified.members)
        <5> DEFINE b == Revised(pair.modified, f, pair.modified.members \cup Others[f])
        <5>1. b \in Doc /\ pair.modified.members \subseteq b.members
          BY <2>2, <2>3
        <5>2. store' = Saved(store, Target[f], pair.initial, b)
          BY <3>1, <4>2 DEF Attach
        <5> QED
          BY <5>1, <5>2
      <4> QED
        BY <4>1, <4>2
    <3>2. CASE Detach(c)
      <4> DEFINE b == Revised(pair.modified, f, pair.modified.members \ Others[f])
      <4>1. b \in Doc /\ b.members = pair.modified.members \ Others[f]
        BY <2>2, <2>3
      <4>2. store' = Saved(store, Target[f], pair.initial, b)
        BY <3>2 DEF Detach
      <4> QED
        BY <3>2, <4>1, <4>2
    <3> QED
      BY <1>8, <3>1, <3>2
  <2>5. Target[f] = g /\ store'[g] = [initial |-> pair.initial, modified |-> b] /\ pair = store[g]
    <3> HIDE DEF f, pair
    <3>1. Target[f] = g
      BY <1>1, <1>2, <2>1, <2>4 DEF Saved
    <3>2. store'[g] = [initial |-> pair.initial, modified |-> b]
      BY <1>1, <2>1, <2>2, <2>4, <3>1, SavedType
    <3> QED
      BY <2>1, <3>1, <3>2
  <2>6. store'[g].modified.members = b.members /\ m \in pair.modified.members
    BY <1>1, <2>5
  <2>7. Detach(c) /\ m \in Others[f]
    BY <2>4, <2>6
  <2>8. Type[f] = "remove"
    BY <1>0, <2>7 DEF ReadingOne, Detach
  <2> QED
    BY <1>3, <2>1, <2>5, <2>7, <2>8 DEF Lets
<1>9. CASE Remove(c)
  BY <1>1, <1>2, <1>9 DEF Remove
<1>10. CASE Throw(c)
  <2>1. PICK started \in SUBSET todo[c] :
           /\ pc[c] # "members" => started = {}
           /\ store' = [e \in Entity |-> IF e \in started THEN Created(store, c, e)[e] ELSE store[e]]
    BY <1>10 DEF Throw
  <2>2. g \in started
    BY <1>1, <1>2, <2>1
  <2>3. /\ pc[c] = "members" /\ form[c] \in Form /\ g \in Others[form[c]]
        /\ Type[form[c]] = "group"
    BY <1>0, <2>1, <2>2 DEF RunningOne, ReadingOne
  <2> QED
    BY <1>3, <2>3 DEF Lets
<1>11. store' # store
  BY <1>2
<1> QED
  BY <1>11, <1>4, <1>5, <1>6, <1>7, <1>8, <1>9, <1>10
  DEF Step, Begin, StoreEvent, ReadGroup, Look, Resolve, Descend, Clean, Flag, SavePair

\* While one caller has submitted every form, a group keeps its members, whatever
\* failed in between, but for the three ways out that MembersKept names.
THEOREM GroupsKeepMembers == Spec => MembersKept
<1> DEFINE Keep == \A g \in Groups : Stored(g) /\ store'[g] # Absent =>
                     \A m \in MembersOf(g) \ store'[g].modified.members :
                        \E c \in Caller : Lets(c, g, m)
<1>1. Init => Begun /\ (Alone => Reading)
  BY DEF Init, Begun, BegunOne, Reading, ReadingOne
<1>2. TypeOK /\ Running /\ Begun /\ (Alone => Reading) /\ [Next]_vars => (Begun /\ (Alone => Reading))'
  BY BegunStep, ReadingStep
<1>3. TypeOK /\ Running /\ (Alone => Reading) /\ [Next]_vars => [Alone => Keep]_vars
  <2> SUFFICES ASSUME TypeOK, Running, Reading, [Next]_vars, ~UNCHANGED vars,
                      NEW g \in Groups, Stored(g), store'[g] # Absent,
                      NEW m \in MembersOf(g) \ store'[g].modified.members
               PROVE  \E c \in Caller : Lets(c, g, m)
    OBVIOUS
  <2>1. store' # store
    BY DEF MembersOf, Stored
  <2>2. PICK c \in Caller : Begin(c) \/ Step(c) \/ Throw(c)
    BY <2>1 DEF Next, Tick, vars
  <2> QED
    BY <2>2, MemberLost
<1>4. [Alone => Keep]_vars <=> [Alone => \A g \in Groups : Stored(g) /\ store'[g] # Absent =>
          \A m \in MembersOf(g) \ store'[g].modified.members :
             \E c \in Caller :
                LET f == form[c] IN
                /\ f # NoForm
                /\ \/ Type[f] = "remove" /\ Target[f] = g /\ m \in Others[f]
                   \/ Type[f] \in {"add", "group"} /\ g \in Others[f]
                   \/ Type[f] \in {"group", "heal"} /\ Target[f] = g /\ Conflict(c)]_vars
  BY Zenon DEF Lets
<1> HIDE DEF Keep
<1> QED
  BY <1>1, <1>2, <1>3, <1>4, Invariance, PTL DEF Spec, MembersKept
=============================================================================

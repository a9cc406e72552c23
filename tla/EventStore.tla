----------------------------- MODULE EventStore -----------------------------
(***************************************************************************)
(* EventStoreImpl over its IndexedDB or Postgres tables: the event log, the*)
(* Merkle root kept in memory and in a table. saveEvent                    *)
(* inserts an event and then rebuilds the whole tree from the table, in    *)
(* steps that other calls may come between. On a device, uploads mark      *)
(* events as REMOTE; on the server, an administrator may clear the store.  *)
(* A hash is the term it is the hash of: two are equal if their terms are. *)
(***************************************************************************)
EXTENDS Naturals, Sequences, SequencesExt

CONSTANTS
    Call,        \* calls of submitForm that can be under way at the same time
    Event,
    MaxFaults, MaxClears

ASSUME Bounds == MaxFaults \in Nat /\ MaxClears \in Nat

VARIABLES
    side,        \* "device" or "server"
    log,         \* the event table, in order of insertion: <<event, sync level>>
    saved,       \* the Merkle root in its table, <<>> for none
    memory,      \* the tree in memory, by its root
    pc,          \* of a call: where it is
    snap,        \* of a call: the events loadMerkleTree has read
    clearing,    \* where clearStore is
    faults, clears,
    erased,      \* a bound: events removed by clearStore are not submitted again
    built,       \* history: the log that memory was built from
    stale,       \* history: since the last root was saved, a sync level has changed
                 \* or a call has broken off
    overlap      \* history: calls have overlapped

storeVars == <<log, saved, memory>>
callVars == <<pc, snap>>
boundVars == <<faults, clears, erased>>
historyVars == <<built, stale, overlap>>
vars == <<side, storeVars, callVars, clearing, boundVars, historyVars>>

Stored == {log[i][1] : i \in DOMAIN log}
Busy == {c \in Call : pc[c] # "idle"}
Quiet == Busy = {} /\ clearing = "no"

-----------------------------------------------------------------------------
(* The tree. An inner node hashes its children; a lone one hashes as well. *)

Leaf_NoLevel(x) == <<x[1], "leaf", "leaf">>
Leaf(x) == <<x[1], x[2], "leaf">>

Leaves(s) == [i \in DOMAIN s |-> Leaf(s[i])]

Halves(n) == (n + 1) \div 2

\* One turn of buildMerkleTree,
Parents(nodes) ==
    [i \in 1 .. Halves(Len(nodes)) |->
        IF 2 * i <= Len(nodes) THEN <<nodes[2 * i - 1], nodes[2 * i]>> ELSE <<nodes[2 * i - 1]>>]

\* and the one after it, if the tree goes on
Above_Lone(nodes) == IF nodes = <<>> THEN nodes ELSE Parents(nodes)
Above(nodes) == IF Len(nodes) <= 1 THEN nodes ELSE Parents(nodes)

Layers(nodes) ==
    LET layer[k \in 0 .. Len(nodes)] == IF k = 0 THEN nodes ELSE Above(layer[k - 1])
    IN  layer

Root(s) == IF s = <<>> THEN <<>> ELSE Layers(Leaves(s))[Len(s)][1]

\* getProof takes the sibling at every level from the leaves: {} where it has none.
Sibling(i) == IF i % 2 = 1 THEN i - 1 ELSE i + 1

Proof(s, index) ==
    LET node[k \in 0 .. Len(s)] == IF k = 0 THEN index ELSE node[k - 1] \div 2
        size[k \in 0 .. Len(s)] == IF k = 0 THEN Len(s) ELSE Halves(size[k - 1])
        Used(k) == size[k] > 1 /\ Sibling(node[k]) < size[k]
    IN  [k \in 1 .. Len(s) |->
            IF Used(k - 1) THEN {Leaf(s[Sibling(node[k - 1]) + 1])} ELSE {}]

\* hashPair of verifyEvent puts the smaller hash first; which one that is,
\* nobody can say, so these are the hashes that a proof may lead to.
Paired(H, P) == IF P = {} THEN H ELSE (H \X P) \cup (P \X H)

Computed(x, proof) ==
    LET hash[k \in 0 .. Len(proof)] == IF k = 0 THEN {Leaf(x)} ELSE Paired(hash[k - 1], proof[k])
    IN  hash[Len(proof)]

Verifies(x, proof) == memory \in Computed(x, proof)

-----------------------------------------------------------------------------
TypeOK ==
    /\ side \in {"device", "server"}
    /\ log \in Seq(Event \X {0, 1}) /\ IsInjective([i \in DOMAIN log |-> log[i][1]])
    /\ pc \in [Call -> {"idle", "load", "root", "save"}]
    /\ snap \in [Call -> Seq(Event \X {0, 1})]
    /\ clearing \in {"no", "root", "memory", "blank"}
    /\ faults \in 0 .. MaxFaults /\ clears \in 0 .. MaxClears
    /\ erased \subseteq Event
    /\ built \in Seq(Event \X {0, 1})
    /\ stale \in BOOLEAN /\ overlap \in BOOLEAN

Init ==
    /\ side \in {"device", "server"}
    /\ log = <<>> /\ saved = <<>> /\ memory = <<>>
    /\ pc = [c \in Call |-> "idle"]
    /\ snap = [c \in Call |-> <<>>]
    /\ clearing = "no" /\ faults = 0 /\ clears = 0 /\ erased = {}
    /\ built = <<>> /\ stale = FALSE /\ overlap = FALSE

\* saveEvents: one insert, submitForm having seen that the guid is new. An event
\* that a device has got from the server, or the server from a device, is marked.
Insert_Again(c, e, level) ==
    /\ pc[c] = "idle" /\ e \notin erased
    /\ log' = Append(log, <<e, level>>)
    /\ pc' = [pc EXCEPT ![c] = "load"]
    /\ overlap' = (overlap \/ ~Quiet)
    /\ UNCHANGED <<side, saved, memory, snap, clearing, boundVars, built, stale>>
Insert(c, e, level) ==
    /\ pc[c] = "idle" /\ e \notin Stored \cup erased
    /\ log' = Append(log, <<e, level>>)
    /\ pc' = [pc EXCEPT ![c] = "load"]
    /\ overlap' = (overlap \/ ~Quiet)
    /\ UNCHANGED <<side, saved, memory, snap, clearing, boundVars, built, stale>>

\* loadMerkleTree: all events,
LoadEvents(c) ==
    /\ pc[c] = "load"
    /\ snap' = [snap EXCEPT ![c] = log]
    /\ pc' = [pc EXCEPT ![c] = "root"]
    /\ UNCHANGED <<side, storeVars, clearing, boundVars, historyVars>>

\* The rest of submitForm, its audit entries among it, touches nothing here.
Return(c) == pc' = [pc EXCEPT ![c] = "idle"] /\ snap' = [snap EXCEPT ![c] = <<>>]

\* then the saved root; the tree in memory is built anew,
Rebuild(c) ==
    /\ pc[c] = "root"
    /\ memory' = Root(snap[c])
    /\ built' = snap[c]
    /\ stale' = (stale /\ ~(log = snap[c] /\ saved = Root(log)))
    /\ IF saved = Root(snap[c]) THEN Return(c) ELSE pc' = [pc EXCEPT ![c] = "save"] /\ UNCHANGED snap
    /\ UNCHANGED <<side, log, saved, clearing, boundVars, overlap>>

\* and its root saved, whatever the saved one was.
SaveRoot_Kept(c) ==
    /\ pc[c] = "save"
    /\ saved' = IF saved = <<>> THEN Root(snap[c]) ELSE saved
    /\ stale' = (stale /\ log # snap[c])
    /\ Return(c)
    /\ UNCHANGED <<side, log, memory, clearing, boundVars, built, overlap>>
SaveRoot(c) ==
    /\ pc[c] = "save"
    /\ saved' = Root(snap[c])
    /\ stale' = (stale /\ log # snap[c])
    /\ Return(c)
    /\ UNCHANGED <<side, log, memory, clearing, boundVars, built, overlap>>

\* A query throws, and submitForm or clearStore with it.
Throw ==
    /\ faults < MaxFaults /\ faults' = faults + 1 /\ stale' = TRUE
    /\ \/ \E c \in Busy : Return(c) /\ UNCHANGED clearing
       \/ clearing # "no" /\ clearing' = "no" /\ UNCHANGED callVars
    /\ UNCHANGED <<side, storeVars, clears, erased, built, overlap>>

\* updateSyncLevelFromEvents after an upload; the tree is left alone.
Mark(e) ==
    /\ side = "device"
    /\ \E i \in DOMAIN log : log[i] = <<e, 0>> /\ log' = [log EXCEPT ![i] = <<e, 1>>]
    /\ stale' = TRUE
    /\ UNCHANGED <<side, saved, memory, callVars, clearing, boundVars, built, overlap>>

\* The app is killed or the server stops; when it comes back, initialize loads
\* the tree.
Restart(c) ==
    /\ faults < MaxFaults /\ faults' = faults + 1
    /\ pc' = [x \in Call |-> IF x = c THEN "load" ELSE "idle"]
    /\ snap' = [x \in Call |-> <<>>]
    /\ memory' = <<>> /\ built' = <<>> /\ clearing' = "no" /\ stale' = TRUE
    /\ UNCHANGED <<side, log, saved, clears, erased, overlap>>

\* clearStore: the events, the root, the tree, and the root once more.
ClearEvents ==
    /\ side = "server" /\ clearing = "no" /\ clears < MaxClears
    /\ clears' = clears + 1
    /\ log' = <<>> /\ erased' = erased \cup Stored
    /\ clearing' = "root"
    /\ overlap' = (overlap \/ ~Quiet)
    /\ UNCHANGED <<side, saved, memory, callVars, faults, built, stale>>

ClearOther ==
    /\ \/ clearing = "root" /\ saved' = <<>> /\ clearing' = "memory" /\ UNCHANGED <<memory, built>>
       \/ /\ clearing = "memory" /\ memory' = <<>> /\ built' = <<>> /\ clearing' = "blank"
          /\ UNCHANGED saved
       \/ clearing = "blank" /\ saved' = <<>> /\ clearing' = "no" /\ UNCHANGED <<memory, built>>
    /\ UNCHANGED <<side, log, callVars, boundVars, stale, overlap>>

Next ==
    \/ \E c \in Call :
          \/ \E e \in Event, level \in {0, 1} : Insert(c, e, level)
          \/ LoadEvents(c) \/ Rebuild(c) \/ SaveRoot(c) \/ Restart(c)
    \/ \E e \in Event : Mark(e)
    \/ Throw \/ ClearEvents \/ ClearOther

Spec == Init /\ [][Next]_vars

-----------------------------------------------------------------------------
(* Properties. *)

\* When nothing is under way, the tree in memory and the saved root are those of
\* the log, unless calls overlapped or an upload has changed a stored event since;
\* after a call that broke off they are so again once the next one has ended.
RootCurrent ==
    Quiet /\ ~overlap /\ ~stale => saved = Root(log) /\ memory = saved

\* getProof of an event that is in the log, and of one that is not.
Proofs == {Proof(log, i - 1) : i \in DOMAIN log} \cup {<<>>}

\* An event that verifies, with whatever proof getProof ever gives, is one the
\* tree was built from, in the very state it was then in.
VerifiedIsLogged ==
    \A e \in Event, level \in {0, 1}, proof \in Proofs :
        Verifies(<<e, level>>, proof) => <<e, level>> \in {built[k] : k \in DOMAIN built}

\* The root is the fingerprint of all events, in their order: a log with the root of
\* the tree in memory is the one that tree was built from. An event that was
\* changed, lost or added since shows in it.
RootTellsLog == memory = Root(log) => built = log

\* getProof proves the only event of a log.
LoneEventVerifies ==
    built = log => \A i \in DOMAIN log : Len(log) = 1 => Verifies(log[i], Proof(log, i - 1))

\* What the comments of getProof and verifyEvent promise: when the tree is that of
\* the log, verifyEvent accepts every event in it with the proof getProof returns,
\* for some order of the hashes at least. The run EventProof shows that it does not.
EventsVerify ==
    Quiet /\ built = log => \A i \in DOMAIN log : Verifies(log[i], Proof(log, i - 1))
=============================================================================

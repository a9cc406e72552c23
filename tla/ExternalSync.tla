---------------------------- MODULE ExternalSync ----------------------------
(***************************************************************************)
(* The server exchanges a tenant's events with an external system. A       *)
(* request to POST /external runs ExternalSyncManager.synchronize with the *)
(* adapter of the tenant: OpenFN, which takes and gives events in batches, *)
(* or OpenSPP, an Odoo registry in which every household and individual is *)
(* created by a call of its own. Requests may overlap; they share the two  *)
(* cursors in the event store and the Odoo client. A step is what happens  *)
(* between two awaits. Time is counted from 1; 0 is the empty cursor "".   *)
(***************************************************************************)
EXTENDS Naturals, FiniteSets, FiniteSetsExt, Functions

CONSTANTS
    Kinds,        \* adapter types a tenant may be configured with
    Request,      \* requests that can be under way at the same time
    Root,         \* events that create a root group with an id in the registry
    Household,    \* events that create a household
    Individual,   \* events that create an individual
    Parent,       \* Parent[e]: the event that created the parent of e
    Groups,       \* group records of the external system
    Persons,      \* its individual records
    NoEvent,
    Before,       \* events in the log before the adapter is configured
    BatchSize,    \* events in one POST to OpenFN
    DayLength,    \* ticks of the clock in a day
    MaxFaults, MaxClock

Event == Root \cup Household \cup Individual
Record == Groups \cup Persons
Submission == Event \cup Record
Way == {"push", "pull"}
Time == 0 .. MaxClock

ASSUME KindsKnown == Kinds \subseteq {"openfn", "openspp"}
ASSUME Levels == /\ Root \cap (Household \cup Individual) = {} /\ Household \cap Individual = {}
                 /\ Event \cap Record = {} /\ NoEvent \notin Submission /\ Before \subseteq Event
                 /\ Parent \in [Household \cup Individual -> Event]
ASSUME Sizes == /\ IsFiniteSet(Submission) /\ BatchSize \in Nat \ {0} /\ DayLength \in Nat \ {0}
                /\ MaxFaults \in Nat /\ MaxClock \in Nat \ {0}

VARIABLES
    kind,       \* the adapter of the tenant
    log,        \* the event table: submissions of devices, and records pulled
    stamp,      \* stamp[x]: timestamp of a submission in the log
    cursor,     \* cursor[w]: rows of the table that keeps the cursor
    client,     \* the Odoo client: "none", "new" (made, not logged in), "in"
    req,        \* req[q]: where a request is and its local variables
    written,    \* written[r]: write_date of a record, 0 if there is none
    outside,    \* outside[x]: times it was accepted there, 2 for twice or more
    copies,     \* copies[r]: local entities made of a record, 2 for two or more
    taken,      \* taken[r]: write_date of the latest version submitted here
    clock, faults,
    late, failed, orphan, slipped, stale, high, overlap, torn   \* history

dataVars == <<log, stamp, copies, taken>>
gaps == <<late, failed, orphan, slipped, stale>>
calm == <<overlap, torn>>
env == <<kind, clock>>
vars == <<env, dataVars, cursor, client, req, written, outside, faults, gaps, high, calm>>

Steps == {"idle", "login", "read", "list", "push", "link", "persons", "lookUp", "apply", "insert"}

\* since: the cursor read; todo, got: what is left to push or was fetched (with
\* its date); made: what the cursor will move to; home: the household under way;
\* fresh: records without a local entity.
Idle == [at |-> "idle", way |-> "push", since |-> 0, todo |-> {}, made |-> {},
         home |-> NoEvent, got |-> [r \in Record |-> 0], fresh |-> {}]

TypeOK ==
    /\ kind \in Kinds
    /\ log \subseteq Submission
    /\ stamp \in [Submission -> Time]
    /\ cursor \in [Way -> SUBSET Time]
    /\ client \in {"none", "new", "in"}
    /\ req \in [Request -> [at : Steps, way : Way, since : Time, todo : SUBSET Submission,
                            made : SUBSET Submission, home : Household \cup {NoEvent},
                            got : [Record -> Time], fresh : SUBSET Record]]
    /\ written \in [Record -> Time]
    /\ outside \in [Submission -> 0 .. 2]
    /\ copies \in [Record -> 0 .. 2]
    /\ taken \in [Record -> Time]
    /\ clock \in 1 .. MaxClock
    /\ faults \in 0 .. MaxFaults
    /\ late \subseteq Submission /\ failed \subseteq Submission
    /\ orphan \subseteq Event /\ slipped \subseteq Record /\ stale \subseteq Record
    /\ high \in [Way -> Time]
    /\ overlap \in BOOLEAN
    /\ torn \in [Way -> BOOLEAN]

Init ==
    /\ kind \in Kinds
    /\ log = Before /\ stamp = [x \in Submission |-> IF x \in Before THEN 1 ELSE 0]
    /\ cursor = [w \in Way |-> {}]
    /\ client = "none"
    /\ req = [q \in Request |-> Idle]
    /\ written = [r \in Record |-> 0]
    /\ outside = [x \in Submission |-> 0]
    /\ copies = [r \in Record |-> 0]
    /\ taken = [r \in Record |-> 0]
    /\ clock = 1 /\ faults = 0
    /\ late = {} /\ failed = {} /\ orphan = {} /\ slipped = {} /\ stale = {}
    /\ high = [w \in Way |-> 0]
    /\ overlap = FALSE /\ torn = [w \in Way |-> FALSE]

-----------------------------------------------------------------------------
(* Cursors, times and counts. *)

Latest(S) == Max(S \cup {0})

\* SELECT MAX(timestamp), whatever the rows are
Stored_OneTable(w) == Latest(cursor["push"])
Stored(w) == Latest(cursor[w])

Stamps(S) == {stamp[x] : x \in S}

More(n) == IF n = 2 THEN 2 ELSE n + 1

Send(S) == outside' = [x \in Submission |-> IF x \in S THEN More(outside[x]) ELSE outside[x]]

\* The cursor is kept as ISO text, "2025-05-04T10:00:00.000Z", and compared as
\* text with write_date, "2025-05-04 12:00:00": a blank comes before a T, so
\* within one day no write_date is ever later than the cursor.
Day(t) == (t - 1) \div DayLength
After(t, c) == c = 0 \/ Day(t) > Day(c)

Fault == faults < MaxFaults /\ faults' = faults + 1

\* The request ends, by an answer or an error, which the route answers as well.
Leave(q) == req' = [req EXCEPT ![q] = Idle]

-----------------------------------------------------------------------------
(* Around the server: devices upload events, records are written in the    *)
(* external system, time goes by.                                          *)

\* What the requests have read or recorded reaches up to these times.
PushedUpTo ==
    LET InHand(q) == Submission \cap (req[q].todo \cup req[q].made \cup {req[q].home})
    IN  Latest({high["push"]} \cup UNION {Stamps(InHand(q)) : q \in {p \in Request : req[p].way = "push"}})
PulledUpTo == Latest({high["pull"]} \cup UNION {Range(req[q].got) : q \in Request})

\* A device uploads an event that it stamped a while ago.
Arrive(x, t) ==
    /\ x \in Event \ log
    /\ t \in 1 .. clock
    /\ log' = log \cup {x}
    /\ stamp' = [stamp EXCEPT ![x] = t]
    /\ late' = IF t <= PushedUpTo THEN late \cup {x} ELSE late
    /\ UNCHANGED <<env, cursor, client, req, written, outside, copies, taken, faults,
                   failed, orphan, stale, slipped, high, calm>>

\* A record is created or, in OpenSPP, updated.
Write(r) ==
    /\ kind = "openfn" => written[r] = 0
    /\ written[r] < clock
    /\ written' = [written EXCEPT ![r] = clock]
    /\ slipped' = IF clock <= PulledUpTo THEN slipped \cup {r} ELSE slipped \ {r}
    /\ UNCHANGED <<env, dataVars, cursor, client, req, outside, faults, late, failed, orphan, stale,
                   high, calm>>

Tick ==
    /\ clock < MaxClock
    /\ clock' = clock + 1
    /\ UNCHANGED <<kind, dataVars, cursor, client, req, written, outside, faults, gaps, high, calm>>

-----------------------------------------------------------------------------
(* The request, and authenticate of the adapter. *)

\* ensureClient: a client that is there is taken for one that has logged in.
NeedsLogin == kind = "openspp" /\ client = "none"

\* A request that overlaps another counts as a fault here, though the code sees
\* none. OpenFN asks for no more than a key.
Begin(q) ==
    /\ req[q].at = "idle"
    /\ IF NeedsLogin
       THEN client' = "new" /\ req' = [req EXCEPT ![q].at = "login"]
       ELSE req' = [req EXCEPT ![q].at = "read"] /\ UNCHANGED client
    /\ IF \E p \in Request \ {q} : req[p].at # "idle"
       THEN Fault /\ overlap' = TRUE ELSE UNCHANGED <<faults, overlap>>
    /\ UNCHANGED <<env, dataVars, cursor, written, outside, gaps, high, torn>>

Login(q) ==
    /\ req[q].at = "login"
    /\ \/ client' = "in" /\ req' = [req EXCEPT ![q].at = "read"] /\ UNCHANGED faults
       \/ Fault /\ Leave(q) /\ UNCHANGED client
    /\ UNCHANGED <<env, dataVars, cursor, written, outside, gaps, high, calm>>

Members(q, h) == {i \in req[q].todo \cap Individual : Parent[i] = h}

\* The push has nothing left to send, and the cursor stands.
PushEnded(q) == req[q].at = "push" /\ req[q].todo = {} /\ req[q].made = {}

\* Both directions start from their cursor, the pull after the push.
ReadCursor(q) ==
    /\ \/ /\ req[q].at = "read"
          /\ req' = [req EXCEPT ![q].since = Stored("push"), ![q].at = "list"]
       \/ /\ PushEnded(q)
          /\ req' = [req EXCEPT ![q].since = Stored("pull"), ![q].way = "pull", ![q].at = "list"]
    /\ UNCHANGED <<env, dataVars, cursor, client, written, outside, faults, gaps, high, calm>>

\* and end by replacing it, with a DELETE and an INSERT.
NewCursor_Next(q) == Latest(Stamps(req[q].made) \cup Range(req[q].got)) + 1
NewCursor(q) ==
    IF req[q].way = "push" THEN Latest(Stamps(req[q].made))
    ELSE LET dates == Range(req[q].got) \ {0}
         IN  Latest(IF kind = "openfn" THEN dates ELSE {t \in dates : After(t, req[q].since)})

\* OpenFN's push does so after every batch, OpenSPP's at its end, whatever
\* failed; a pull does so once all is submitted and if the date is a later one.
Moves_Early(q) ==
    \/ req[q].at = "push" /\ req[q].made # {} /\ (kind = "openfn" \/ req[q].todo = {})
    \/ req[q].at = "apply" /\ NewCursor(q) > 0
Moves(q) ==
    \/ req[q].at = "push" /\ req[q].made # {} /\ (kind = "openfn" \/ req[q].todo = {})
    \/ req[q].at = "apply" /\ req[q].todo = {} /\ NewCursor(q) > 0

DeleteCursor(q) ==
    /\ Moves(q)
    /\ cursor' = [cursor EXCEPT ![req[q].way] = {}]
    /\ req' = [req EXCEPT ![q].at = "insert"]
    /\ UNCHANGED <<env, dataVars, client, written, outside, faults, gaps, high, calm>>

InsertCursor(q) ==
    /\ req[q].at = "insert"
    /\ cursor' = [cursor EXCEPT ![req[q].way] = @ \cup {NewCursor(q)}]
    /\ high' = [high EXCEPT ![req[q].way] = Latest({@, NewCursor(q)})]
    /\ IF req[q].way = "pull" THEN Leave(q)
       ELSE req' = [req EXCEPT ![q].at = "push", ![q].made = {}, ![q].home = NoEvent]
    /\ UNCHANGED <<env, dataVars, client, written, outside, faults, gaps, calm>>

\* A pull that leaves the cursor where it is.
EndPull(q) ==
    /\ req[q].at = "apply" /\ req[q].todo = {} /\ NewCursor(q) = 0
    /\ Leave(q)
    /\ UNCHANGED <<env, dataVars, cursor, client, written, outside, faults, gaps, high, calm>>

-----------------------------------------------------------------------------
(* OpenFN: pushData and pullData. *)

\* getEventsSince
ListEvents(q) ==
    /\ kind = "openfn" /\ req[q].at = "list" /\ req[q].way = "push"
    /\ req' = [req EXCEPT ![q].todo = {x \in log : stamp[x] > req[q].since}, ![q].at = "push"]
    /\ UNCHANGED <<env, dataVars, cursor, client, written, outside, faults, gaps, high, calm>>

\* The oldest events of a list, at most BatchSize of them
Batches_Unsorted(S) == {B \in SUBSET S : Cardinality(B) = Min({BatchSize, Cardinality(S)})}
Batches(S) ==
    {B \in SUBSET S : /\ Cardinality(B) = Min({BatchSize, Cardinality(S)})
                      /\ \A x \in B, y \in S \ B : stamp[x] <= stamp[y]}

\* One POST; when it throws, with or without having arrived, the request ends.
PushBatch(q) ==
    /\ kind = "openfn" /\ req[q].at = "push" /\ req[q].todo # {} /\ req[q].made = {}
    /\ \E B \in Batches(req[q].todo) :
          \/ /\ Send(B)
             /\ req' = [req EXCEPT ![q].todo = @ \ B, ![q].made = B]
             /\ UNCHANGED faults
          \/ Fault /\ Leave(q) /\ (Send(B) \/ UNCHANGED outside)
    /\ UNCHANGED <<env, dataVars, cursor, client, written, gaps, high, calm>>

\* The GET; without anything new the request ends.
FetchEvents(q) ==
    /\ kind = "openfn" /\ req[q].at = "list" /\ req[q].way = "pull"
    /\ LET news == {r \in Record : written[r] > req[q].since}
       IN  \/ /\ news # {} /\ UNCHANGED faults
              /\ req' = [req EXCEPT ![q].todo = news, ![q].at = "apply",
                            ![q].got = [r \in Record |-> IF r \in news THEN written[r] ELSE 0]]
           \/ news = {} /\ Leave(q) /\ UNCHANGED faults
           \/ Fault /\ Leave(q)
    /\ UNCHANGED <<env, dataVars, cursor, client, written, outside, gaps, high, calm>>

\* submitForm stores a record under its own guid: one that is stored already,
\* by a request that broke off, throws whenever it is pulled again.
SubmitEvent(q) ==
    /\ kind = "openfn" /\ req[q].at = "apply"
    /\ \E r \in req[q].todo :
          /\ \A s \in req[q].todo : req[q].got[r] <= req[q].got[s]
          /\ IF r \in log THEN Leave(q) /\ UNCHANGED <<dataVars, faults, late>>
             ELSE /\ log' = log \cup {r}
                  /\ stamp' = [stamp EXCEPT ![r] = req[q].got[r]]
                  /\ late' = IF req[q].got[r] <= PushedUpTo THEN late \cup {r} ELSE late
                  /\ \/ /\ copies' = [copies EXCEPT ![r] = More(@)]
                        /\ taken' = [taken EXCEPT ![r] = req[q].got[r]]
                        /\ req' = [req EXCEPT ![q].todo = @ \ {r}]
                        /\ UNCHANGED faults
                     \/ Fault /\ Leave(q) /\ UNCHANGED <<copies, taken>>
    /\ UNCHANGED <<env, cursor, client, written, outside, failed, orphan, stale, slipped, high, calm>>

-----------------------------------------------------------------------------
(* OpenSPP: pushData. *)

\* filterSyncEvents: every root, and what was created after the cursor
Filtered_All(q) == log \cap Event
Filtered(q) == {x \in log \cap Event : x \in Root \/ stamp[x] > req[q].since}

\* groupEvents: households of a root, individuals of such a household
Grouped(S) ==
    LET homes == {h \in S \cap Household : Parent[h] \in S \cap Root}
    IN  homes \cup {i \in S \cap Individual : Parent[i] \in homes}

ListRegistrants(q) ==
    /\ kind = "openspp" /\ req[q].at = "list" /\ req[q].way = "push"
    /\ req' = [req EXCEPT ![q].todo = Grouped(Filtered(q)), ![q].at = "push"]
    /\ orphan' = orphan \cup (Filtered(q) \ (Root \cup Grouped(Filtered(q))))
    /\ UNCHANGED <<env, dataVars, cursor, client, written, outside, faults, late, failed, stale, slipped,
                   high, calm>>

\* A call fails by a fault, having arrived or not, or because the client never
\* logged in.
Fails(x) ==
    IF client = "in" THEN Fault /\ (Send({x}) \/ UNCHANGED outside) ELSE UNCHANGED <<faults, outside>>

\* createHousehold, first call. If it throws, the members are passed over.
CreateHousehold(q) ==
    /\ kind = "openspp" /\ req[q].at = "push" /\ Members(q, req[q].home) = {}
    /\ \E h \in req[q].todo \cap Household :
          \/ /\ client = "in" /\ Send({h})
             /\ req' = [req EXCEPT ![q].home = h, ![q].todo = @ \ {h}, ![q].at = "link"]
             /\ UNCHANGED <<failed, faults>>
          \/ /\ Fails(h)
             /\ req' = [req EXCEPT ![q].todo = @ \ ({h} \cup Members(q, h))]
             /\ failed' = failed \cup {h} \cup Members(q, h)
    /\ UNCHANGED <<env, dataVars, cursor, client, written, late, orphan, stale, slipped, high, calm>>

\* createHousehold, second call: the household joins its root.
LinkHousehold(q) ==
    /\ req[q].at = "link"
    /\ LET h == req[q].home
       IN  \/ req' = [req EXCEPT ![q].made = @ \cup {h}, ![q].at = "push"]
              /\ UNCHANGED <<failed, faults>>
           \/ /\ Fault
              /\ req' = [req EXCEPT ![q].todo = @ \ Members(q, h), ![q].home = NoEvent, ![q].at = "push"]
              /\ failed' = failed \cup {h} \cup Members(q, h)
    /\ UNCHANGED <<env, dataVars, cursor, client, written, outside, late, orphan, stale, slipped, high, calm>>

\* createIndividual; a failure is caught and the next member follows.
CreateIndividual(q) ==
    /\ kind = "openspp" /\ req[q].at = "push"
    /\ \E i \in Members(q, req[q].home) :
          \/ /\ client = "in" /\ Send({i})
             /\ req' = [req EXCEPT ![q].todo = @ \ {i}, ![q].made = @ \cup {i}]
             /\ UNCHANGED <<failed, faults>>
          \/ /\ Fails(i)
             /\ req' = [req EXCEPT ![q].todo = @ \ {i}]
             /\ failed' = failed \cup {i}
    /\ UNCHANGED <<env, dataVars, cursor, client, written, late, orphan, stale, slipped, high, calm>>

-----------------------------------------------------------------------------
(* OpenSPP: pullData. *)

News(q, R) == {r \in R : written[r] > req[q].since}

With(q, R) == [r \in Record |-> IF r \in R THEN written[r] ELSE req[q].got[r]]

\* The two fetches. What a household becomes between them may be older than an
\* individual of the second.
FetchGroups(q) ==
    /\ kind = "openspp" /\ req[q].at = "list" /\ req[q].way = "pull"
    /\ \/ /\ client = "in" /\ UNCHANGED faults
          /\ req' = [req EXCEPT ![q].got = With(q, News(q, Groups)), ![q].at = "persons"]
       \/ (IF client = "in" THEN Fault ELSE UNCHANGED faults) /\ Leave(q)
    /\ UNCHANGED <<env, dataVars, cursor, client, written, outside, gaps, high, calm>>

FetchPersons(q) ==
    /\ req[q].at = "persons"
    /\ \/ /\ req' = [req EXCEPT ![q].got = With(q, News(q, Persons)), ![q].at = "lookUp"]
          /\ slipped' = slipped \cup {g \in News(q, Groups) : req[q].got[g] # written[g]}
          /\ UNCHANGED faults
       \/ Fault /\ Leave(q) /\ UNCHANGED slipped
    /\ UNCHANGED <<env, dataVars, cursor, client, written, outside, late, failed, orphan, stale, high, calm>>

\* Every record is looked up by its external id before any is submitted.
Known_Never(r) == FALSE
Known(r) == copies[r] > 0

Fresh(R) == {r \in R : ~Known(r)}

\* The transformers give a record the guid of the entity found, or a new one.
Transformed(q, r) == [copies EXCEPT ![r] = IF r \in req[q].fresh THEN More(@) ELSE @]

LookUp(q) ==
    /\ req[q].at = "lookUp"
    /\ LET R == {r \in Record : req[q].got[r] > 0}
       IN  req' = [req EXCEPT ![q].todo = R, ![q].fresh = Fresh(R), ![q].at = "apply"]
    /\ UNCHANGED <<env, dataVars, cursor, client, written, outside, faults, gaps, high, calm>>

\* A record is no longer failed or stale once its latest version is submitted.
UpToDate(q, r) == req[q].got[r] = written[r]

\* submitForm, under a new guid; an error is logged and the next one follows.
SubmitRecord(q) ==
    /\ kind = "openspp" /\ req[q].at = "apply"
    /\ \E r \in req[q].todo :
          /\ req' = [req EXCEPT ![q].todo = @ \ {r}]
          /\ \/ /\ copies' = Transformed(q, r)
                /\ taken' = [taken EXCEPT ![r] = req[q].got[r]]
                /\ failed' = IF UpToDate(q, r) THEN failed \ {r} ELSE failed
                /\ stale' = IF UpToDate(q, r) THEN stale \ {r}
                            ELSE IF req[q].got[r] < taken[r] THEN stale \cup {r} ELSE stale
                /\ UNCHANGED faults
             \/ Fault /\ failed' = failed \cup {r} /\ UNCHANGED <<copies, taken, stale>>
    /\ UNCHANGED <<env, log, stamp, cursor, client, written, outside, late, orphan, slipped, high, calm>>

-----------------------------------------------------------------------------
(* Failures of the server itself. *)

Torn(Q) == [w \in Way |-> torn[w] \/ \E q \in Q : req[q].at = "insert" /\ req[q].way = w]

\* A query throws.
StoreFails(q) ==
    /\ req[q].at \in {"read", "list", "insert", "lookUp"}
    /\ Fault /\ Leave(q) /\ torn' = Torn({q})
    /\ UNCHANGED <<env, dataVars, cursor, client, written, outside, gaps, high, overlap>>

\* The server restarts and makes the tenant's adapter anew.
Restart ==
    /\ Fault
    /\ req' = [q \in Request |-> Idle] /\ client' = "none" /\ torn' = Torn(Request)
    /\ UNCHANGED <<env, dataVars, cursor, written, outside, gaps, high, overlap>>

Step(q) ==
    \/ Login(q) \/ ReadCursor(q) \/ DeleteCursor(q) \/ InsertCursor(q) \/ EndPull(q)
    \/ ListEvents(q) \/ PushBatch(q) \/ FetchEvents(q) \/ SubmitEvent(q)
    \/ ListRegistrants(q) \/ CreateHousehold(q) \/ LinkHousehold(q) \/ CreateIndividual(q)
    \/ FetchGroups(q) \/ FetchPersons(q) \/ LookUp(q) \/ SubmitRecord(q)

Next ==
    \/ \E x \in Event, t \in 1 .. MaxClock : Arrive(x, t)
    \/ \E r \in Record : Write(r)
    \/ Tick
    \/ \E q \in Request : Begin(q) \/ Step(q) \/ StoreFails(q)
    \/ Restart

Spec == Init /\ [][Next]_vars

-----------------------------------------------------------------------------
(* Properties. *)

Pushed(x) == kind = "openfn" \/ x \in Household \cup Individual

\* What lies behind the push cursor has been accepted by the external system,
\* but for: a submission that reached the log after a later one was read, one
\* with the timestamp of the last of a batch, a registrant whose call failed, and
\* one without its root or household in the same push.
PushGapsKnown ==
    \A x \in log :
        Pushed(x) /\ stamp[x] <= Stored("push") /\ outside[x] = 0 =>
            \/ x \in late \cup failed \cup orphan
            \/ \E y \in log : stamp[y] = stamp[x] /\ outside[y] > 0

\* What lies behind the pull cursor has been submitted in its latest version, but
\* for a record that failed, one written too late for the fetch that passed it, and
\* one that an overlapping request put back to an older version.
PullGapsKnown ==
    \A r \in Record :
        0 < written[r] /\ written[r] <= Stored("pull") =>
            taken[r] = written[r] \/ r \in failed \cup slipped \cup stale

\* Requests that do not overlap, fail or crash send nothing twice.
SentOnce == ~overlap /\ faults = 0 => \A x \in Submission : outside[x] <= 1

\* Unless requests overlap, a record has one entity here, whatever fails.
OneEntityEach == ~overlap => \A r \in Record : copies[r] <= 1

\* The cursor is the latest one recorded whenever a request reads it, unless
\* requests overlapped or one died between the DELETE and the INSERT.
CursorKept ==
    \A q \in Request :
        req[q].at = "list" /\ ~overlap /\ ~torn[req[q].way] => req[q].since = high[req[q].way]
=============================================================================

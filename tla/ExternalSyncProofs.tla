------------------------- MODULE ExternalSyncProofs -------------------------
(***************************************************************************)
(* Proofs about the sync with external systems, for any requests, events,  *)
(* records, times and faults.  The inductive invariant has three parts:    *)
(* what a request holds (Shape); what a cursor may pass by (PushAhead,     *)
(* PullAhead), which bears overlaps, failures and crashes; and what is so  *)
(* as long as requests do not overlap (Alone, InOrder, SingleEntity), and  *)
(* nothing fails (SentBehind).                                             *)
(***************************************************************************)
EXTENDS ExternalSync, FiniteSetTheorems, WellFoundedInduction, TLAPS

-----------------------------------------------------------------------------
(* The inductive invariant, in layers.                                     *)

Nothing == [r \in Record |-> 0]

\* A request that pushes holds events of the log, in the order of its steps.
Pushing(q) ==
    req[q].way = "push" =>
        /\ req[q].at \in {"idle", "login", "read", "list", "push", "link", "insert"}
        /\ req[q].got = Nothing
        /\ req[q].todo \cup req[q].made \subseteq log
        /\ req[q].home \in log \cup {NoEvent}
        /\ kind = "openspp" => req[q].todo \cup req[q].made \subseteq Household \cup Individual
        /\ req[q].at \notin {"push", "link", "insert"} =>
              req[q].todo = {} /\ req[q].made = {} /\ req[q].home = NoEvent
        /\ req[q].at = "link" => kind = "openspp" /\ req[q].home # NoEvent
        /\ req[q].at # "link" => req[q].home \in req[q].made \cup {NoEvent}
        /\ req[q].at = "insert" => req[q].made # {} /\ (kind = "openfn" \/ req[q].todo = {})

\* One that pulls holds records with dates behind its cursor.
Pulling(q) ==
    req[q].way = "pull" =>
        /\ req[q].at \in {"list", "persons", "lookUp", "apply", "insert"}
        /\ req[q].made = {} /\ req[q].home = NoEvent
        /\ req[q].todo \subseteq {r \in Record : req[q].got[r] > 0}
        /\ \A r \in Record : req[q].got[r] > 0 =>
              /\ req[q].since < req[q].got[r] /\ req[q].got[r] <= written[r]
              /\ kind = "openfn" => req[q].got[r] = written[r]
        /\ req[q].at # "apply" => req[q].todo = {}
        /\ req[q].at = "list" => req[q].got = Nothing
        /\ req[q].at = "insert" => NewCursor(q) > 0

Logged ==
    /\ \A x \in log : stamp[x] > 0
    /\ \A x \in Submission : outside[x] > 0 => x \in log
    /\ kind = "openfn" => \A r \in Record : copies[r] > 0 => r \in log

Shape == Logged /\ \A q \in Request : Pushing(q) /\ Pulling(q)

\* What a request has in hand for the external system.
Hand(q) == Submission \cap (req[q].todo \cup req[q].made \cup {req[q].home})

\* Nobody has sent it, nor one of its age, and nothing excuses that.
Due(x) ==
    /\ Pushed(x) /\ outside[x] = 0 /\ x \notin late \cup failed \cup orphan
    /\ \A y \in log : stamp[y] = stamp[x] => outside[y] = 0

\* Within a push, what is due is still to be sent or younger than all that the
\* push has taken up; a batch is older than what comes after it.
PushSafe(q) ==
    req[q].way = "push" =>
        /\ req[q].at = "list" => req[q].since <= high["push"]
        /\ req[q].at \in {"push", "link", "insert"} =>
              \A x \in log : Due(x) => x \in req[q].todo \/ \A y \in Hand(q) : stamp[y] < stamp[x]
        /\ kind = "openfn" => \A y \in req[q].made :
              outside[y] > 0 /\ \A z \in req[q].todo : stamp[y] <= stamp[z]

\* What is due lies ahead of all cursors that a push has recorded or read.
PushAhead ==
    /\ \A x \in log : Due(x) => stamp[x] > high["push"]
    /\ \A c \in cursor["push"] : c <= high["push"]
    /\ \A q \in Request : PushSafe(q)

\* Its latest version has not been submitted, and nothing excuses that.
Owed(r) == written[r] > 0 /\ taken[r] # written[r] /\ r \notin failed \cup slipped \cup stale

\* A fetch starts behind the cursor, and what it leaves owed is still to be
\* submitted or younger than all it has fetched.
PullSafe(q) ==
    req[q].way = "pull" =>
        /\ req[q].at \in {"list", "persons"} => req[q].since <= high["pull"]
        /\ req[q].at \in {"lookUp", "apply", "insert"} =>
              \A r \in Record : Owed(r) =>
                  \/ req[q].got[r] = written[r] /\ (req[q].at = "lookUp" \/ r \in req[q].todo)
                  \/ \A s \in Record : req[q].got[s] < written[r]

\* What is owed lies ahead of all cursors that a pull has recorded.
PullAhead ==
    /\ \A r \in Record : Owed(r) => written[r] > high["pull"]
    /\ \A c \in cursor["pull"] : c <= high["pull"]
    /\ \A q \in Request : PullSafe(q)

\* Without an overlap one request at a time is under way, and what it reads,
\* holds and records follows the latest cursor.
Alone == ~overlap => \A p, q \in Request : req[p].at # "idle" /\ req[q].at # "idle" => p = q

Ordered(w) ==
    /\ (\A q \in Request : ~(req[q].at = "insert" /\ req[q].way = w)) => Stored(w) = high[w]
    /\ \A q \in Request : req[q].way = w =>
          /\ req[q].at = "insert" => cursor[w] = {}
          /\ req[q].at = "list" \/ w = "pull" => req[q].since = high[w]
          /\ w = "push" => \A x \in Hand(q) : stamp[x] >= high[w]

InOrder == ~overlap => \A w \in Way : ~torn[w] => Ordered(w)

SingleEntity ==
    ~overlap =>
        /\ \A r \in Record : copies[r] <= 1
        /\ kind = "openspp" => \A q \in Request : req[q].at = "apply" =>
              \A r \in req[q].todo \cap req[q].fresh : copies[r] = 0

\* Without a fault as well, a client that is there logs in before it is used,
LoggedIn ==
    kind = "openspp" =>
        /\ client = "new" => \E q \in Request : req[q].at = "login"
        /\ \A q \in Request : req[q].at \notin {"idle", "login"} => client = "in"

\* and no one sends again what it or another has sent.
Behind ==
    /\ \A q \in Request : req[q].way = "push" => \A x \in req[q].todo : outside[x] = 0
    /\ \A x \in Submission : outside[x] > 0 =>
          /\ outside[x] = 1
          /\ \/ stamp[x] <= high["push"]
             \/ \E q \in Request : req[q].way = "push" /\ x \in req[q].made \cup {req[q].home}

SentBehind == ~overlap /\ faults = 0 => (\A w \in Way : ~torn[w]) /\ LoggedIn /\ Behind

-----------------------------------------------------------------------------
(* Times, cursors and counts.                                              *)

\* Max of a bounded set of numbers is one of them, and none is greater.
LEMMA MaxExists ==
    ASSUME NEW S \in SUBSET Nat, S # {}, NEW n \in Nat, \A s \in S : s <= n
    PROVE  Max(S) \in S /\ \A s \in S : s <= Max(S)
<1> DEFINE T == {k \in Nat : \E s \in S : k + s = n}
<1>1. T \subseteq Nat /\ T # {}
  <2>1. PICK s \in S : TRUE
    OBVIOUS
  <2>2. s \in Nat /\ s <= n /\ n - s \in Nat /\ (n - s) + s = n
    BY <2>1
  <2> QED
    BY <2>1, <2>2
<1>2. PICK x \in T : \A y \in T : ~ (<<y, x>> \in OpToRel(<, Nat))
  BY <1>1, NatLessThanWellFounded, WFMin
<1>3. \A y \in T : ~(y < x)
  BY <1>1, <1>2 DEF OpToRel
<1>4. PICK m \in S : x + m = n
  BY <1>2
<1>5. \A s \in S : m >= s
  <2> TAKE s \in S
  <2>1. s \in Nat /\ m \in Nat /\ s <= n /\ x \in Nat
    OBVIOUS
  <2>2. n - s \in T
    BY <2>1
  <2> HIDE DEF T
  <2> QED
    BY <1>3, <1>4, <2>1, <2>2
<1> QED
  BY <1>5 DEF Max

\* The latest of some times, 0 if there is none.
LEMMA LatestOf ==
    ASSUME NEW S \in SUBSET Time
    PROVE  /\ Latest(S) \in Time
           /\ \A t \in S : t <= Latest(S)
           /\ Latest(S) > 0 => Latest(S) \in S
<1> DEFINE m == Max(S \cup {0})
<1>1. S \cup {0} \in SUBSET Nat /\ S \cup {0} # {} /\ MaxClock \in Nat
      /\ \A s \in S \cup {0} : s <= MaxClock
  BY Sizes DEF Time
<1>2. m \in S \cup {0} /\ \A s \in S \cup {0} : s <= m
  BY <1>1, MaxExists
<1>3. m = Latest(S)
  BY DEF Latest
<1> HIDE DEF m
<1>4. m \in Time /\ (\A t \in S : t <= m) /\ (m > 0 => m \in S)
  BY <1>1, <1>2 DEF Time
<1> QED
  BY <1>3, <1>4

\* The lesser of two numbers.
LEMMA MinOfTwo ==
    ASSUME NEW a \in Nat, NEW b \in Nat
    PROVE  Min({a, b}) = IF a <= b THEN a ELSE b
BY DEF Min

\* A count that goes up stays a count.
LEMMA MoreType == ASSUME NEW n \in 0 .. 2 PROVE More(n) \in 1 .. 2 /\ (n = 0 => More(n) = 1)
BY DEF More

-----------------------------------------------------------------------------
(* Types.                                                                  *)

Session == [at : Steps, way : Way, since : Time, todo : SUBSET Submission,
            made : SUBSET Submission, home : Household \cup {NoEvent},
            got : [Record -> Time], fresh : SUBSET Record]

\* A request that is not under way is a request.
LEMMA IdleType == Idle \in Session
BY Sizes DEF Idle, Session, Steps, Way, Time

\* The cursor the table holds is a time, ...
LEMMA StoredType == ASSUME TypeOK, NEW w \in Way PROVE Stored(w) \in Time
<1>1. cursor[w] \in SUBSET Time
  BY DEF TypeOK
<1> QED
  BY <1>1, LatestOf DEF Stored

\* as are the dates of what a push has made, ...
LEMMA StampsType ==
    ASSUME TypeOK, NEW S \in SUBSET Submission
    PROVE  Stamps(S) \in SUBSET Time
BY DEF TypeOK, Stamps

\* and the cursor that a request records.
LEMMA NewCursorType ==
    ASSUME TypeOK, NEW q \in Request
    PROVE  NewCursor(q) \in Time
<1>1. req[q].made \in SUBSET Submission /\ req[q].got \in [Record -> Time]
  BY DEF TypeOK
<1>2. Stamps(req[q].made) \in SUBSET Time
  BY <1>1, StampsType
<1>3. Range(req[q].got) \in SUBSET Time
  BY <1>1 DEF Range
<1> DEFINE dates == Range(req[q].got) \ {0}
<1>4. dates \in SUBSET Time /\ {t \in dates : After(t, req[q].since)} \in SUBSET Time
  BY <1>3
<1>5. /\ Latest(Stamps(req[q].made)) \in Time /\ Latest(dates) \in Time
      /\ Latest({t \in dates : After(t, req[q].since)}) \in Time
  BY <1>2, <1>4, LatestOf
<1> QED
  BY <1>5 DEF NewCursor

\* What a call sends keeps the counts between 0 and 2.
LEMMA SendType ==
    ASSUME TypeOK, NEW S, Send(S)
    PROVE  outside' \in [Submission -> 0 .. 2]
BY MoreType DEF TypeOK, Send

\* A failure is counted,
LEMMA FaultType == ASSUME TypeOK, Fault PROVE faults' \in 0 .. MaxFaults /\ faults' > 0
BY Sizes DEF TypeOK, Fault

\* and a request that ends or breaks off is one still.
LEMMA LeaveType ==
    ASSUME TypeOK, NEW q \in Request, Leave(q)
    PROVE  req' \in [Request -> Session]
BY IdleType DEF TypeOK, Leave, Session

\* Every variable starts in its domain.
LEMMA TypeInit == Init => TypeOK
<1> SUFFICES ASSUME Init PROVE TypeOK
  OBVIOUS
<1>1. req \in [Request -> Session]
  BY IdleType DEF Init
<1>2. Before \subseteq Submission /\ 0 \in Time /\ 1 \in Time
  BY Levels, Sizes DEF Submission, Time
<1>3. cursor \in [Way -> SUBSET Time] /\ high \in [Way -> Time] /\ torn \in [Way -> BOOLEAN]
  BY <1>2 DEF Init
<1>4. stamp \in [Submission -> Time] /\ log \subseteq Submission
  BY <1>2 DEF Init
<1>5. written \in [Record -> Time] /\ copies \in [Record -> 0 .. 2] /\ taken \in [Record -> Time]
  BY <1>2 DEF Init
<1>6. outside \in [Submission -> 0 .. 2]
  BY DEF Init
<1>7. clock \in 1 .. MaxClock /\ faults \in 0 .. MaxFaults
  BY Sizes DEF Init
<1>8. /\ kind \in Kinds /\ client \in {"none", "new", "in"} /\ overlap \in BOOLEAN
      /\ late \subseteq Submission /\ failed \subseteq Submission
      /\ orphan \subseteq Event /\ slipped \subseteq Record /\ stale \subseteq Record
  BY DEF Init
<1> QED
  BY <1>1, <1>3, <1>4, <1>5, <1>6, <1>7, <1>8 DEF TypeOK, Session

\* The steps of the external system and of the users keep the types,
LEMMA OutsideTypes ==
    ASSUME TypeOK,
           \/ \E x \in Event, t \in 1 .. MaxClock : Arrive(x, t)
           \/ \E r \in Record : Write(r)
           \/ Tick
    PROVE  TypeOK'
<1>1. ASSUME NEW x \in Event, NEW t \in 1 .. MaxClock, Arrive(x, t)
      PROVE  TypeOK'
  <2>1. x \in Submission /\ t \in Time
    BY Sizes DEF Submission, Time
  <2> QED
    BY <1>1, <2>1 DEF TypeOK, Arrive, env, calm
<1>2. ASSUME NEW r \in Record, Write(r)
      PROVE  TypeOK'
  <2>1. clock \in Time
    BY Sizes DEF TypeOK, Time
  <2> QED
    BY <1>2, <2>1 DEF TypeOK, Write, env, dataVars, calm
<1>3. CASE Tick
  BY <1>3, Sizes DEF TypeOK, Tick, dataVars, gaps, calm
<1> QED
  BY <1>1, <1>2, <1>3

\* as do those that both adapters share,
LEMMA RequestTypes ==
    ASSUME TypeOK, NEW q \in Request,
           \/ Begin(q) \/ Login(q) \/ ReadCursor(q) \/ DeleteCursor(q) \/ InsertCursor(q)
           \/ EndPull(q) \/ StoreFails(q)
    PROVE  TypeOK'
<1> USE DEF env, dataVars, gaps, calm
<1>r. req \in [Request -> Session]
  BY DEF TypeOK, Session
<1>1. CASE Begin(q)
  <2>1. PICK at \in Steps : req' = [req EXCEPT ![q].at = at]
    BY <1>1 DEF Begin, Steps
  <2>2. req' \in [Request -> Session]
    BY <1>r, <2>1 DEF Session
  <2> QED
    BY <1>1, <2>2, FaultType DEF TypeOK, Begin, Session
<1>2. CASE Login(q)
  <2>1. req' \in [Request -> Session]
    BY <1>r, <1>2, LeaveType DEF Login, Session, Steps
  <2> QED
    BY <1>2, <2>1, FaultType DEF TypeOK, Login, Session
<1>3. CASE ReadCursor(q)
  <2>1. Stored("push") \in Time /\ Stored("pull") \in Time
    BY StoredType DEF TypeOK, Way
  <2>2. PICK t \in Time, w \in Way :
           req' = [req EXCEPT ![q].since = t, ![q].way = w, ![q].at = "list"]
    <3>1. CASE req[q].at = "read"
      <4>1. req' = [req EXCEPT ![q].since = Stored("push"), ![q].way = @, ![q].at = "list"]
        BY <1>3, <1>r, <3>1 DEF ReadCursor, PushEnded, Session
      <4> QED
        BY <1>r, <2>1, <4>1 DEF Session
    <3>2. CASE req[q].at # "read"
      BY <1>3, <2>1, <3>2 DEF ReadCursor, Way
    <3> QED
      BY <3>1, <3>2
  <2>3. [req[q] EXCEPT !.since = t, !.way = w, !.at = "list"] \in Session
    BY <1>r DEF Session, Steps
  <2>4. req' \in [Request -> Session]
    BY <1>r, <2>2, <2>3
  <2> QED
    BY <1>3, <2>4 DEF TypeOK, ReadCursor, Session
<1>4. CASE DeleteCursor(q)
  <2>3. req' = [req EXCEPT ![q].at = "insert"]
    BY <1>4 DEF DeleteCursor
  <2>4. [req[q] EXCEPT !.at = "insert"] \in Session
    BY <1>r DEF Session, Steps
  <2>1. req' \in [Request -> Session]
    BY <1>r, <2>3, <2>4
  <2>2. cursor' \in [Way -> SUBSET Time]
    BY <1>4 DEF TypeOK, DeleteCursor
  <2> QED
    BY <1>4, <2>1, <2>2 DEF TypeOK, DeleteCursor, Session
<1>5. CASE InsertCursor(q)
  <2>1. NewCursor(q) \in Time
    BY NewCursorType DEF TypeOK
  <2>2. req' \in [Request -> Session]
    <3>1. CASE Leave(q)
      BY <3>1, LeaveType
    <3>2. CASE req' = [req EXCEPT ![q].at = "push", ![q].made = {}, ![q].home = NoEvent]
      <4>1. [req[q] EXCEPT !.at = "push", !.made = {}, !.home = NoEvent] \in Session
        BY <1>r DEF Session, Steps
      <4> QED
        BY <1>r, <3>2, <4>1
    <3> QED
      BY <1>5, <3>1, <3>2 DEF InsertCursor
  <2>3. cursor' \in [Way -> SUBSET Time]
    BY <1>5, <2>1 DEF TypeOK, InsertCursor
  <2>4. high' \in [Way -> Time]
    <3>1. req[q].way \in Way /\ high[req[q].way] \in Time
      BY DEF TypeOK
    <3>2. Latest({high[req[q].way], NewCursor(q)}) \in Time
      BY <2>1, <3>1, LatestOf DEF TypeOK
    <3> QED
      BY <1>5, <3>2 DEF TypeOK, InsertCursor
  <2> QED
    BY <1>5, <2>2, <2>3, <2>4 DEF TypeOK, InsertCursor, Session
<1>6. CASE EndPull(q)
  BY <1>6, LeaveType DEF TypeOK, EndPull, Session
<1>7. CASE StoreFails(q)
  <2>1. torn' \in [Way -> BOOLEAN]
    BY <1>7 DEF TypeOK, StoreFails, Torn
  <2> QED
    BY <1>7, <2>1, LeaveType, FaultType DEF TypeOK, StoreFails, Session
<1> QED
  BY <1>1, <1>2, <1>3, <1>4, <1>5, <1>6, <1>7

\* those of OpenFnSyncAdapter,
LEMMA OpenFnTypes ==
    ASSUME TypeOK, Shape, NEW q \in Request,
           ListEvents(q) \/ PushBatch(q) \/ FetchEvents(q) \/ SubmitEvent(q)
    PROVE  TypeOK'
<1> USE DEF env, dataVars, gaps, calm
<1>r. req \in [Request -> Session]
  BY DEF TypeOK, Session
<1>1. CASE ListEvents(q)
  <2> DEFINE new == {x \in log : stamp[x] > req[q].since}
  <2>0. new \subseteq Submission
    BY DEF TypeOK
  <2> HIDE DEF new
  <2>9. [req[q] EXCEPT !.todo = new, !.at = "push"] \in Session
    BY <1>r, <2>0 DEF Session, Steps
  <2>1. req' \in [Request -> Session]
    BY <1>r, <1>1, <2>9 DEF ListEvents, new
  <2> QED
    BY <1>1, <2>1 DEF TypeOK, ListEvents, Session
<1>2. CASE PushBatch(q)
  <2>1. PICK B \in Batches(req[q].todo) :
           \/ /\ Send(B)
              /\ req' = [req EXCEPT ![q].todo = @ \ B, ![q].made = B]
              /\ UNCHANGED faults
           \/ Fault /\ Leave(q) /\ (Send(B) \/ UNCHANGED outside)
    BY <1>2 DEF TypeOK, PushBatch
  <2>2. B \in SUBSET Submission
    BY DEF TypeOK, Batches, Session
  <2>3. req' \in [Request -> Session]
    <3>1. [req[q] EXCEPT !.todo = @ \ B, !.made = B] \in Session
      BY <1>r, <2>2 DEF Session
    <3> QED
      BY <1>r, <2>1, <3>1, LeaveType
  <2>4. outside' \in [Submission -> 0 .. 2]
    BY <2>1, SendType DEF TypeOK
  <2> QED
    BY <1>2, <2>1, <2>3, <2>4, FaultType DEF TypeOK, PushBatch, Session
<1>3. CASE FetchEvents(q)
  <2>1. Record \subseteq Submission
    BY DEF TypeOK, Submission
  <2> DEFINE news == {r \in Record : written[r] > req[q].since}
            got == [r \in Record |-> IF r \in news THEN written[r] ELSE 0]
  <2>4. news \subseteq Submission /\ got \in [Record -> Time]
    BY <2>1, Sizes DEF TypeOK, Time
  <2>5. Leave(q) \/ req' = [req EXCEPT ![q].todo = news, ![q].at = "apply", ![q].got = got]
    BY <1>3 DEF FetchEvents
  <2> HIDE DEF news, got
  <2>6. [req[q] EXCEPT !.todo = news, !.at = "apply", !.got = got] \in Session
    BY <1>r, <2>4 DEF Session, Steps
  <2>2. req' \in [Request -> Session]
    BY <1>r, <2>5, <2>6, LeaveType
  <2> QED
    BY <1>3, <2>2, FaultType DEF TypeOK, FetchEvents, Session
<1>4. CASE SubmitEvent(q)
  <2>1. PICK r \in req[q].todo : SubmitEvent(q)!2!(r)
    BY <1>4 DEF TypeOK, SubmitEvent
  <2>2. req[q].way = "pull" /\ r \in Record /\ req[q].got[r] \in Time
    <3>1. Pushing(q) /\ Pulling(q) /\ req[q].way \in Way /\ req[q].got \in [Record -> Time]
      BY DEF Shape, TypeOK
    <3>2. req[q].way = "pull"
      BY <1>4, <3>1 DEF SubmitEvent, Pushing, Way
    <3> QED
      BY <3>1, <3>2 DEF Pulling
  <2>3. r \in Submission
    BY <2>2 DEF TypeOK, Submission
  <2>4. req' \in [Request -> Session]
    <3>1. [req[q] EXCEPT !.todo = @ \ {r}] \in Session
      BY <1>r DEF Session
    <3>2. Leave(q) \/ req' = [req EXCEPT ![q].todo = @ \ {r}]
      BY <2>1
    <3> QED
      BY <1>r, <3>1, <3>2, LeaveType
  <2>5. copies' \in [Record -> 0 .. 2]
    BY <2>1, <2>2, MoreType DEF TypeOK, More
  <2>6. /\ log' \subseteq Submission /\ stamp' \in [Submission -> Time]
        /\ late' \subseteq Submission /\ taken' \in [Record -> Time]
    BY <2>1, <2>2, <2>3 DEF TypeOK
  <2>7. faults' \in 0 .. MaxFaults
    BY <2>1, FaultType DEF TypeOK
  <2> QED
    BY <1>4, <2>4, <2>5, <2>6, <2>7 DEF TypeOK, SubmitEvent, Session
<1> QED
  BY <1>1, <1>2, <1>3, <1>4

\* and those of OpenSppSyncAdapter.
LEMMA OpenSppTypes ==
    ASSUME TypeOK, Shape, NEW q \in Request,
           \/ ListRegistrants(q) \/ CreateHousehold(q) \/ LinkHousehold(q) \/ CreateIndividual(q)
           \/ FetchGroups(q) \/ FetchPersons(q) \/ LookUp(q) \/ SubmitRecord(q)
    PROVE  TypeOK'
<1> USE DEF env, dataVars, gaps, calm
<1>r. req \in [Request -> Session]
  BY DEF TypeOK, Session
<1>0. Record \subseteq Submission /\ Event \subseteq Submission
      /\ Household \cup Individual \subseteq Event
  BY DEF TypeOK, Submission, Event
<1>1. CASE ListRegistrants(q)
  <2>1. Filtered(q) \subseteq Event /\ Grouped(Filtered(q)) \subseteq Event
    BY <1>0 DEF TypeOK, Filtered, Grouped
  <2>2. req' \in [Request -> Session]
    BY <1>r, <1>0, <1>1, <2>1 DEF ListRegistrants, Session, Steps
  <2>3. orphan' \subseteq Event
    BY <1>1, <2>1 DEF TypeOK, ListRegistrants
  <2> QED
    BY <1>1, <2>2, <2>3 DEF TypeOK, ListRegistrants, Session
<1>2. CASE CreateHousehold(q)
  <2>1. PICK h \in req[q].todo \cap Household : CreateHousehold(q)!2!(h)
    BY <1>2 DEF TypeOK, CreateHousehold
  <2>2. Members(q, h) \subseteq Submission /\ h \in Submission
    BY DEF TypeOK, Members, Session
  <2>3. req' \in [Request -> Session]
    <3>1. [req[q] EXCEPT !.home = h, !.todo = @ \ {h}, !.at = "link"] \in Session
      BY <1>r DEF Session, Steps
    <3>2. [req[q] EXCEPT !.todo = @ \ ({h} \cup Members(q, h))] \in Session
      BY <1>r DEF Session
    <3> QED
      BY <1>r, <2>1, <3>1, <3>2
  <2>4. outside' \in [Submission -> 0 .. 2]
    BY <2>1, SendType DEF TypeOK, Fails
  <2>5. faults' \in 0 .. MaxFaults
    BY <2>1, FaultType DEF TypeOK, Fails
  <2> QED
    BY <1>2, <2>1, <2>2, <2>3, <2>4, <2>5 DEF TypeOK, CreateHousehold, Session
<1>3. CASE LinkHousehold(q)
  <2>1. req[q].home # NoEvent
    BY <1>3 DEF TypeOK, LinkHousehold, Shape, Pushing, Pulling
  <2>2. Members(q, req[q].home) \subseteq Submission /\ req[q].home \in Submission
    BY <1>0, <2>1 DEF TypeOK, Members, Session
  <2>3. req' \in [Request -> Session]
    BY <1>r, <1>3, <2>2 DEF LinkHousehold, Session, Steps
  <2>4. faults' \in 0 .. MaxFaults /\ failed' \subseteq Submission
    BY <1>3, <2>2, FaultType DEF TypeOK, LinkHousehold
  <2> QED
    BY <1>3, <2>3, <2>4 DEF TypeOK, LinkHousehold, Session
<1>4. CASE CreateIndividual(q)
  <2>1. PICK i \in Members(q, req[q].home) : CreateIndividual(q)!2!(i)
    BY <1>4 DEF TypeOK, CreateIndividual
  <2>2. i \in Submission
    BY DEF TypeOK, Members, Session
  <2>3. req' \in [Request -> Session]
    <3>1. [req[q] EXCEPT !.todo = @ \ {i}, !.made = @ \cup {i}] \in Session
      BY <1>r, <2>2 DEF Session
    <3>2. [req[q] EXCEPT !.todo = @ \ {i}] \in Session
      BY <1>r DEF Session
    <3> QED
      BY <1>r, <2>1, <3>1, <3>2
  <2>4. outside' \in [Submission -> 0 .. 2]
    BY <2>1, SendType DEF TypeOK, Fails
  <2>5. faults' \in 0 .. MaxFaults
    BY <2>1, FaultType DEF TypeOK, Fails
  <2> QED
    BY <1>4, <2>1, <2>2, <2>3, <2>4, <2>5 DEF TypeOK, CreateIndividual, Session
<1>5. CASE FetchGroups(q)
  <2>1. With(q, News(q, Groups)) \in [Record -> Time]
    BY DEF TypeOK, With, News, Session
  <2>2. req' \in [Request -> Session]
    BY <1>r, <1>5, <2>1, LeaveType DEF FetchGroups, Session, Steps
  <2> QED
    BY <1>5, <2>2, FaultType DEF TypeOK, FetchGroups, Session
<1>6. CASE FetchPersons(q)
  <2>1. With(q, News(q, Persons)) \in [Record -> Time] /\ News(q, Groups) \subseteq Record
    BY DEF TypeOK, With, News, Session, Record
  <2>2. req' \in [Request -> Session]
    BY <1>r, <1>6, <2>1, LeaveType DEF FetchPersons, Session, Steps
  <2> QED
    BY <1>6, <2>1, <2>2, FaultType DEF TypeOK, FetchPersons, Session
<1>7. CASE LookUp(q)
  <2> DEFINE R == {r \in Record : req[q].got[r] > 0}
  <2>2. R \subseteq Submission /\ Fresh(R) \subseteq Record
    BY <1>0 DEF Fresh
  <2>3. req' = [req EXCEPT ![q].todo = R, ![q].fresh = Fresh(R), ![q].at = "apply"]
    BY <1>7 DEF LookUp
  <2> HIDE DEF R
  <2>4. [req[q] EXCEPT !.todo = R, !.fresh = Fresh(R), !.at = "apply"] \in Session
    BY <1>r, <2>2 DEF Session, Steps
  <2>1. req' \in [Request -> Session]
    BY <1>r, <2>3, <2>4
  <2> QED
    BY <1>7, <2>1 DEF TypeOK, LookUp, Session
<1>8. CASE SubmitRecord(q)
  <2>1. PICK r \in req[q].todo : SubmitRecord(q)!2!(r)
    BY <1>8 DEF TypeOK, SubmitRecord
  <2>2. req[q].way = "pull" /\ r \in Record /\ req[q].got[r] \in Time
    <3>1. Pushing(q) /\ Pulling(q) /\ req[q].way \in Way /\ req[q].got \in [Record -> Time]
      BY DEF Shape, TypeOK
    <3>2. req[q].way = "pull"
      BY <1>8, <3>1 DEF SubmitRecord, Pushing, Way
    <3> QED
      BY <3>1, <3>2 DEF Pulling
  <2>3. req' \in [Request -> Session]
    BY <1>r, <2>1 DEF Session
  <2>4. copies' \in [Record -> 0 .. 2]
    BY <2>1, <2>2, MoreType DEF TypeOK, Transformed
  <2>5. taken' \in [Record -> Time] /\ failed' \subseteq Submission /\ stale' \subseteq Record
    BY <1>0, <2>1, <2>2 DEF TypeOK
  <2>6. faults' \in 0 .. MaxFaults
    BY <2>1, FaultType DEF TypeOK
  <2> QED
    BY <1>8, <2>3, <2>4, <2>5, <2>6 DEF TypeOK, SubmitRecord, Session
<1> QED
  BY <1>1, <1>2, <1>3, <1>4, <1>5, <1>6, <1>7, <1>8

\* No step takes a variable out of its domain.
LEMMA TypeNext ==
    ASSUME TypeOK, Shape, [Next]_vars
    PROVE  TypeOK'
<1>1. CASE UNCHANGED vars
  BY <1>1 DEF TypeOK, vars, env, dataVars, gaps, calm
<1>2. CASE Restart
  <2>1. req' \in [Request -> Session]
    BY <1>2, IdleType DEF Restart
  <2>2. torn' \in [Way -> BOOLEAN]
    BY <1>2 DEF Restart, Torn, TypeOK
  <2> QED
    BY <1>2, <2>1, <2>2, FaultType DEF TypeOK, Restart, Session, env, dataVars, gaps
<1> QED
  BY <1>1, <1>2, OutsideTypes, RequestTypes, OpenFnTypes, OpenSppTypes DEF Next, Step

-----------------------------------------------------------------------------
(* The shape of the log and of requests.                                   *)

\* What a request relies on stays while others move on.
LEMMA ShapeFrom ==
    ASSUME TypeOK, Shape,
           kind' = kind, log \subseteq log',
           \A r \in Record : \/ written'[r] = written[r]
                             \/ written[r] < written'[r] /\ (kind = "openfn" => written[r] = 0),
           \A p \in Request : req'[p] = req[p] \/ (Pushing(p)' /\ Pulling(p)'),
           Logged', written' \in [Record -> Time]
    PROVE  Shape'
<1>1. ASSUME NEW p \in Request, req'[p] = req[p]
      PROVE  Pushing(p)' /\ Pulling(p)'
  <2>1. req'[p] = req[p] /\ Pushing(p) /\ Pulling(p)
    BY <1>1 DEF Shape
  <2>2. Pushing(p)'
    BY <2>1 DEF Pushing, Nothing
  <2>3. CASE req[p].way = "pull"
    <3>1. NewCursor(p)' = NewCursor(p)
      BY <2>1, <2>3 DEF NewCursor, After, Day
    <3>2. \A r \in Record : written[r] \in Nat /\ written'[r] \in Nat /\ req[p].got[r] \in Nat
      BY Sizes DEF TypeOK, Time
    <3>3. ASSUME NEW r \in Record, req[p].got[r] > 0
          PROVE  req[p].got[r] <= written'[r] /\ (kind = "openfn" => req[p].got[r] = written'[r])
      BY <2>1, <2>3, <3>2, <3>3 DEF Pulling
    <3> QED
      BY <2>1, <2>2, <2>3, <3>1, <3>3 DEF Pulling, Nothing
  <2>4. CASE req[p].way # "pull"
    BY <2>1, <2>2, <2>4 DEF Pulling
  <2> QED
    BY <2>2, <2>3, <2>4
<1> QED
  BY <1>1 DEF Shape

\* A step of the request q alone, which adds nothing to the log.
LEMMA ShapeStep ==
    ASSUME TypeOK, TypeOK', Shape, NEW q \in Request,
           UNCHANGED <<kind, log, stamp, written>>, kind = "openfn" => UNCHANGED copies,
           \A x \in Submission : outside'[x] > 0 => outside[x] > 0 \/ x \in log,
           NEW s, req' = [req EXCEPT ![q] = s], Pushing(q)', Pulling(q)'
    PROVE  Shape'
<1>1. Logged'
  BY DEF Shape, Logged
<1>2. ASSUME NEW p \in Request
      PROVE  req'[p] = req[p] \/ (Pushing(p)' /\ Pulling(p)')
  <2>1. CASE p = q
    BY <2>1
  <2>2. CASE p # q
    BY <2>2 DEF TypeOK
  <2> QED
    BY <2>1, <2>2
<1>3. written' \in [Record -> Time]
  BY DEF TypeOK
<1>4. \A r \in Record : \/ written'[r] = written[r]
                        \/ written[r] < written'[r] /\ (kind = "openfn" => written[r] = 0)
  OBVIOUS
<1> QED
  BY <1>1, <1>2, <1>3, <1>4, ShapeFrom

\* A request that ends, or breaks off, holds nothing: the rest keeps the shape.
LEMMA LeaveShape ==
    ASSUME TypeOK, TypeOK', Shape, NEW q \in Request, Leave(q),
           UNCHANGED <<kind, log, stamp, copies, written>>,
           \A x \in Submission : outside'[x] > 0 => outside[x] > 0 \/ x \in log
    PROVE  Shape'
<1>1. req' = [req EXCEPT ![q] = Idle] /\ req'[q] = Idle
  BY DEF Leave, TypeOK
<1>2. Pushing(q)' /\ Pulling(q)'
  BY <1>1 DEF Pushing, Pulling, Idle, Nothing
<1> QED
  BY <1>1, <1>2, ShapeStep

\* Nothing but what is in the log is sent.
LEMMA SendsLogged ==
    ASSUME TypeOK, NEW S \in SUBSET log, Send(S)
    PROVE  \A x \in Submission : outside'[x] > 0 => outside[x] > 0 \/ x \in log
BY DEF TypeOK, Send

\* The start.
LEMMA ShapeInit == Init => Shape
<1> SUFFICES ASSUME Init PROVE Shape
  OBVIOUS
<1>1. Logged
  BY Levels DEF Init, Logged, Submission
<1>2. ASSUME NEW q \in Request PROVE Pushing(q) /\ Pulling(q)
  BY DEF Init, Pushing, Pulling, Idle, Nothing
<1> QED
  BY <1>1, <1>2 DEF Shape

\* The steps of the external system and of the users keep the shape,
LEMMA OutsideShapes ==
    ASSUME TypeOK, TypeOK', Shape,
           \/ \E x \in Event, t \in 1 .. MaxClock : Arrive(x, t)
           \/ \E r \in Record : Write(r)
           \/ Tick
    PROVE  Shape'
<1>w. written' \in [Record -> Time]
  BY DEF TypeOK
<1>1. ASSUME NEW x \in Event, NEW t \in 1 .. MaxClock, Arrive(x, t)
      PROVE  Shape'
  <2>1. Logged'
    BY <1>1 DEF Shape, Logged, Arrive, env, TypeOK
  <2>2. req' = req /\ UNCHANGED <<kind, written>> /\ log \subseteq log'
    BY <1>1 DEF Arrive, env
  <2>3. /\ \A p \in Request : req'[p] = req[p]
        /\ \A r \in Record : written'[r] = written[r]
    BY <2>2
  <2> QED
    BY <1>w, <2>1, <2>2, <2>3, ShapeFrom
<1>2. ASSUME NEW r \in Record, Write(r)
      PROVE  Shape'
  <2>1. Logged'
    BY <1>2 DEF Shape, Logged, Write, env, dataVars
  <2>2. \A x \in Record : \/ written'[x] = written[x]
                          \/ written[x] < written'[x] /\ (kind = "openfn" => written[x] = 0)
    BY <1>2 DEF Write, TypeOK
  <2>3. req' = req /\ UNCHANGED kind /\ log' = log
    BY <1>2 DEF Write, env, dataVars
  <2>4. \A p \in Request : req'[p] = req[p]
    BY <2>3
  <2> QED
    BY <1>w, <2>1, <2>2, <2>3, <2>4, ShapeFrom
<1>3. CASE Tick
  <2>1. UNCHANGED <<kind, log, stamp, copies, req, written, outside>>
    BY <1>3 DEF Tick, dataVars
  <2>2. Logged'
    BY <2>1 DEF Shape, Logged
  <2>3. /\ \A p \in Request : req'[p] = req[p]
        /\ \A r \in Record : written'[r] = written[r]
    BY <2>1
  <2> QED
    BY <1>w, <2>1, <2>2, <2>3, ShapeFrom
<1> QED
  BY <1>1, <1>2, <1>3

\* One of the requests takes a step and everything it relies on is as it was.
LEMMA RequestShapes ==
    ASSUME TypeOK, TypeOK', Shape, NEW q \in Request,
           \/ Begin(q) \/ Login(q) \/ ReadCursor(q) \/ DeleteCursor(q) \/ InsertCursor(q)
           \/ EndPull(q) \/ StoreFails(q)
    PROVE  Shape'
<1> USE DEF env, dataVars, gaps, calm
<1>r. /\ req[q] \in Session /\ Pushing(q) /\ Pulling(q) /\ req[q].way \in Way
      /\ q \in DOMAIN req
  BY DEF TypeOK, Session, Shape
<1>k. /\ UNCHANGED <<kind, log, stamp, copies, written>>
      /\ \A x \in Submission : outside'[x] > 0 => outside[x] > 0 \/ x \in log
  BY DEF Begin, Login, ReadCursor, DeleteCursor, InsertCursor, EndPull, StoreFails, Shape, Logged
<1>l. CASE Leave(q)
  BY <1>k, <1>l, LeaveShape
<1>1. CASE Begin(q)
  <2>1. PICK at \in {"login", "read"} : req' = [req EXCEPT ![q].at = at]
    BY <1>1 DEF Begin
  <2>2. req' = [req EXCEPT ![q] = [req[q] EXCEPT !.at = at]] /\ req'[q] = [req[q] EXCEPT !.at = at]
    BY <1>r, <2>1
  <2>3. req[q].at = "idle" /\ req[q].way = "push"
    BY <1>1, <1>r DEF Begin, Pulling, Way
  <2>4. Pushing(q)' /\ Pulling(q)'
    BY <1>r, <1>k, <2>2, <2>3 DEF Pushing, Pulling, Session, Nothing
  <2> QED
    BY <1>k, <2>2, <2>4, ShapeStep
<1>2. CASE Login(q)
  <2>1. CASE req' = [req EXCEPT ![q].at = "read"]
    <3>2. /\ req' = [req EXCEPT ![q] = [req[q] EXCEPT !.at = "read"]]
          /\ req'[q] = [req[q] EXCEPT !.at = "read"]
      BY <1>r, <2>1
    <3>3. req[q].at = "login" /\ req[q].way = "push"
      BY <1>2, <1>r DEF Login, Pulling, Way
    <3>4. Pushing(q)' /\ Pulling(q)'
      BY <1>r, <1>k, <3>2, <3>3 DEF Pushing, Pulling, Session, Nothing
    <3> QED
      BY <1>k, <3>2, <3>4, ShapeStep
  <2> QED
    BY <1>2, <1>l, <2>1 DEF Login
<1>3. CASE ReadCursor(q)
  <2>1. CASE req[q].at = "read"
    <3> DEFINE s == [req[q] EXCEPT !.since = Stored("push"), !.at = "list"]
    <3>1. req' = [req EXCEPT ![q].since = Stored("push"), ![q].at = "list"]
      BY <1>3, <2>1 DEF ReadCursor, PushEnded
    <3>2. req' = [req EXCEPT ![q] = s] /\ req'[q] = s
      BY <1>r, <3>1
    <3>3. req[q].way = "push"
      BY <1>r, <2>1 DEF Pulling, Way
    <3>4. Pushing(q)' /\ Pulling(q)'
      BY <1>r, <1>k, <2>1, <3>2, <3>3 DEF Pushing, Pulling, Session, Nothing
    <3> QED
      BY <1>k, <3>2, <3>4, ShapeStep
  <2>2. CASE req[q].at # "read"
    <3> DEFINE s == [req[q] EXCEPT !.since = Stored("pull"), !.way = "pull", !.at = "list"]
    <3>1. /\ PushEnded(q)
          /\ req' = [req EXCEPT ![q].since = Stored("pull"), ![q].way = "pull", ![q].at = "list"]
      BY <1>3, <2>2 DEF ReadCursor
    <3>2. req' = [req EXCEPT ![q] = s] /\ req'[q] = s
      BY <1>r, <3>1
    <3>3. req[q].way = "push"
      BY <1>r, <3>1 DEF Pulling, Way, PushEnded
    <3>4. Pushing(q)' /\ Pulling(q)'
      BY <1>r, <1>k, <3>1, <3>2, <3>3 DEF Pushing, Pulling, Session, Nothing, PushEnded
    <3> QED
      BY <1>k, <3>2, <3>4, ShapeStep
  <2> QED
    BY <2>1, <2>2
<1>4. CASE DeleteCursor(q)
  <2> DEFINE s == [req[q] EXCEPT !.at = "insert"]
  <2>2. req' = [req EXCEPT ![q] = s] /\ req'[q] = s
    BY <1>r, <1>4 DEF DeleteCursor
  <2>3. Moves(q)
    BY <1>4 DEF DeleteCursor
  <2>1. /\ req'[q].way = req[q].way /\ req'[q].made = req[q].made
        /\ req'[q].got = req[q].got /\ req'[q].since = req[q].since
    BY <1>r, <2>2 DEF Session
  <2>4. NewCursor(q)' = NewCursor(q)
    BY <1>k, <2>1 DEF NewCursor, Stamps, After, Day
  <2>5. Pushing(q)'
    BY <1>r, <1>k, <2>2, <2>3 DEF Pushing, Pulling, Session, Nothing, Moves
  <2>6. Pulling(q)'
    BY <1>r, <1>k, <2>2, <2>3, <2>4 DEF Pushing, Pulling, Session, Nothing, Moves
  <2> QED
    BY <1>k, <2>2, <2>5, <2>6, ShapeStep
<1>5. CASE InsertCursor(q)
  <2>1. CASE req' = [req EXCEPT ![q].at = "push", ![q].made = {}, ![q].home = NoEvent]
    <3> DEFINE s == [req[q] EXCEPT !.at = "push", !.made = {}, !.home = NoEvent]
    <3>2. req' = [req EXCEPT ![q] = s] /\ req'[q] = s
      BY <1>r, <2>1
    <3>3. CASE req[q].way = "push"
      <4>1. Pushing(q)' /\ Pulling(q)'
        BY <1>r, <1>k, <3>2, <3>3 DEF Pushing, Pulling, Session, Nothing
      <4> QED
        BY <1>k, <3>2, <4>1, ShapeStep
    <3>4. CASE req[q].way = "pull"
      BY <1>5, <1>l, <3>4 DEF InsertCursor
    <3> QED
      BY <1>r, <3>3, <3>4 DEF Way
  <2> QED
    BY <1>5, <1>l, <2>1 DEF InsertCursor
<1>6. CASE EndPull(q)
  BY <1>6, <1>l DEF EndPull
<1>7. CASE StoreFails(q)
  BY <1>7, <1>l DEF StoreFails
<1> QED
  BY <1>1, <1>2, <1>3, <1>4, <1>5, <1>6, <1>7

\* those of OpenFnSyncAdapter keep the shape,
LEMMA OpenFnShapes ==
    ASSUME TypeOK, TypeOK', Shape, NEW q \in Request,
           ListEvents(q) \/ PushBatch(q) \/ FetchEvents(q) \/ SubmitEvent(q)
    PROVE  Shape'
<1> USE DEF env, dataVars, gaps, calm
<1>r. /\ req[q] \in Session /\ Pushing(q) /\ Pulling(q) /\ req[q].way \in Way
      /\ q \in DOMAIN req
  BY DEF TypeOK, Session, Shape
<1>1. CASE ListEvents(q)
  <2> DEFINE new == {x \in log : stamp[x] > req[q].since}
             s == [req[q] EXCEPT !.todo = new, !.at = "push"]
  <2>1. /\ UNCHANGED <<kind, log, stamp, copies, written>>
        /\ \A x \in Submission : outside'[x] > 0 => outside[x] > 0 \/ x \in log
    BY <1>1 DEF ListEvents, Shape, Logged
  <2>2. req' = [req EXCEPT ![q] = s] /\ req'[q] = s
    BY <1>r, <1>1 DEF ListEvents
  <2>3. req[q].at = "list" /\ req[q].way = "push" /\ kind = "openfn" /\ new \subseteq log
    BY <1>1 DEF ListEvents
  <2> HIDE DEF new
  <2>4. Pushing(q)' /\ Pulling(q)'
    BY <1>r, <2>1, <2>2, <2>3 DEF Pushing, Pulling, Session, Nothing
  <2> QED
    BY <2>1, <2>2, <2>4, ShapeStep
<1>2. CASE PushBatch(q)
  <2>1. PICK B \in Batches(req[q].todo) :
           \/ Send(B) /\ req' = [req EXCEPT ![q].todo = @ \ B, ![q].made = B]
           \/ Leave(q) /\ (Send(B) \/ UNCHANGED outside)
    BY <1>2 DEF PushBatch
  <2>2. req[q].at = "push" /\ req[q].way = "push" /\ kind = "openfn"
    BY <1>2, <1>r DEF PushBatch, Pulling, Way
  <2>3. B \subseteq req[q].todo /\ B \subseteq log
    BY <1>r, <2>2 DEF Batches, Pushing
  <2>4. /\ UNCHANGED <<kind, log, stamp, copies, written>>
        /\ \A x \in Submission : outside'[x] > 0 => outside[x] > 0 \/ x \in log
    <3>1. CASE Send(B)
      BY <1>2, <2>3, <3>1, SendsLogged DEF PushBatch
    <3>2. CASE UNCHANGED outside
      BY <1>2, <3>2 DEF PushBatch
    <3> QED
      BY <2>1, <3>1, <3>2
  <2>5. CASE req' = [req EXCEPT ![q].todo = @ \ B, ![q].made = B]
    <3> DEFINE s == [req[q] EXCEPT !.todo = @ \ B, !.made = B]
    <3>1. req' = [req EXCEPT ![q] = s] /\ req'[q] = s
      BY <1>r, <2>5
    <3>2. Pushing(q)' /\ Pulling(q)'
      <4>1. req[q].home = NoEvent
        BY <1>2, <1>r, <2>2 DEF Pushing, PushBatch
      <4> QED
        BY <1>r, <2>2, <2>3, <2>4, <3>1, <4>1 DEF Pushing, Pulling, Session, Nothing
    <3> QED
      BY <2>4, <3>1, <3>2, ShapeStep
  <2> QED
    BY <2>1, <2>4, <2>5, LeaveShape
<1>3. CASE FetchEvents(q)
  <2> DEFINE news == {r \in Record : written[r] > req[q].since}
             got == [r \in Record |-> IF r \in news THEN written[r] ELSE 0]
             s == [req[q] EXCEPT !.todo = news, !.at = "apply", !.got = got]
  <2>1. /\ UNCHANGED <<kind, log, stamp, copies, written>>
        /\ \A x \in Submission : outside'[x] > 0 => outside[x] > 0 \/ x \in log
    BY <1>3 DEF FetchEvents, Shape, Logged
  <2>2. req[q].at = "list" /\ req[q].way = "pull" /\ kind = "openfn"
    BY <1>3 DEF FetchEvents
  <2>3. Leave(q) \/ req' = [req EXCEPT ![q].todo = news, ![q].at = "apply", ![q].got = got]
    BY <1>3 DEF FetchEvents
  <2>4. /\ news \subseteq {r \in Record : got[r] > 0}
        /\ \A r \in Record : got[r] > 0 => req[q].since < got[r] /\ got[r] = written[r]
    BY <1>r, Sizes DEF TypeOK, Time, Session
  <2> HIDE DEF news, got
  <2>5. CASE req' = [req EXCEPT ![q].todo = news, ![q].at = "apply", ![q].got = got]
    <3>1. req' = [req EXCEPT ![q] = s] /\ req'[q] = s
      BY <1>r, <2>5
    <3>2. Pushing(q)'
      BY <1>r, <2>1, <2>2, <3>1 DEF Pushing, Session
    <3>3. \A r \in Record : written[r] \in Nat
      BY Sizes DEF TypeOK, Time
    <3>4. Pulling(q)'
      <4>1. /\ req'[q].at = "apply" /\ req'[q].todo = news /\ req'[q].got = got
            /\ req'[q].made = req[q].made /\ req'[q].home = req[q].home
            /\ req'[q].since = req[q].since
        BY <1>r, <3>1 DEF Session
      <4>2. \A r \in Record : got[r] > 0 => got[r] <= written[r]
        BY <2>4, <3>3
      <4>3. req[q].made = {} /\ req[q].home = NoEvent
        BY <1>r, <2>2 DEF Pulling
      <4> QED
        BY <2>1, <2>4, <4>1, <4>2, <4>3 DEF Pulling
    <3> QED
      BY <2>1, <3>1, <3>2, <3>4, ShapeStep
  <2> QED
    BY <2>1, <2>3, <2>5, LeaveShape
<1>4. CASE SubmitEvent(q)
  <2>1. PICK r \in req[q].todo : SubmitEvent(q)!2!(r)
    BY <1>4 DEF SubmitEvent
  <2>2. req[q].at = "apply" /\ req[q].way = "pull" /\ kind = "openfn"
    BY <1>4, <1>r DEF SubmitEvent, Pushing, Way
  <2>3. /\ UNCHANGED <<kind, written, outside>> /\ log \subseteq log'
        /\ r \in Record /\ req[q].got[r] > 0
    BY <1>4, <1>r, <2>1, <2>2 DEF SubmitEvent, Pulling
  <2>4. Logged'
    <3>1. r \in Submission /\ stamp \in [Submission -> Time] /\ copies \in [Record -> 0 .. 2]
      BY <2>3 DEF Submission, TypeOK
    <3>2. \A x \in log' : stamp'[x] > 0
      <4>1. CASE r \in log
        BY <2>1, <4>1 DEF Shape, Logged
      <4>2. CASE r \notin log
        <5>1. log' = log \cup {r} /\ stamp' = [stamp EXCEPT ![r] = req[q].got[r]]
          BY <2>1, <4>2
        <5> QED
          BY <2>3, <3>1, <5>1 DEF Shape, Logged
      <4> QED
        BY <4>1, <4>2
    <3>3. \A x \in Submission : outside'[x] > 0 => x \in log'
      BY <2>3 DEF Shape, Logged
    <3>4. \A x \in Record : copies'[x] > 0 => x \in log'
      <4>1. \A x \in Record : x = r \/ copies'[x] = copies[x]
        BY <2>1, <3>1
      <4>2. r \in log'
        BY <2>1
      <4> QED
        BY <2>2, <2>3, <4>1, <4>2 DEF Shape, Logged
    <3> QED
      BY <3>2, <3>3, <3>4 DEF Logged
  <2>5. Leave(q) \/ req' = [req EXCEPT ![q].todo = @ \ {r}]
    BY <2>1
  <2>6. Pushing(q)' /\ Pulling(q)'
    <3>1. CASE Leave(q)
      <4>1. req'[q] = Idle
        BY <1>r, <3>1 DEF Leave
      <4> QED
        BY <4>1 DEF Pushing, Pulling, Idle, Nothing
    <3>2. CASE req' = [req EXCEPT ![q].todo = @ \ {r}]
      <4>1. req'[q] = [req[q] EXCEPT !.todo = @ \ {r}]
        BY <1>r, <3>2
      <4> QED
        BY <1>r, <2>2, <2>3, <4>1 DEF Pushing, Pulling, Session, Nothing
    <3> QED
      BY <2>5, <3>1, <3>2
  <2>7. \A p \in Request : req'[p] = req[p] \/ (Pushing(p)' /\ Pulling(p)')
    <3> TAKE p \in Request
    <3>1. CASE p = q
      BY <2>6, <3>1
    <3>2. CASE p # q
      BY <2>5, <3>2 DEF Leave, TypeOK
    <3> QED
      BY <3>1, <3>2
  <2>8. (\A x \in Record : written'[x] = written[x]) /\ written' \in [Record -> Time]
    BY <2>3 DEF TypeOK
  <2> QED
    BY <2>3, <2>4, <2>7, <2>8, ShapeFrom
<1> QED
  BY <1>1, <1>2, <1>3, <1>4

\* and those of OpenSppSyncAdapter.
LEMMA OpenSppShapes ==
    ASSUME TypeOK, TypeOK', Shape, NEW q \in Request,
           \/ ListRegistrants(q) \/ CreateHousehold(q) \/ LinkHousehold(q) \/ CreateIndividual(q)
           \/ FetchGroups(q) \/ FetchPersons(q) \/ LookUp(q) \/ SubmitRecord(q)
    PROVE  Shape'
<1> USE DEF env, dataVars, gaps, calm
<1>r. /\ req[q] \in Session /\ Pushing(q) /\ Pulling(q) /\ req[q].way \in Way
      /\ q \in DOMAIN req
  BY DEF TypeOK, Session, Shape
<1>w. \A r \in Record : written[r] \in Nat /\ req[q].got[r] \in Nat
  BY Sizes DEF TypeOK, Time
<1>1. CASE ListRegistrants(q)
  <2> DEFINE new == Grouped(Filtered(q))
             s == [req[q] EXCEPT !.todo = new, !.at = "push"]
  <2>1. /\ UNCHANGED <<kind, log, stamp, copies, written>>
        /\ \A x \in Submission : outside'[x] > 0 => outside[x] > 0 \/ x \in log
    BY <1>1 DEF ListRegistrants
  <2>2. req' = [req EXCEPT ![q] = s] /\ req'[q] = s
    BY <1>r, <1>1 DEF ListRegistrants
  <2>3. /\ req[q].at = "list" /\ req[q].way = "push" /\ kind = "openspp"
        /\ new \subseteq log /\ new \subseteq Household \cup Individual
    BY <1>1 DEF ListRegistrants, Grouped, Filtered
  <2> HIDE DEF new
  <2>4. Pushing(q)' /\ Pulling(q)'
    BY <1>r, <2>1, <2>2, <2>3 DEF Pushing, Pulling, Session, Nothing
  <2> QED
    BY <2>1, <2>2, <2>4, ShapeStep
<1>2. CASE CreateHousehold(q)
  <2>1. PICK h \in req[q].todo \cap Household : CreateHousehold(q)!2!(h)
    BY <1>2 DEF CreateHousehold
  <2>2. req[q].at = "push" /\ req[q].way = "push" /\ kind = "openspp"
    BY <1>2, <1>r DEF CreateHousehold, Pulling, Way
  <2>3. h \in log /\ h # NoEvent
    BY <1>r, <2>2, Levels DEF Pushing, Submission, Event
  <2>4. Send({h}) \/ UNCHANGED outside
    BY <2>1 DEF Fails
  <2>5. /\ UNCHANGED <<kind, log, stamp, copies, written>>
        /\ \A x \in Submission : outside'[x] > 0 => outside[x] > 0 \/ x \in log
    BY <1>2, <2>3, <2>4, SendsLogged DEF CreateHousehold
  <2>6. CASE req' = [req EXCEPT ![q].home = h, ![q].todo = @ \ {h}, ![q].at = "link"]
    <3> DEFINE s == [req[q] EXCEPT !.home = h, !.todo = @ \ {h}, !.at = "link"]
    <3>1. req' = [req EXCEPT ![q] = s] /\ req'[q] = s
      BY <1>r, <2>6
    <3>2. Pushing(q)' /\ Pulling(q)'
      BY <1>r, <2>2, <2>3, <2>5, <3>1 DEF Pushing, Pulling, Session, Nothing
    <3> QED
      BY <2>5, <3>1, <3>2, ShapeStep
  <2>7. CASE req' = [req EXCEPT ![q].todo = @ \ ({h} \cup Members(q, h))]
    <3> DEFINE s == [req[q] EXCEPT !.todo = @ \ ({h} \cup Members(q, h))]
    <3>1. req' = [req EXCEPT ![q] = s] /\ req'[q] = s
      BY <1>r, <2>7
    <3>2. Pushing(q)' /\ Pulling(q)'
      BY <1>r, <2>2, <2>5, <3>1 DEF Pushing, Pulling, Session, Nothing
    <3> QED
      BY <2>5, <3>1, <3>2, ShapeStep
  <2> QED
    BY <2>1, <2>6, <2>7
<1>3. CASE LinkHousehold(q)
  <2>1. req[q].at = "link" /\ req[q].way = "push" /\ kind = "openspp"
    BY <1>3, <1>r DEF LinkHousehold, Pulling, Pushing, Way
  <2>2. /\ UNCHANGED <<kind, log, stamp, copies, written>>
        /\ \A x \in Submission : outside'[x] > 0 => outside[x] > 0 \/ x \in log
    BY <1>3 DEF LinkHousehold, Shape, Logged
  <2>3. req[q].home \in Household /\ req[q].home \in log
    BY <1>r, <2>1 DEF Pushing, Session
  <2>4. CASE req' = [req EXCEPT ![q].made = @ \cup {req[q].home}, ![q].at = "push"]
    <3> DEFINE s == [req[q] EXCEPT !.made = @ \cup {req[q].home}, !.at = "push"]
    <3>1. req' = [req EXCEPT ![q] = s] /\ req'[q] = s
      BY <1>r, <2>4
    <3>2. Pushing(q)' /\ Pulling(q)'
      BY <1>r, <2>1, <2>2, <2>3, <3>1 DEF Pushing, Pulling, Session, Nothing
    <3> QED
      BY <2>2, <3>1, <3>2, ShapeStep
  <2>5. CASE req' = [req EXCEPT ![q].todo = @ \ Members(q, req[q].home),
                                ![q].home = NoEvent, ![q].at = "push"]
    <3> DEFINE s == [req[q] EXCEPT !.todo = @ \ Members(q, req[q].home),
                                   !.home = NoEvent, !.at = "push"]
    <3>1. req' = [req EXCEPT ![q] = s] /\ req'[q] = s
      BY <1>r, <2>5
    <3>2. Pushing(q)' /\ Pulling(q)'
      BY <1>r, <2>1, <2>2, <3>1 DEF Pushing, Pulling, Session, Nothing
    <3> QED
      BY <2>2, <3>1, <3>2, ShapeStep
  <2> QED
    BY <1>3, <2>4, <2>5 DEF LinkHousehold
<1>4. CASE CreateIndividual(q)
  <2>1. PICK i \in Members(q, req[q].home) : CreateIndividual(q)!2!(i)
    BY <1>4 DEF CreateIndividual
  <2>2. req[q].at = "push" /\ req[q].way = "push" /\ kind = "openspp"
    BY <1>4, <1>r DEF CreateIndividual, Pulling, Way
  <2>3. i \in log /\ i \in Individual
    BY <1>r, <2>2 DEF Pushing, Members
  <2>4. Send({i}) \/ UNCHANGED outside
    BY <2>1 DEF Fails
  <2>5. /\ UNCHANGED <<kind, log, stamp, copies, written>>
        /\ \A x \in Submission : outside'[x] > 0 => outside[x] > 0 \/ x \in log
    BY <1>4, <2>3, <2>4, SendsLogged DEF CreateIndividual
  <2>6. CASE req' = [req EXCEPT ![q].todo = @ \ {i}, ![q].made = @ \cup {i}]
    <3> DEFINE s == [req[q] EXCEPT !.todo = @ \ {i}, !.made = @ \cup {i}]
    <3>1. req' = [req EXCEPT ![q] = s] /\ req'[q] = s
      BY <1>r, <2>6
    <3>2. Pushing(q)' /\ Pulling(q)'
      BY <1>r, <2>2, <2>3, <2>5, <3>1 DEF Pushing, Pulling, Session, Nothing
    <3> QED
      BY <2>5, <3>1, <3>2, ShapeStep
  <2>7. CASE req' = [req EXCEPT ![q].todo = @ \ {i}]
    <3> DEFINE s == [req[q] EXCEPT !.todo = @ \ {i}]
    <3>1. req' = [req EXCEPT ![q] = s] /\ req'[q] = s
      BY <1>r, <2>7
    <3>2. Pushing(q)' /\ Pulling(q)'
      BY <1>r, <2>2, <2>5, <3>1 DEF Pushing, Pulling, Session, Nothing
    <3> QED
      BY <2>5, <3>1, <3>2, ShapeStep
  <2> QED
    BY <2>1, <2>6, <2>7
<1>5. CASE FetchGroups(q)
  <2> DEFINE got == With(q, News(q, Groups))
             s == [req[q] EXCEPT !.got = got, !.at = "persons"]
  <2>1. /\ UNCHANGED <<kind, log, stamp, copies, written>>
        /\ \A x \in Submission : outside'[x] > 0 => outside[x] > 0 \/ x \in log
    BY <1>5 DEF FetchGroups
  <2>2. req[q].at = "list" /\ req[q].way = "pull" /\ req[q].got = Nothing
    BY <1>5, <1>r DEF FetchGroups, Pulling
  <2>3. \A r \in Record : got[r] > 0 => req[q].since < got[r] /\ got[r] = written[r]
    BY <2>2 DEF With, News, Nothing
  <2>4. CASE req' = [req EXCEPT ![q].got = got, ![q].at = "persons"]
    <3> HIDE DEF got
    <3>1. req' = [req EXCEPT ![q] = s] /\ req'[q] = s
      BY <1>r, <2>4
    <3>2. \A r \in Record : got[r] > 0 => got[r] <= written[r]
      BY <1>w, <2>3
    <3>3. Pushing(q)' /\ Pulling(q)'
      BY <1>r, <2>1, <2>2, <2>3, <3>1, <3>2 DEF Pushing, Pulling, Session
    <3> QED
      BY <2>1, <3>1, <3>3, ShapeStep
  <2> QED
    BY <1>5, <2>1, <2>4, LeaveShape DEF FetchGroups
<1>6. CASE FetchPersons(q)
  <2> DEFINE got == With(q, News(q, Persons))
             s == [req[q] EXCEPT !.got = got, !.at = "lookUp"]
  <2>1. /\ UNCHANGED <<kind, log, stamp, copies, written>>
        /\ \A x \in Submission : outside'[x] > 0 => outside[x] > 0 \/ x \in log
    BY <1>6 DEF FetchPersons, Shape, Logged
  <2>2. req[q].at = "persons" /\ req[q].way = "pull"
    BY <1>6, <1>r DEF FetchPersons, Pushing, Way
  <2>3. \A r \in Record : got[r] > 0 =>
           /\ req[q].since < got[r] /\ got[r] <= written[r]
           /\ kind = "openfn" => got[r] = written[r]
    BY <1>r, <1>w, <2>2 DEF With, News, Pulling
  <2>4. CASE req' = [req EXCEPT ![q].got = got, ![q].at = "lookUp"]
    <3> HIDE DEF got
    <3>1. req' = [req EXCEPT ![q] = s] /\ req'[q] = s
      BY <1>r, <2>4
    <3>3. Pushing(q)' /\ Pulling(q)'
      BY <1>r, <2>1, <2>2, <2>3, <3>1 DEF Pushing, Pulling, Session
    <3> QED
      BY <2>1, <3>1, <3>3, ShapeStep
  <2> QED
    BY <1>6, <2>1, <2>4, LeaveShape DEF FetchPersons
<1>7. CASE LookUp(q)
  <2> DEFINE R == {r \in Record : req[q].got[r] > 0}
             s == [req[q] EXCEPT !.todo = R, !.fresh = Fresh(R), !.at = "apply"]
  <2>1. /\ UNCHANGED <<kind, log, stamp, copies, written>>
        /\ \A x \in Submission : outside'[x] > 0 => outside[x] > 0 \/ x \in log
    BY <1>7 DEF LookUp, Shape, Logged
  <2>2. req[q].at = "lookUp" /\ req[q].way = "pull"
    BY <1>7, <1>r DEF LookUp, Pushing, Way
  <2>3. req' = [req EXCEPT ![q].todo = R, ![q].fresh = Fresh(R), ![q].at = "apply"]
    BY <1>7 DEF LookUp
  <2>r. R \subseteq {r \in Record : req[q].got[r] > 0}
    OBVIOUS
  <2> HIDE DEF R
  <2>4. req' = [req EXCEPT ![q] = s] /\ req'[q] = s
    BY <1>r, <2>3
  <2>5. Pushing(q)' /\ Pulling(q)'
    BY <1>r, <2>1, <2>2, <2>r, <2>4 DEF Pushing, Pulling, Session
  <2> QED
    BY <2>1, <2>4, <2>5, ShapeStep
<1>8. CASE SubmitRecord(q)
  <2>1. PICK r \in req[q].todo : SubmitRecord(q)!2!(r)
    BY <1>8 DEF SubmitRecord
  <2>2. req[q].at = "apply" /\ req[q].way = "pull" /\ kind = "openspp"
    BY <1>8, <1>r DEF SubmitRecord, Pushing, Way
  <2>3. /\ UNCHANGED <<kind, log, stamp, written>>
        /\ kind = "openfn" => UNCHANGED copies
        /\ \A x \in Submission : outside'[x] > 0 => outside[x] > 0 \/ x \in log
    BY <1>8, <2>2 DEF SubmitRecord
  <2> DEFINE s == [req[q] EXCEPT !.todo = @ \ {r}]
  <2>4. req' = [req EXCEPT ![q] = s] /\ req'[q] = s
    BY <1>r, <2>1
  <2>5. Pushing(q)' /\ Pulling(q)'
    BY <1>r, <2>2, <2>3, <2>4 DEF Pushing, Pulling, Session
  <2> QED
    BY <2>3, <2>4, <2>5, ShapeStep
<1> QED
  BY <1>1, <1>2, <1>3, <1>4, <1>5, <1>6, <1>7, <1>8

\* Every step keeps it.
LEMMA ShapeNext ==
    ASSUME TypeOK, TypeOK', Shape, [Next]_vars
    PROVE  Shape'
<1>1. CASE UNCHANGED vars
  <2>1. UNCHANGED <<kind, log, stamp, copies, req, written, outside>>
    BY <1>1 DEF vars, env, dataVars
  <2>2. Logged' /\ written' \in [Record -> Time]
    BY <2>1 DEF Shape, Logged, TypeOK
  <2>3. /\ \A p \in Request : req'[p] = req[p]
        /\ \A r \in Record : written'[r] = written[r]
    BY <2>1
  <2> QED
    BY <2>1, <2>2, <2>3, ShapeFrom
<1>2. CASE Restart
  <2>1. /\ UNCHANGED <<kind, log, stamp, copies, written, outside>>
        /\ \A p \in Request : req'[p] = Idle
    BY <1>2 DEF Restart, env, dataVars
  <2>2. Logged'
    BY <2>1 DEF Shape, Logged
  <2>3. \A p \in Request : Pushing(p)' /\ Pulling(p)'
    BY <2>1 DEF Pushing, Pulling, Idle, Nothing
  <2> QED
    BY <2>2, <2>3 DEF Shape
<1> QED
  BY <1>1, <1>2, OutsideShapes, RequestShapes, OpenFnShapes, OpenSppShapes DEF Next, Step

-----------------------------------------------------------------------------
(* The push cursor.                                                        *)

\* A new cursor passes nothing by that is still due.
LEMMA PushedUpToBound ==
    ASSUME TypeOK
    PROVE  /\ PushedUpTo \in Time /\ high["push"] <= PushedUpTo
           /\ \A q \in Request : req[q].way = "push" => \A y \in Hand(q) : stamp[y] <= PushedUpTo
<1> DEFINE hands == UNION {Stamps(Hand(q)) : q \in {p \in Request : req[p].way = "push"}}
<1>1. \A q \in Request : Hand(q) \in SUBSET Submission
  BY DEF Hand
<1>2. hands \in SUBSET Time /\ high["push"] \in Time
  <2>1. \A q \in Request : Stamps(Hand(q)) \in SUBSET Time
    BY <1>1, StampsType
  <2> QED
    BY <2>1 DEF TypeOK, Way
<1>3. PushedUpTo = Latest({high["push"]} \cup hands)
  BY DEF PushedUpTo, Hand
<1>4. ASSUME NEW q \in Request, req[q].way = "push", NEW y \in Hand(q)
      PROVE  stamp[y] \in hands
  BY <1>4 DEF Stamps
<1> HIDE DEF hands
<1>5. {high["push"]} \cup hands \in SUBSET Time
  BY <1>2
<1> QED
  BY <1>3, <1>4, <1>5, LatestOf

\* A step that sends or excuses more leaves less that is due.
LEMMA DueShrinks ==
    ASSUME TypeOK, UNCHANGED <<kind, log, stamp>>, late \subseteq late', orphan \subseteq orphan',
           failed \ Record \subseteq failed', kind = "openfn" => failed \subseteq failed',
           \A x \in Submission : outside[x] > 0 => outside'[x] > 0,
           outside' \in [Submission -> 0 .. 2]
    PROVE  \A x \in log : Due(x)' => Due(x)
<1> TAKE x \in log
<1> SUFFICES ASSUME Due(x)' PROVE Due(x)
  OBVIOUS
<1>1. \A y \in log : outside'[y] = 0 => outside[y] = 0
  BY DEF TypeOK
<1>2. Pushed(x) /\ outside[x] = 0
  BY <1>1 DEF Due, Pushed
<1>3. x \notin late \cup failed \cup orphan
  <2>1. x \in failed => x \in failed'
    <3>1. CASE kind = "openfn"
      BY <3>1
    <3>2. CASE kind # "openfn"
      BY <1>2, <3>2, Levels DEF Pushed, Event
    <3> QED
      BY <3>1, <3>2
  <2> QED
    BY <2>1 DEF Due
<1>4. \A y \in log : stamp[y] = stamp[x] => outside[y] = 0
  BY <1>1 DEF Due
<1> QED
  BY <1>2, <1>3, <1>4 DEF Due

\* A step that adds nothing to the log and moves no push cursor.
LEMMA PushFrom ==
    ASSUME TypeOK, PushAhead, UNCHANGED <<kind, log, stamp>>, high'["push"] = high["push"],
           cursor'["push"] \subseteq cursor["push"],
           \A x \in log : Due(x)' => Due(x),
           \A x \in Submission : outside[x] > 0 => outside'[x] > 0,
           \A p \in Request : req'[p] = req[p] \/ PushSafe(p)'
    PROVE  PushAhead'
<1>1. ASSUME NEW p \in Request, req'[p] = req[p]
      PROVE  PushSafe(p)'
  <2>1. PushSafe(p) /\ Hand(p)' = Hand(p)
    BY <1>1 DEF PushAhead, Hand
  <2>2. \A y \in req[p].made : y \in Submission
    BY DEF TypeOK
  <2> QED
    BY <1>1, <2>1, <2>2 DEF PushSafe
<1> QED
  BY <1>1 DEF PushAhead

\* A submission joins the log: it is not due unless it is younger than everything.
LEMMA PushJoin ==
    ASSUME TypeOK, Shape, PushAhead, NEW x \in Submission \ log, NEW t \in Time,
           log' = log \cup {x}, stamp' = [stamp EXCEPT ![x] = t],
           late' = IF t <= PushedUpTo THEN late \cup {x} ELSE late,
           UNCHANGED <<kind, outside, failed, orphan, high, cursor>>,
           \A p \in Request : req'[p] = req[p] \/ req'[p].way = "pull" \/ req'[p] = Idle
    PROVE  PushAhead'
<1>1. \A y \in log : y # x /\ stamp'[y] = stamp[y]
  BY DEF TypeOK
<1>2. stamp'[x] = t
  BY DEF TypeOK
<1>3. ASSUME NEW y \in log, Due(y)'
      PROVE  Due(y)
  <2>1. late \subseteq late'
    OBVIOUS
  <2> QED
    BY <1>1, <1>3, <2>1 DEF Due, Pushed
<1>4. Due(x)' => t > PushedUpTo
  BY PushedUpToBound, Sizes DEF Due, Time
<1>5. /\ high["push"] \in Nat /\ PushedUpTo \in Nat /\ t \in Nat
      /\ \A y \in Submission : stamp[y] \in Nat
  BY PushedUpToBound, Sizes DEF TypeOK, Time, Way
<1>6. \A y \in log' : Due(y)' => stamp'[y] > high'["push"]
  BY <1>1, <1>2, <1>3, <1>4, <1>5, PushedUpToBound DEF PushAhead
<1>7. ASSUME NEW p \in Request, req'[p] = req[p], req[p].way = "push"
      PROVE  PushSafe(p)'
  <2>1. PushSafe(p) /\ Hand(p)' = Hand(p) /\ Pushing(p)
    BY <1>7 DEF PushAhead, Hand, Shape
  <2>2. Hand(p) \subseteq log /\ req[p].made \cup req[p].todo \subseteq log
    BY <1>7, <2>1, Levels DEF Hand, Pushing
  <2>3. Due(x)' => \A y \in Hand(p) : stamp[y] < t
    BY <1>4, <1>5, <1>7, <2>2, PushedUpToBound DEF TypeOK
  <2>4. req'[p].at \in {"push", "link", "insert"} =>
           \A y \in log' : Due(y)' => y \in req[p].todo \/ \A z \in Hand(p) : stamp'[z] < stamp'[y]
    BY <1>1, <1>2, <1>3, <1>7, <2>1, <2>2, <2>3 DEF PushSafe
  <2>5. \A y \in req[p].made, z \in req[p].todo : stamp'[y] = stamp[y] /\ stamp'[z] = stamp[z]
    BY <1>1, <2>2
  <2> QED
    BY <1>7, <2>1, <2>4, <2>5 DEF PushSafe
<1>8. ASSUME NEW p \in Request, req'[p].way = "pull" \/ req'[p] = Idle
      PROVE  PushSafe(p)'
  BY <1>8 DEF PushSafe, Idle
<1>9. ASSUME NEW p \in Request
      PROVE  PushSafe(p)'
  <2>1. req[p].way = "push" \/ req[p].way = "pull"
    BY DEF TypeOK, Way
  <2> QED
    BY <1>7, <1>8, <2>1
<1> QED
  BY <1>6, <1>9 DEF PushAhead

\* The start: nothing is due.
LEMMA PushInit == ASSUME Init PROVE PushAhead
<1>1. \A x \in log : stamp[x] = 1
  BY Levels DEF Init, Submission
<1> QED
  BY <1>1 DEF Init, PushAhead, PushSafe, Way, Idle

\* What a request takes up to push is everything due that it may have missed.
LEMMA ListsDue ==
    ASSUME TypeOK, TypeOK', Shape, PushAhead, NEW q \in Request,
           ListEvents(q) \/ ListRegistrants(q)
    PROVE  PushAhead'
<1>1. /\ UNCHANGED <<kind, log, stamp, high, cursor, outside, late, failed>> /\ orphan \subseteq orphan'
      /\ outside' \in [Submission -> 0 .. 2]
  BY DEF ListEvents, ListRegistrants, env, dataVars, gaps, TypeOK
<1>2. \A x \in log : Due(x)' => Due(x)
  BY <1>1, DueShrinks
<1>3. /\ req[q].way = "push" /\ req[q].at = "list" /\ Pushing(q) /\ PushSafe(q)
      /\ req[q] \in Session
  BY DEF ListEvents, ListRegistrants, Shape, PushAhead, TypeOK, Session
<1>4. /\ \A x \in Submission : stamp[x] \in Nat
      /\ high["push"] \in Nat /\ req[q].since \in Nat
  BY Sizes DEF TypeOK, Time, Way
<1>5. ASSUME NEW x \in log, Due(x)
      PROVE  stamp[x] > req[q].since /\ x \in Submission
  <2>1. x \in Submission /\ stamp[x] > high["push"] /\ req[q].since <= high["push"]
    BY <1>3, <1>5 DEF PushAhead, PushSafe, TypeOK
  <2> QED
    BY <1>4, <2>1
<1>6. \A x \in log : Due(x)' => x \in req'[q].todo
  <2>1. CASE ListEvents(q)
    <3> DEFINE new == {x \in log : stamp[x] > req[q].since}
    <3>1. \A x \in log : Due(x)' => x \in new
      BY <1>2, <1>5
    <3>2. req' = [req EXCEPT ![q].todo = new, ![q].at = "push"]
      BY <2>1 DEF ListEvents
    <3> HIDE DEF new
    <3>3. req'[q].todo = new
      BY <1>3, <3>2 DEF TypeOK, Session
    <3> QED
      BY <3>1, <3>3
  <2>2. CASE ListRegistrants(q)
    <3>1. /\ req'[q].todo = Grouped(Filtered(q)) /\ kind = "openspp"
          /\ orphan' = orphan \cup (Filtered(q) \ (Root \cup Grouped(Filtered(q))))
      BY <2>2 DEF ListRegistrants, TypeOK
    <3> TAKE x \in log
    <3> HAVE Due(x)'
    <3>2. Pushed(x) /\ x \notin orphan' /\ stamp[x] > req[q].since
      BY <1>1, <1>2, <1>5 DEF Due, Pushed
    <3>3. x \in Filtered(q) /\ x \notin Root
      BY <3>1, <3>2, Levels DEF Filtered, Event, Pushed
    <3> QED
      BY <3>1, <3>2, <3>3
  <2> QED
    BY <2>1, <2>2
<1>7. req'[q].at = "push" /\ req'[q].made = {}
  BY <1>3 DEF ListEvents, ListRegistrants, TypeOK, Pushing
<1>8. PushSafe(q)'
  BY <1>1, <1>6, <1>7 DEF PushSafe
<1>9. \A p \in Request : req'[p] = req[p] \/ PushSafe(p)'
  <2> TAKE p \in Request
  <2>1. CASE p = q
    BY <1>8, <2>1
  <2>2. CASE p # q
    BY <2>2 DEF ListEvents, ListRegistrants, TypeOK
  <2> QED
    BY <2>1, <2>2
<1> QED
  BY <1>1, <1>2, <1>9, PushFrom

\* What a request sends, or fails to send, leaves its hand in order.
LEMMA SendsDue ==
    ASSUME TypeOK, TypeOK', Shape, PushAhead, NEW q \in Request, req[q].way = "push",
           req[q].at \in {"push", "link"},
           UNCHANGED <<kind, log, stamp, high, cursor, late, orphan>>, failed \subseteq failed',
           \A x \in Submission : outside[x] > 0 => outside'[x] > 0,
           NEW s, req' = [req EXCEPT ![q] = s], s.at \in {"push", "link"}, s.way = "push",
           Hand(q)' \subseteq Hand(q),
           \A x \in log : Due(x)' => x \notin req[q].todo \ s.todo,
           kind = "openfn" => \A y \in s.made : outside'[y] > 0 /\ \A z \in s.todo : stamp[y] <= stamp[z]
    PROVE  PushAhead'
<1>1. outside' \in [Submission -> 0 .. 2] /\ req'[q] = s
  BY DEF TypeOK
<1>2. \A x \in log : Due(x)' => Due(x)
  BY <1>1, DueShrinks
<1>3. PushSafe(q)'
  <2>1. ASSUME NEW x \in log, Due(x)'
        PROVE  x \in s.todo \/ \A y \in Hand(q)' : stamp[y] < stamp[x]
    <3>1. x \in req[q].todo \/ \A y \in Hand(q) : stamp[y] < stamp[x]
      BY <1>2, <2>1 DEF PushAhead, PushSafe
    <3> QED
      BY <2>1, <3>1
  <2> QED
    BY <1>1, <2>1 DEF PushSafe
<1>4. \A p \in Request : req'[p] = req[p] \/ PushSafe(p)'
  <2> TAKE p \in Request
  <2>1. CASE p = q
    BY <1>3, <2>1
  <2>2. CASE p # q
    BY <2>2 DEF TypeOK
  <2> QED
    BY <2>1, <2>2
<1> QED
  BY <1>2, <1>4, PushFrom

\* A request that gives up, or goes on to what pushes nothing, leaves things safe.
LEMMA IdlesDue ==
    ASSUME TypeOK, TypeOK', Shape, PushAhead, NEW q \in Request, NEW s,
           req' = [req EXCEPT ![q] = s],
           s.way = "pull" \/ (s.at \notin {"list", "push", "link", "insert"} /\ s.made = {}),
           UNCHANGED <<kind, log, stamp, late, orphan>>, high'["push"] = high["push"],
           cursor'["push"] \subseteq cursor["push"],
           failed \ Record \subseteq failed', kind = "openfn" => failed \subseteq failed',
           \A x \in Submission : outside[x] > 0 => outside'[x] > 0
    PROVE  PushAhead'
<1>1. outside' \in [Submission -> 0 .. 2] /\ req'[q] = s
  BY DEF TypeOK
<1>2. \A x \in log : Due(x)' => Due(x)
  BY <1>1, DueShrinks
<1>3. PushSafe(q)'
  BY <1>1 DEF PushSafe
<1>4. \A p \in Request : req'[p] = req[p] \/ PushSafe(p)'
  <2> TAKE p \in Request
  <2>1. CASE p = q
    BY <1>3, <2>1
  <2>2. CASE p # q
    BY <2>2 DEF TypeOK
  <2> QED
    BY <2>1, <2>2
<1> QED
  BY <1>2, <1>4, PushFrom

\* A request that ends leaves what is due to the next.
LEMMA LeavesDue ==
    ASSUME TypeOK, TypeOK', Shape, PushAhead, NEW q \in Request, Leave(q),
           UNCHANGED <<kind, log, stamp, late, orphan, failed, high, cursor>>,
           \A x \in Submission : outside[x] > 0 => outside'[x] > 0
    PROVE  PushAhead'
<1>1. Idle.at = "idle" /\ Idle.made = {} /\ req' = [req EXCEPT ![q] = Idle]
  BY DEF Idle, Leave
<1>2. cursor'["push"] \subseteq cursor["push"] /\ high'["push"] = high["push"]
      /\ failed \ Record \subseteq failed' /\ (kind = "openfn" => failed \subseteq failed')
  OBVIOUS
<1> QED
  BY <1>1, <1>2, IdlesDue

\* What was sent stays so, and what is sent now is.
LEMMA SendKeeps ==
    ASSUME TypeOK, NEW S, Send(S)
    PROVE  /\ \A x \in Submission : outside[x] > 0 => outside'[x] > 0
           /\ \A x \in Submission \cap S : outside'[x] > 0
<1>1. ASSUME NEW x \in Submission
      PROVE  (outside[x] > 0 => outside'[x] > 0) /\ (x \in S => outside'[x] > 0)
  <2>1. outside[x] \in 0 .. 2 /\ More(outside[x]) \in 1 .. 2
    BY MoreType DEF TypeOK
  <2>2. outside'[x] = IF x \in S THEN More(outside[x]) ELSE outside[x]
    BY DEF Send
  <2> QED
    BY <2>1, <2>2
<1> QED
  BY <1>1

\* The request moves the push cursor, to the youngest of what it sent.
LEMMA RecordsDue ==
    ASSUME TypeOK, TypeOK', Shape, PushAhead, NEW q \in Request, InsertCursor(q)
    PROVE  PushAhead'
<1>0. /\ req[q].way \in Way /\ Pushing(q) /\ PushSafe(q) /\ q \in DOMAIN req
      /\ req[q].at = "insert"
  BY DEF TypeOK, Shape, PushAhead, InsertCursor
<1>k. UNCHANGED <<kind, log, stamp, late, orphan, failed, outside>>
  BY DEF InsertCursor, env, dataVars, gaps
<1>1. CASE req[q].way = "pull"
  <2>1. Leave(q) /\ UNCHANGED <<high["push"], cursor["push"]>>
    BY <1>1 DEF InsertCursor, TypeOK, Way
  <2>2. Idle.at = "idle" /\ Idle.made = {} /\ req' = [req EXCEPT ![q] = Idle]
    BY <2>1 DEF Idle, Leave
  <2>3. /\ cursor'["push"] \subseteq cursor["push"] /\ high'["push"] = high["push"]
        /\ failed \ Record \subseteq failed' /\ (kind = "openfn" => failed \subseteq failed')
        /\ \A x \in Submission : outside[x] > 0 => outside'[x] > 0
    BY <1>k, <2>1
  <2> QED
    BY <1>k, <2>2, <2>3, IdlesDue
<1>2. CASE req[q].way = "push"
  <2> DEFINE new == Latest(Stamps(req[q].made))
             next == Latest({high["push"], new})
  <2>1. /\ cursor'["push"] = cursor["push"] \cup {new}
        /\ high'["push"] = next
    BY <1>2 DEF InsertCursor, NewCursor, TypeOK, Way
  <2>2. /\ new \in Time /\ \A y \in req[q].made : stamp[y] <= new
        /\ new > 0 => \E y \in req[q].made : new = stamp[y]
    <3>1. req[q].made \in SUBSET Submission
      BY DEF TypeOK
    <3>2. Stamps(req[q].made) \in SUBSET Time
      BY <3>1, StampsType
    <3> QED
      BY <3>2, LatestOf DEF Stamps
  <2>s. \A x \in Submission : stamp[x] \in Nat
    BY Sizes DEF TypeOK, Time
  <2>o. \A x \in Submission : outside[x] \in 0 .. 2
    BY DEF TypeOK
  <2>3. \A x \in Submission : stamp[x] \in Nat /\ outside[x] \in Nat
    BY <2>s, <2>o
  <2> HIDE DEF new
  <2>4. ASSUME NEW x \in log, Due(x)
        PROVE  stamp[x] > new
    <3>1. x \in Submission /\ stamp[x] > 0
      BY DEF TypeOK, Shape, Logged
    <3>2. ASSUME NEW y \in req[q].made
          PROVE  stamp[y] < stamp[x]
      <4>1. y \in Submission /\ y \in log /\ y \in Hand(q)
        BY <1>0, <1>2 DEF Pushing, TypeOK, Hand
      <4>2. CASE x \in req[q].todo
        <5>1. kind = "openfn"
          BY <1>0, <1>2, <4>2 DEF Pushing
        <5>2. outside[y] > 0 /\ stamp[y] <= stamp[x]
          BY <1>0, <1>2, <4>2, <5>1 DEF PushSafe
        <5>3. stamp[y] # stamp[x]
          BY <2>3, <2>4, <4>1, <5>2 DEF Due
        <5> QED
          BY <2>3, <3>1, <4>1, <5>2, <5>3
      <4>3. CASE x \notin req[q].todo
        BY <1>0, <1>2, <2>4, <4>1, <4>3 DEF PushSafe
      <4> QED
        BY <4>2, <4>3
    <3> QED
      BY <2>2, <2>3, <3>1, <3>2, Sizes DEF Time
  <2>5. high["push"] \in Time /\ {high["push"], new} \in SUBSET Time
    BY <2>2 DEF TypeOK, Way
  <2>6. /\ next \in Time /\ high["push"] <= next /\ new <= next
        /\ next = high["push"] \/ next = new \/ next = 0
    <3> DEFINE T == {high["push"], new}
    <3>1. T \in SUBSET Time /\ high["push"] \in T /\ new \in T
      BY <2>5
    <3>2. \A t \in T : t = high["push"] \/ t = new
      OBVIOUS
    <3> HIDE DEF T
    <3>3. Latest(T) \in Time /\ (\A t \in T : t <= Latest(T)) /\ (Latest(T) > 0 => Latest(T) \in T)
      BY <3>1, LatestOf
    <3>4. Latest(T) = 0 \/ Latest(T) > 0
      BY <3>3, Sizes DEF Time
    <3>5. next = Latest(T)
      BY DEF T
    <3> HIDE DEF next
    <3> QED
      BY <3>1, <3>2, <3>3, <3>4, <3>5
  <2> HIDE DEF next
  <2>d. \A x \in log : Due(x)' <=> Due(x)
    BY <1>k DEF Due, Pushed
  <2>7. \A x \in log' : Due(x)' => stamp'[x] > high'["push"]
    BY <1>k, <2>1, <2>3, <2>4, <2>5, <2>6, <2>d DEF PushAhead, TypeOK, Shape, Logged
  <2>8. \A c \in cursor'["push"] : c <= high'["push"]
    <3>1. \A c \in cursor["push"] : c \in Nat /\ c <= high["push"]
      BY Sizes DEF PushAhead, TypeOK, Way, Time
    <3> QED
      BY <2>1, <2>5, <2>6, <3>1, Sizes DEF Time
  <2>9. PushSafe(q)'
    <3>1. req' = [req EXCEPT ![q].at = "push", ![q].made = {}, ![q].home = NoEvent]
      BY <1>2 DEF InsertCursor
    <3>2. req'[q] = [req[q] EXCEPT !.at = "push", !.made = {}, !.home = NoEvent]
      BY <1>0, <3>1
    <3>3. req[q] \in Session
      BY DEF TypeOK, Session
    <3>4. req'[q].at = "push" /\ req'[q].made = {} /\ req'[q].home = NoEvent /\ req'[q].todo = req[q].todo
      BY <3>2, <3>3 DEF Session
    <3>5. Hand(q)' \subseteq Hand(q)
      BY <3>4, Levels DEF Hand
    <3> QED
      BY <1>0, <1>2, <1>k, <2>d, <3>4, <3>5 DEF PushSafe
  <2>10. ASSUME NEW p \in Request, p # q
         PROVE  PushSafe(p)'
    <3>1. req'[p] = req[p] /\ PushSafe(p) /\ Hand(p)' = Hand(p)
      BY <1>2, <2>10 DEF InsertCursor, TypeOK, PushAhead, Hand
    <3>2. req[p].since \in Nat
      BY Sizes DEF TypeOK, Time
    <3> QED
      BY <1>k, <2>1, <2>5, <2>6, <2>d, <3>1, <3>2, Sizes DEF PushSafe, Time
  <2> QED
    BY <2>7, <2>8, <2>9, <2>10 DEF PushAhead
<1> QED
  BY <1>0, <1>1, <1>2 DEF Way

\* The steps that both adapters share keep PushAhead,
LEMMA RequestsDue ==
    ASSUME TypeOK, TypeOK', Shape, PushAhead, NEW q \in Request,
           \/ Begin(q) \/ Login(q) \/ ReadCursor(q) \/ DeleteCursor(q) \/ EndPull(q) \/ StoreFails(q)
           \/ FetchEvents(q) \/ FetchGroups(q) \/ FetchPersons(q) \/ LookUp(q) \/ SubmitRecord(q)
    PROVE  PushAhead'
<1>r. /\ req[q] \in Session /\ Pushing(q) /\ Pulling(q) /\ req[q].way \in Way
      /\ q \in DOMAIN req /\ PushSafe(q)
  BY DEF TypeOK, Session, Shape, PushAhead
<1> USE DEF env, dataVars, gaps, calm
<1>k. /\ UNCHANGED <<kind, log, stamp, late, orphan, high>>
      /\ \A x \in Submission : outside[x] > 0 => outside'[x] > 0
  BY DEF Begin, Login, ReadCursor, DeleteCursor, EndPull, StoreFails, FetchEvents,
         FetchGroups, FetchPersons, LookUp, SubmitRecord
<1>c. /\ cursor'["push"] \subseteq cursor["push"] /\ high'["push"] = high["push"]
  <2>1. CASE DeleteCursor(q)
    BY <1>k, <2>1 DEF DeleteCursor, TypeOK, Way
  <2> QED
    BY <1>k, <2>1 DEF Begin, Login, ReadCursor, EndPull, StoreFails, FetchEvents,
         FetchGroups, FetchPersons, LookUp, SubmitRecord
<1>f. failed \ Record \subseteq failed' /\ (kind = "openfn" => failed \subseteq failed')
  <2>1. CASE SubmitRecord(q)
    <3>1. PICK r \in req[q].todo : SubmitRecord(q)!2!(r)
      BY <2>1 DEF SubmitRecord
    <3>2. req[q].way = "pull" /\ kind = "openspp"
      BY <1>r, <2>1 DEF SubmitRecord, Pushing, Way
    <3>3. r \in Record
      BY <1>r, <3>2 DEF Pulling
    <3> QED
      BY <3>1, <3>2, <3>3
  <2> QED
    BY <2>1 DEF Begin, Login, ReadCursor, DeleteCursor, EndPull, StoreFails, FetchEvents,
         FetchGroups, FetchPersons, LookUp
<1>l. CASE Leave(q)
  <2>1. Idle.at = "idle" /\ Idle.made = {} /\ req' = [req EXCEPT ![q] = Idle]
    BY <1>l DEF Idle, Leave
  <2> QED
    BY <1>k, <1>c, <1>f, <2>1, IdlesDue
<1>1. CASE Begin(q) \/ Login(q)
  <2>1. PICK at \in {"login", "read"} : Leave(q) \/ req' = [req EXCEPT ![q].at = at]
    BY <1>1 DEF Begin, Login
  <2>2. CASE req' = [req EXCEPT ![q].at = at]
    <3> DEFINE s == [req[q] EXCEPT !.at = at]
    <3>1. req' = [req EXCEPT ![q] = s] /\ s.at = at /\ s.made = req[q].made
      BY <1>r, <2>2 DEF Session
    <3>2. req[q].at \in {"idle", "login"} /\ req[q].way = "push" /\ req[q].made = {}
      BY <1>1, <1>r DEF Begin, Login, Pulling, Pushing, Way
    <3> HIDE DEF s
    <3> QED
      BY <1>k, <1>c, <1>f, <3>1, <3>2, IdlesDue
  <2> QED
    BY <1>l, <2>1, <2>2
<1>2. CASE ReadCursor(q)
  <2>1. CASE req[q].at = "read"
    <3> DEFINE s == [req[q] EXCEPT !.since = Stored("push"), !.at = "list"]
    <3>1. req' = [req EXCEPT ![q].since = Stored("push"), ![q].at = "list"]
      BY <1>2, <2>1 DEF ReadCursor, PushEnded
    <3>0. req' = [req EXCEPT ![q] = s]
      BY <1>r, <3>1
    <3>2. req'[q] = s /\ \A p \in Request \ {q} : req'[p] = req[p]
      BY <1>r, <3>0 DEF TypeOK
    <3>3. s.at = "list" /\ s.made = req[q].made /\ s.since = Stored("push")
      BY <1>r DEF Session
    <3> HIDE DEF s
    <3>4. req[q].way = "push" /\ req[q].made = {}
      BY <2>1, <1>r DEF Pulling, Pushing, Way
    <3>5. cursor["push"] \in SUBSET Time /\ high["push"] \in Time
      BY DEF TypeOK, Way
    <3>6. Stored("push") <= high["push"]
      BY <3>5, LatestOf, Sizes DEF Stored, PushAhead, Time
    <3>7. PushSafe(q)'
      BY <1>k, <3>2, <3>3, <3>4, <3>6 DEF PushSafe
    <3>8. \A p \in Request : req'[p] = req[p] \/ PushSafe(p)'
      BY <3>2, <3>7
    <3>9. \A x \in log : Due(x)' => Due(x)
      BY <1>2 DEF ReadCursor, Due, Pushed
    <3> QED
      BY <1>k, <1>c, <3>8, <3>9, PushFrom
  <2>2. CASE req[q].at # "read"
    <3> DEFINE s == [req[q] EXCEPT !.since = Stored("pull"), !.way = "pull", !.at = "list"]
    <3>1. /\ PushEnded(q)
          /\ req' = [req EXCEPT ![q].since = Stored("pull"), ![q].way = "pull", ![q].at = "list"]
      BY <1>2, <2>2 DEF ReadCursor
    <3>2. req' = [req EXCEPT ![q] = s] /\ s.way = "pull"
      BY <1>r, <3>1 DEF Session
    <3> HIDE DEF s
    <3> QED
      BY <1>k, <1>c, <1>f, <3>2, IdlesDue
  <2> QED
    BY <2>1, <2>2
<1>3. CASE DeleteCursor(q)
  <2> DEFINE s == [req[q] EXCEPT !.at = "insert"]
  <2>1. req'[q] = s /\ \A p \in Request \ {q} : req'[p] = req[p]
    BY <1>3, <1>r DEF DeleteCursor
  <2>2. /\ req'[q].at = "insert" /\ req'[q].made = req[q].made /\ req'[q].way = req[q].way
        /\ req'[q].todo = req[q].todo /\ req'[q].home = req[q].home
    BY <1>r, <2>1 DEF Session
  <2>3. \A x \in log : Due(x)' => Due(x)
    BY <1>3 DEF DeleteCursor, Due, Pushed
  <2>4. req[q].way = "push" => req[q].at = "push"
    BY <1>3, <1>r DEF DeleteCursor, Moves, Pushing
  <2>5. Hand(q)' = Hand(q)
    BY <2>2 DEF Hand
  <2>6. outside' = outside
    BY <1>3 DEF DeleteCursor
  <2>7. PushSafe(q)'
    BY <1>k, <1>r, <2>2, <2>3, <2>4, <2>5, <2>6 DEF PushSafe
  <2>8. \A p \in Request : req'[p] = req[p] \/ PushSafe(p)'
    BY <2>1, <2>7
  <2> QED
    BY <1>k, <1>c, <2>3, <2>8, PushFrom
<1>4. CASE EndPull(q) \/ StoreFails(q)
  BY <1>4, <1>l DEF EndPull, StoreFails
<1>5. CASE FetchEvents(q) \/ FetchGroups(q) \/ FetchPersons(q) \/ LookUp(q) \/ SubmitRecord(q)
  <2>1. req[q].way = "pull"
    BY <1>5, <1>r DEF FetchEvents, FetchGroups, FetchPersons, LookUp, SubmitRecord, Pushing, Way
  <2>2. Leave(q) \/ (req'[q].way = "pull" /\ \A p \in Request \ {q} : req'[p] = req[p])
    <3>1. CASE FetchEvents(q)
      BY <3>1, <1>r, <2>1 DEF FetchEvents, Session, TypeOK
    <3>2. CASE FetchGroups(q) \/ FetchPersons(q)
      BY <3>2, <1>r, <2>1 DEF FetchGroups, FetchPersons, Session, TypeOK
    <3>3. CASE LookUp(q)
      BY <3>3, <1>r, <2>1 DEF LookUp, Session, TypeOK
    <3>4. CASE SubmitRecord(q)
      BY <3>4, <1>r, <2>1 DEF SubmitRecord, Session, TypeOK
    <3> QED
      BY <1>5, <3>1, <3>2, <3>3, <3>4
  <2>3. CASE req'[q].way = "pull" /\ \A p \in Request \ {q} : req'[p] = req[p]
    <3>1. req' = [req EXCEPT ![q] = req'[q]]
      BY <2>3 DEF TypeOK
    <3> QED
      BY <1>k, <1>c, <1>f, <2>3, <3>1, IdlesDue
  <2> QED
    BY <1>l, <2>2, <2>3
<1> QED
  BY <1>1, <1>2, <1>3, <1>4, <1>5

\* as do those that send,
LEMMA SendersDue ==
    ASSUME TypeOK, TypeOK', Shape, PushAhead, NEW q \in Request,
           PushBatch(q) \/ CreateHousehold(q) \/ LinkHousehold(q) \/ CreateIndividual(q)
    PROVE  PushAhead'
<1>r. /\ req[q] \in Session /\ Pushing(q) /\ Pulling(q) /\ req[q].way = "push"
      /\ q \in DOMAIN req /\ req[q].at \in {"push", "link"}
  BY DEF TypeOK, Session, Shape, Pulling, Pushing, Way, PushBatch, CreateHousehold, LinkHousehold,
         CreateIndividual
<1> USE DEF env, dataVars, gaps, calm
<1>k. UNCHANGED <<kind, log, stamp, high, cursor, late, orphan>> /\ failed \subseteq failed'
  BY DEF PushBatch, CreateHousehold, LinkHousehold, CreateIndividual
<1>1. CASE PushBatch(q)
  <2>1. PICK B \in Batches(req[q].todo) :
           \/ Send(B) /\ req' = [req EXCEPT ![q].todo = @ \ B, ![q].made = B]
           \/ Leave(q) /\ (Send(B) \/ UNCHANGED outside)
    BY <1>1 DEF PushBatch
  <2>2. \A x \in Submission : outside[x] > 0 => outside'[x] > 0
    BY <2>1, SendKeeps
  <2>3. CASE Leave(q)
    BY <1>1, <1>k, <2>2, <2>3, LeavesDue DEF PushBatch
  <2>4. CASE Send(B) /\ req' = [req EXCEPT ![q].todo = @ \ B, ![q].made = B]
    <3> DEFINE s == [req[q] EXCEPT !.todo = @ \ B, !.made = B]
    <3>1. req' = [req EXCEPT ![q] = s] /\ req'[q] = s
      BY <1>r, <2>4
    <3>2. /\ s.at = req[q].at /\ s.way = "push" /\ s.todo = req[q].todo \ B /\ s.made = B
          /\ s.home = req[q].home
      BY <1>r DEF Session
    <3> HIDE DEF s
    <3>3. B \subseteq req[q].todo /\ B \subseteq Submission
          /\ \A y \in B, z \in req[q].todo \ B : stamp[y] <= stamp[z]
      BY DEF Batches, TypeOK
    <3>4. \A x \in B : outside'[x] > 0
      BY <2>4, <3>3, SendKeeps
    <3>5. Hand(q)' \subseteq Hand(q)
      BY <3>1, <3>2, <3>3 DEF Hand
    <3>6. \A x \in log : Due(x)' => x \notin req[q].todo \ s.todo
      BY <3>2, <3>4 DEF Due
    <3> QED
      BY <1>1, <1>r, <1>k, <2>2, <3>1, <3>2, <3>3, <3>4, <3>5, <3>6, SendsDue
  <2> QED
    BY <2>1, <2>3, <2>4
<1>2. CASE CreateHousehold(q)
  <2>0. kind = "openspp" /\ req[q].at = "push"
    BY <1>2 DEF CreateHousehold
  <2>1. PICK h \in req[q].todo \cap Household : CreateHousehold(q)!2!(h)
    BY <1>2 DEF CreateHousehold
  <2>2. \A x \in Submission : outside[x] > 0 => outside'[x] > 0
    BY <2>1, SendKeeps DEF Fails
  <2>h. h \in Submission /\ h # NoEvent
    BY Levels DEF Submission, Event
  <2>3. CASE Send({h}) /\ req' = [req EXCEPT ![q].home = h, ![q].todo = @ \ {h}, ![q].at = "link"]
    <3> DEFINE s == [req[q] EXCEPT !.home = h, !.todo = @ \ {h}, !.at = "link"]
    <3>1. req' = [req EXCEPT ![q] = s] /\ req'[q] = s
      BY <1>r, <2>3
    <3>2. /\ s.at = "link" /\ s.way = "push" /\ s.todo = req[q].todo \ {h} /\ s.made = req[q].made
          /\ s.home = h
      BY <1>r DEF Session
    <3> HIDE DEF s
    <3>4. outside'[h] > 0
      BY <2>3, <2>h, SendKeeps
    <3>5. Hand(q)' \subseteq Hand(q)
      BY <3>1, <3>2 DEF Hand
    <3>6. \A x \in log : Due(x)' => x \notin req[q].todo \ s.todo
      BY <3>2, <3>4 DEF Due
    <3> QED
      BY <2>0, <1>r, <1>k, <2>2, <3>1, <3>2, <3>5, <3>6, SendsDue
  <2>4. CASE /\ req' = [req EXCEPT ![q].todo = @ \ ({h} \cup Members(q, h))]
             /\ failed' = failed \cup {h} \cup Members(q, h)
    <3> DEFINE gone == {h} \cup Members(q, h)
               s == [req[q] EXCEPT !.todo = @ \ gone]
    <3>1. req' = [req EXCEPT ![q] = s] /\ req'[q] = s
      BY <1>r, <2>4
    <3>f. failed' = failed \cup gone
      BY <2>4
    <3> HIDE DEF gone
    <3>2. /\ s.at = "push" /\ s.way = "push" /\ s.todo = req[q].todo \ gone /\ s.made = req[q].made
          /\ s.home = req[q].home
      BY <1>r, <2>0 DEF Session
    <3> HIDE DEF s
    <3>5. Hand(q)' \subseteq Hand(q)
      BY <3>1, <3>2 DEF Hand
    <3>6. \A x \in log : Due(x)' => x \notin req[q].todo \ s.todo
      BY <3>2, <3>f DEF Due
    <3> QED
      BY <2>0, <1>r, <1>k, <2>2, <3>1, <3>2, <3>5, <3>6, SendsDue
  <2> QED
    BY <2>1, <2>3, <2>4
<1>3. CASE LinkHousehold(q)
  <2>0. kind = "openspp" /\ req[q].at = "link" /\ outside' = outside
    BY <1>r, <1>3 DEF LinkHousehold, Pushing
  <2>2. \A x \in Submission : outside[x] > 0 => outside'[x] > 0
    BY <2>0
  <2> DEFINE h == req[q].home
             gone == Members(q, h)
  <2>3. CASE req' = [req EXCEPT ![q].made = @ \cup {h}, ![q].at = "push"]
    <3> DEFINE s == [req[q] EXCEPT !.made = @ \cup {h}, !.at = "push"]
    <3>1. req' = [req EXCEPT ![q] = s] /\ req'[q] = s
      BY <1>r, <2>3
    <3>2. /\ s.at = "push" /\ s.way = "push" /\ s.todo = req[q].todo
          /\ s.made = req[q].made \cup {h} /\ s.home = h
      BY <1>r DEF Session
    <3> HIDE DEF s
    <3>5. Hand(q)' \subseteq Hand(q)
      BY <3>1, <3>2 DEF Hand
    <3>6. \A x \in log : Due(x)' => x \notin req[q].todo \ s.todo
      BY <3>2
    <3> QED
      BY <2>0, <1>r, <1>k, <2>2, <3>1, <3>2, <3>5, <3>6, SendsDue
  <2>4. CASE /\ req' = [req EXCEPT ![q].todo = @ \ gone, ![q].home = NoEvent, ![q].at = "push"]
             /\ failed' = failed \cup {h} \cup gone
    <3> DEFINE s == [req[q] EXCEPT !.todo = @ \ gone, !.home = NoEvent, !.at = "push"]
    <3> HIDE DEF gone
    <3>1. req' = [req EXCEPT ![q] = s] /\ req'[q] = s
      BY <1>r, <2>4
    <3>2. /\ s.at = "push" /\ s.way = "push" /\ s.todo = req[q].todo \ gone /\ s.made = req[q].made
          /\ s.home = NoEvent
      BY <1>r DEF Session
    <3> HIDE DEF s
    <3>5. Hand(q)' \subseteq Hand(q)
      BY <3>1, <3>2, Levels DEF Hand
    <3>6. \A x \in log : Due(x)' => x \notin req[q].todo \ s.todo
      BY <3>2, <2>4 DEF Due
    <3> QED
      BY <2>0, <1>r, <1>k, <2>2, <3>1, <3>2, <3>5, <3>6, SendsDue
  <2> QED
    BY <1>3, <2>3, <2>4 DEF LinkHousehold
<1>4. CASE CreateIndividual(q)
  <2>0. kind = "openspp" /\ req[q].at = "push"
    BY <1>4 DEF CreateIndividual
  <2>1. PICK i \in Members(q, req[q].home) : CreateIndividual(q)!2!(i)
    BY <1>4 DEF CreateIndividual
  <2>i. i \in Submission /\ i \in req[q].todo
    BY DEF Submission, Event, Members
  <2>2. \A x \in Submission : outside[x] > 0 => outside'[x] > 0
    BY <2>1, SendKeeps DEF Fails
  <2>3. CASE Send({i}) /\ req' = [req EXCEPT ![q].todo = @ \ {i}, ![q].made = @ \cup {i}]
    <3> DEFINE s == [req[q] EXCEPT !.todo = @ \ {i}, !.made = @ \cup {i}]
    <3>1. req' = [req EXCEPT ![q] = s] /\ req'[q] = s
      BY <1>r, <2>3
    <3>2. /\ s.at = "push" /\ s.way = "push" /\ s.todo = req[q].todo \ {i}
          /\ s.made = req[q].made \cup {i} /\ s.home = req[q].home
      BY <1>r, <2>0 DEF Session
    <3> HIDE DEF s
    <3>4. outside'[i] > 0
      BY <2>3, <2>i, SendKeeps
    <3>5. Hand(q)' \subseteq Hand(q)
      BY <2>i, <3>1, <3>2 DEF Hand
    <3>6. \A x \in log : Due(x)' => x \notin req[q].todo \ s.todo
      BY <3>2, <3>4 DEF Due
    <3> QED
      BY <2>0, <1>r, <1>k, <2>2, <3>1, <3>2, <3>5, <3>6, SendsDue
  <2>4. CASE req' = [req EXCEPT ![q].todo = @ \ {i}] /\ failed' = failed \cup {i}
    <3> DEFINE s == [req[q] EXCEPT !.todo = @ \ {i}]
    <3>1. req' = [req EXCEPT ![q] = s] /\ req'[q] = s
      BY <1>r, <2>4
    <3>2. /\ s.at = "push" /\ s.way = "push" /\ s.todo = req[q].todo \ {i} /\ s.made = req[q].made
          /\ s.home = req[q].home
      BY <1>r, <2>0 DEF Session
    <3> HIDE DEF s
    <3>5. Hand(q)' \subseteq Hand(q)
      BY <3>1, <3>2 DEF Hand
    <3>6. \A x \in log : Due(x)' => x \notin req[q].todo \ s.todo
      BY <3>2, <2>4 DEF Due
    <3> QED
      BY <2>0, <1>r, <1>k, <2>2, <3>1, <3>2, <3>5, <3>6, SendsDue
  <2> QED
    BY <2>1, <2>3, <2>4
<1> QED
  BY <1>1, <1>2, <1>3, <1>4

\* A record that is pulled joins the log, as an event of a device does.
LEMMA JoinersDue ==
    ASSUME TypeOK, TypeOK', Shape, PushAhead,
           \/ \E x \in Event, t \in 1 .. MaxClock : Arrive(x, t)
           \/ \E q \in Request : SubmitEvent(q)
    PROVE  PushAhead'
<1>1. ASSUME NEW x \in Event, NEW t \in 1 .. MaxClock, Arrive(x, t)
      PROVE  PushAhead'
  <2>1. x \in Submission \ log /\ t \in Time
    BY <1>1, Sizes DEF Submission, Time, Arrive
  <2>2. /\ log' = log \cup {x} /\ stamp' = [stamp EXCEPT ![x] = t]
        /\ late' = IF t <= PushedUpTo THEN late \cup {x} ELSE late
        /\ UNCHANGED <<kind, outside, failed, orphan, high, cursor>>
        /\ \A p \in Request : req'[p] = req[p]
    BY <1>1 DEF Arrive, env
  <2> QED
    BY <2>1, <2>2, PushJoin
<1>2. ASSUME NEW q \in Request, SubmitEvent(q)
      PROVE  PushAhead'
  <2>1. PICK r \in req[q].todo : SubmitEvent(q)!2!(r)
    BY <1>2 DEF SubmitEvent
  <2>r. /\ req[q].way = "pull" /\ r \in Record /\ req[q].got[r] \in Time /\ req[q] \in Session
        /\ q \in DOMAIN req
    <3>1. Pushing(q) /\ Pulling(q) /\ req[q].way \in Way /\ req[q].got \in [Record -> Time]
      BY DEF Shape, TypeOK
    <3>2. req[q].way = "pull"
      BY <1>2, <3>1 DEF SubmitEvent, Pushing, Way
    <3> QED
      BY <3>1, <3>2 DEF Pulling, TypeOK, Session
  <2>k. UNCHANGED <<kind, cursor, outside, failed, orphan, high>>
    BY <1>2 DEF SubmitEvent, env
  <2>2. CASE r \in log
    <3>1. Leave(q) /\ UNCHANGED <<log, stamp, late>>
      BY <2>1, <2>2 DEF dataVars
    <3> QED
      BY <2>k, <3>1, LeavesDue
  <2>3. CASE r \notin log
    <3>1. /\ log' = log \cup {r} /\ stamp' = [stamp EXCEPT ![r] = req[q].got[r]]
          /\ late' = IF req[q].got[r] <= PushedUpTo THEN late \cup {r} ELSE late
      BY <2>1, <2>3
    <3>2. r \in Submission \ log
      BY <2>r, <2>3 DEF Submission
    <3>3. Leave(q) \/ req' = [req EXCEPT ![q].todo = @ \ {r}]
      BY <2>1
    <3>4. \A p \in Request : req'[p] = req[p] \/ req'[p].way = "pull" \/ req'[p] = Idle
      BY <2>r, <3>3 DEF Leave, TypeOK, Session
    <3> QED
      BY <2>r, <2>k, <3>1, <3>2, <3>4, PushJoin
  <2> QED
    BY <2>2, <2>3
<1> QED
  BY <1>1, <1>2

\* and so does every step.
LEMMA PushNext ==
    ASSUME TypeOK, TypeOK', Shape, PushAhead, [Next]_vars
    PROVE  PushAhead'
<1>1. ASSUME \/ UNCHANGED vars \/ Tick \/ \E r \in Record : Write(r)
      PROVE  PushAhead'
  <2>1. UNCHANGED <<kind, log, stamp, late, orphan, failed, high, cursor, outside, req>>
    BY <1>1 DEF vars, env, dataVars, gaps, Tick, Write
  <2>2. \A x \in log : Due(x)' => Due(x)
    BY <2>1 DEF Due, Pushed
  <2> QED
    BY <2>1, <2>2, PushFrom
<1>2. CASE Restart
  <2>1. /\ UNCHANGED <<kind, log, stamp, late, orphan, failed, high, cursor, outside>>
        /\ \A p \in Request : req'[p] = Idle
    BY <1>2 DEF Restart, env, dataVars, gaps
  <2>2. \A x \in log : Due(x)' => Due(x)
    BY <2>1 DEF Due, Pushed
  <2>3. \A p \in Request : PushSafe(p)'
    BY <2>1 DEF PushSafe, Idle
  <2> QED
    BY <2>1, <2>2, <2>3, PushFrom
<1> QED
  BY <1>1, <1>2, ListsDue, RecordsDue, RequestsDue, SendersDue, JoinersDue DEF Next, Step

-----------------------------------------------------------------------------
(* The pull cursor.                                                        *)

\* The start: nothing is owed.
LEMMA PullInit == ASSUME Init PROVE PullAhead
BY DEF Init, PullAhead, PullSafe, Owed, Way, Idle

\* A new cursor passes nothing by that is still owed.
LEMMA PulledUpToBound ==
    ASSUME TypeOK
    PROVE  /\ PulledUpTo \in Time /\ high["pull"] <= PulledUpTo
           /\ \A q \in Request : \A r \in Record : req[q].got[r] <= PulledUpTo
<1> DEFINE dates == UNION {Range(req[q].got) : q \in Request}
<1>1. \A q \in Request : req[q].got \in [Record -> Time]
  BY DEF TypeOK
<1>2. dates \in SUBSET Time /\ high["pull"] \in Time
  BY <1>1 DEF TypeOK, Way, Range
<1>3. PulledUpTo = Latest({high["pull"]} \cup dates)
  BY DEF PulledUpTo
<1>4. ASSUME NEW q \in Request, NEW r \in Record
      PROVE  req[q].got[r] \in dates
  BY <1>1 DEF Range
<1> HIDE DEF dates
<1>5. {high["pull"]} \cup dates \in SUBSET Time
  BY <1>2
<1> QED
  BY <1>3, <1>4, <1>5, LatestOf

\* A step in which no record is written and no pull cursor moves.
LEMMA PullFrom ==
    ASSUME TypeOK, PullAhead, written' = written, high'["pull"] = high["pull"],
           cursor'["pull"] \subseteq cursor["pull"],
           \A r \in Record : Owed(r)' => Owed(r),
           \A p \in Request : req'[p] = req[p] \/ PullSafe(p)'
    PROVE  PullAhead'
<1>1. ASSUME NEW p \in Request, req'[p] = req[p]
      PROVE  PullSafe(p)'
  <2>1. PullSafe(p)
    BY DEF PullAhead
  <2> QED
    BY <1>1, <2>1 DEF PullSafe
<1> QED
  BY <1>1 DEF PullAhead

\* The other requests stay where they are.
LEMMA PullStep ==
    ASSUME TypeOK, PullAhead, written' = written, high'["pull"] = high["pull"],
           cursor'["pull"] \subseteq cursor["pull"],
           \A r \in Record : Owed(r)' => Owed(r),
           NEW q \in Request, NEW s, req' = [req EXCEPT ![q] = s], PullSafe(q)'
    PROVE  PullAhead'
<1>1. ASSUME NEW p \in Request
      PROVE  req'[p] = req[p] \/ PullSafe(p)'
  <2>1. CASE p = q
    BY <2>1
  <2>2. CASE p # q
    BY <2>2 DEF TypeOK
  <2> QED
    BY <2>1, <2>2
<1> QED
  BY <1>1, PullFrom

\* A request that ends leaves what is owed to the next.
LEMMA LeavesOwed ==
    ASSUME TypeOK, PullAhead, UNCHANGED <<written, high, cursor>>,
           \A r \in Record : Owed(r)' => Owed(r),
           NEW q \in Request, Leave(q)
    PROVE  PullAhead'
<1>1. req' = [req EXCEPT ![q] = Idle] /\ req'[q] = Idle /\ Idle.way = "push"
  BY DEF Leave, Idle, TypeOK
<1>2. PullSafe(q)'
  BY <1>1 DEF PullSafe
<1>3. high'["pull"] = high["pull"] /\ cursor'["pull"] \subseteq cursor["pull"]
  OBVIOUS
<1> QED
  BY <1>1, <1>2, <1>3, PullStep

\* What is fetched is everything owed.
LEMMA FetchesOwed ==
    ASSUME TypeOK, TypeOK', Shape, PullAhead, NEW q \in Request,
           FetchEvents(q) \/ FetchGroups(q) \/ FetchPersons(q)
    PROVE  PullAhead'
<1>r. /\ req[q] \in Session /\ q \in DOMAIN req /\ PullSafe(q) /\ req[q].way = "pull"
      /\ req[q].at \in {"list", "persons"}
  <2>1. Pushing(q) /\ PullSafe(q) /\ req[q].way \in Way
    BY DEF TypeOK, Session, Shape, PullAhead
  <2> QED
    BY <2>1 DEF TypeOK, Session, Pushing, Way, FetchEvents, FetchGroups, FetchPersons
<1>k. /\ UNCHANGED <<written, high, cursor, taken, failed, stale>> /\ slipped \subseteq slipped'
      /\ high'["pull"] = high["pull"] /\ cursor'["pull"] \subseteq cursor["pull"]
  BY DEF FetchEvents, FetchGroups, FetchPersons, env, dataVars, gaps
<1>o. \A r \in Record : Owed(r)' => Owed(r)
  BY <1>k DEF Owed
<1>l. CASE Leave(q)
  BY <1>k, <1>o, <1>l, LeavesOwed
<1>n. \A r \in Record : Owed(r) => written[r] > req[q].since
  <2>1. \A r \in Record : written[r] \in Nat
    BY Sizes DEF TypeOK, Time
  <2>2. high["pull"] \in Nat /\ req[q].since \in Nat /\ req[q].since <= high["pull"]
    BY <1>r, Sizes DEF TypeOK, Time, Way, PullSafe
  <2> QED
    BY <2>1, <2>2 DEF PullAhead
<1>1. CASE FetchEvents(q)
  <2> DEFINE news == {r \in Record : written[r] > req[q].since}
             got == [r \in Record |-> IF r \in news THEN written[r] ELSE 0]
             s == [req[q] EXCEPT !.todo = news, !.at = "apply", !.got = got]
  <2>1. Leave(q) \/ req' = [req EXCEPT ![q].todo = news, ![q].at = "apply", ![q].got = got]
    BY <1>1 DEF FetchEvents
  <2>2. \A r \in Record : Owed(r) => r \in news /\ got[r] = written[r]
    BY <1>n
  <2> HIDE DEF news, got
  <2>3. CASE req' = [req EXCEPT ![q].todo = news, ![q].at = "apply", ![q].got = got]
    <3>1. req' = [req EXCEPT ![q] = s] /\ req'[q] = s
      BY <1>r, <2>3
    <3>2. PullSafe(q)'
      BY <1>r, <1>k, <1>o, <2>2, <3>1 DEF PullSafe, Session
    <3> QED
      BY <1>k, <1>o, <3>1, <3>2, PullStep
  <2> QED
    BY <1>l, <2>1, <2>3
<1>2. CASE FetchGroups(q)
  <2> DEFINE got == With(q, News(q, Groups))
             s == [req[q] EXCEPT !.got = got, !.at = "persons"]
  <2>1. Leave(q) \/ req' = [req EXCEPT ![q].got = got, ![q].at = "persons"]
    BY <1>2 DEF FetchGroups
  <2> HIDE DEF got
  <2>2. CASE req' = [req EXCEPT ![q].got = got, ![q].at = "persons"]
    <3>1. req' = [req EXCEPT ![q] = s] /\ req'[q] = s
      BY <1>r, <2>2
    <3>2. PullSafe(q)'
      BY <1>r, <1>k, <3>1 DEF PullSafe, Session
    <3> QED
      BY <1>k, <1>o, <3>1, <3>2, PullStep
  <2> QED
    BY <1>l, <2>1, <2>2
<1>3. CASE FetchPersons(q)
  <2> DEFINE got == With(q, News(q, Persons))
             s == [req[q] EXCEPT !.got = got, !.at = "lookUp"]
  <2>1. \/ Leave(q)
        \/ /\ req' = [req EXCEPT ![q].got = got, ![q].at = "lookUp"]
           /\ slipped' = slipped \cup {g \in News(q, Groups) : req[q].got[g] # written[g]}
    BY <1>3 DEF FetchPersons
  <2>2. CASE /\ req' = [req EXCEPT ![q].got = got, ![q].at = "lookUp"]
             /\ slipped' = slipped \cup {g \in News(q, Groups) : req[q].got[g] # written[g]}
    <3>2. ASSUME NEW r \in Record, Owed(r)'
          PROVE  got[r] = written[r]
      <4>1. written[r] > req[q].since /\ r \notin slipped'
        BY <1>o, <1>n, <3>2 DEF Owed
      <4>2. CASE r \in Persons
        BY <4>1, <4>2 DEF With, News
      <4>3. CASE r \in Groups \ Persons
        BY <2>2, <4>1, <4>3 DEF With, News
      <4> QED
        BY <4>2, <4>3 DEF Record
    <3> HIDE DEF got
    <3>1. req' = [req EXCEPT ![q] = s] /\ req'[q] = s
      BY <1>r, <2>2
    <3>3. PullSafe(q)'
      BY <1>r, <1>k, <3>1, <3>2 DEF PullSafe, Session
    <3> QED
      BY <1>k, <1>o, <3>1, <3>3, PullStep
  <2> QED
    BY <1>l, <2>1, <2>2
<1> QED
  BY <1>1, <1>2, <1>3

\* What is submitted is not owed any more, in its latest version.
LEMMA SubmitsOwed ==
    ASSUME TypeOK, TypeOK', Shape, PullAhead, NEW q \in Request,
           LookUp(q) \/ SubmitEvent(q) \/ SubmitRecord(q)
    PROVE  PullAhead'
<1>r. /\ req[q] \in Session /\ q \in DOMAIN req /\ PullSafe(q) /\ req[q].way = "pull" /\ Pulling(q)
      /\ req[q].at \in {"lookUp", "apply"}
  <2>1. Pushing(q) /\ PullSafe(q) /\ Pulling(q) /\ req[q].way \in Way
    BY DEF TypeOK, Session, Shape, PullAhead
  <2> QED
    BY <2>1 DEF TypeOK, Session, Pushing, Way, LookUp, SubmitEvent, SubmitRecord
<1>k. /\ UNCHANGED <<written, high, cursor, slipped>>
      /\ high'["pull"] = high["pull"] /\ cursor'["pull"] \subseteq cursor["pull"]
  BY DEF LookUp, SubmitEvent, SubmitRecord, env, dataVars, gaps
<1>w. \A r \in Record : written[r] \in Nat /\ taken[r] \in Nat /\ req[q].got[r] \in Nat
  BY Sizes DEF TypeOK, Time
<1>1. CASE LookUp(q)
  <2> DEFINE R == {r \in Record : req[q].got[r] > 0}
             s == [req[q] EXCEPT !.todo = R, !.fresh = Fresh(R), !.at = "apply"]
  <2>1. req' = [req EXCEPT ![q].todo = R, ![q].fresh = Fresh(R), ![q].at = "apply"]
    BY <1>1 DEF LookUp
  <2>2. \A r \in Record : Owed(r)' => Owed(r)
    BY <1>1 DEF Owed, LookUp, dataVars, gaps
  <2>3. \A r \in Record : Owed(r) /\ req[q].got[r] = written[r] => r \in R
    BY <1>w DEF Owed
  <2> HIDE DEF R
  <2>4. req' = [req EXCEPT ![q] = s] /\ req'[q] = s
    BY <1>r, <2>1
  <2>5. req[q].at = "lookUp"
    BY <1>1 DEF LookUp
  <2>6. PullSafe(q)'
    BY <1>r, <1>k, <2>2, <2>3, <2>4, <2>5 DEF PullSafe, Session
  <2> QED
    BY <1>k, <2>2, <2>4, <2>6, PullStep
<1>2. CASE SubmitEvent(q)
  <2>1. PICK r \in req[q].todo : SubmitEvent(q)!2!(r)
    BY <1>2 DEF SubmitEvent
  <2>2. /\ kind = "openfn" /\ req[q].at = "apply" /\ r \in Record /\ req[q].got[r] = written[r]
        /\ UNCHANGED <<failed, stale>>
    BY <1>r, <1>2 DEF SubmitEvent, Pulling
  <2>3. CASE Leave(q) /\ UNCHANGED taken
    <3>1. \A x \in Record : Owed(x)' => Owed(x)
      BY <1>k, <2>2, <2>3 DEF Owed
    <3> QED
      BY <1>k, <2>3, <3>1, LeavesOwed
  <2>4. CASE /\ taken' = [taken EXCEPT ![r] = req[q].got[r]]
             /\ req' = [req EXCEPT ![q].todo = @ \ {r}]
    <3> DEFINE s == [req[q] EXCEPT !.todo = @ \ {r}]
    <3>1. taken'[r] = written[r] /\ \A x \in Record \ {r} : taken'[x] = taken[x]
      BY <2>2, <2>4 DEF TypeOK
    <3>2. \A x \in Record : Owed(x)' => Owed(x) /\ x # r
      BY <1>k, <2>2, <3>1 DEF Owed
    <3>3. req' = [req EXCEPT ![q] = s] /\ req'[q] = s
      BY <1>r, <2>4
    <3>4. PullSafe(q)'
      BY <1>r, <1>k, <2>2, <3>2, <3>3 DEF PullSafe, Session
    <3> QED
      BY <1>k, <3>2, <3>3, <3>4, PullStep
  <2> QED
    BY <2>1, <2>3, <2>4 DEF dataVars
<1>3. CASE SubmitRecord(q)
  <2>1. PICK r \in req[q].todo : SubmitRecord(q)!2!(r)
    BY <1>3 DEF SubmitRecord
  <2>2. /\ req[q].at = "apply" /\ r \in Record /\ req[q].got[r] <= written[r]
    BY <1>r, <1>3 DEF SubmitRecord, Pulling
  <2>3. ASSUME NEW x \in Record, Owed(x)'
        PROVE  Owed(x) /\ (x = r => req[q].got[r] # written[r])
    <3>1. CASE failed' = failed \cup {r} /\ UNCHANGED <<taken, stale>>
      BY <1>k, <2>3, <3>1 DEF Owed
    <3>2. CASE /\ taken' = [taken EXCEPT ![r] = req[q].got[r]]
               /\ failed' = IF UpToDate(q, r) THEN failed \ {r} ELSE failed
               /\ stale' = IF UpToDate(q, r) THEN stale \ {r}
                           ELSE IF req[q].got[r] < taken[r] THEN stale \cup {r} ELSE stale
      <4>1. taken'[r] = req[q].got[r] /\ \A y \in Record \ {r} : taken'[y] = taken[y]
        BY <2>2, <3>2 DEF TypeOK
      <4>2. CASE x # r
        BY <1>k, <2>3, <3>2, <4>1, <4>2 DEF Owed
      <4>3. CASE x = r
        <5>1. req[q].got[r] # written[r] /\ written[r] > 0
          BY <1>k, <2>3, <4>1, <4>3 DEF Owed
        <5>2. failed' = failed /\ stale \subseteq stale' /\ ~(req[q].got[r] < taken[r])
          BY <2>3, <3>2, <4>3, <5>1 DEF UpToDate, Owed
        <5>3. taken[r] # written[r]
          BY <1>w, <2>2, <5>1, <5>2
        <5> QED
          BY <1>k, <2>3, <4>3, <5>1, <5>2, <5>3 DEF Owed
      <4> QED
        BY <4>2, <4>3
    <3> QED
      BY <2>1, <3>1, <3>2
  <2> DEFINE s == [req[q] EXCEPT !.todo = @ \ {r}]
  <2>4. req' = [req EXCEPT ![q] = s] /\ req'[q] = s
    BY <1>r, <2>1
  <2>5. PullSafe(q)'
    BY <1>r, <1>k, <2>2, <2>3, <2>4 DEF PullSafe, Session
  <2> QED
    BY <1>k, <2>3, <2>4, <2>5, PullStep
<1> QED
  BY <1>1, <1>2, <1>3

\* The request moves the pull cursor, to the youngest of what it submitted.
LEMMA RecordsOwed ==
    ASSUME TypeOK, TypeOK', Shape, PullAhead, NEW q \in Request, InsertCursor(q)
    PROVE  PullAhead'
<1>0. /\ req[q].way \in Way /\ Pulling(q) /\ PullSafe(q) /\ q \in DOMAIN req
      /\ req[q].at = "insert"
  BY DEF TypeOK, Shape, PullAhead, InsertCursor
<1>k. UNCHANGED <<written, taken, failed, slipped, stale>>
  BY DEF InsertCursor, env, dataVars, gaps
<1>o. \A r \in Record : Owed(r)' <=> Owed(r)
  BY <1>k DEF Owed
<1>1. CASE req[q].way = "push"
  <2>1. UNCHANGED <<high["pull"], cursor["pull"]>>
    BY <1>1 DEF InsertCursor, TypeOK, Way
  <2>2. req' = [req EXCEPT ![q].at = "push", ![q].made = {}, ![q].home = NoEvent]
    BY <1>1 DEF InsertCursor
  <2> DEFINE s == [req[q] EXCEPT !.at = "push", !.made = {}, !.home = NoEvent]
  <2>3. req' = [req EXCEPT ![q] = s] /\ req'[q] = s
    BY <1>0, <2>2
  <2>4. req[q] \in Session
    BY DEF TypeOK, Session
  <2>5. PullSafe(q)'
    BY <1>1, <2>3, <2>4 DEF PullSafe, Session
  <2>6. cursor'["pull"] \subseteq cursor["pull"] /\ high'["pull"] = high["pull"]
    BY <2>1
  <2> HIDE DEF s
  <2> QED
    BY <1>k, <1>o, <2>3, <2>5, <2>6, PullStep
<1>2. CASE req[q].way = "pull"
  <2> DEFINE new == NewCursor(q)
             next == Latest({high["pull"], new})
  <2>1. /\ cursor'["pull"] = cursor["pull"] \cup {new}
        /\ high'["pull"] = next
    BY <1>2 DEF InsertCursor, TypeOK, Way
  <2>2. new \in Time /\ new > 0
    BY <1>0, <1>2, NewCursorType DEF Pulling
  <2>3. \E s \in Record : new = req[q].got[s]
    <3>1. Range(req[q].got) \in SUBSET Time
      BY DEF TypeOK, Range
    <3> DEFINE dates == Range(req[q].got) \ {0}
               behind == {t \in dates : After(t, req[q].since)}
    <3>2. new = Latest(IF kind = "openfn" THEN dates ELSE behind)
      BY <1>2 DEF NewCursor
    <3>3. dates \in SUBSET Time /\ behind \in SUBSET Time /\ behind \subseteq dates
      BY <3>1
    <3> HIDE DEF behind, dates
    <3>4. new \in dates
      <4>1. CASE kind = "openfn"
        BY <2>2, <3>2, <3>3, <4>1, LatestOf
      <4>2. CASE kind # "openfn"
        BY <2>2, <3>2, <3>3, <4>2, LatestOf
      <4> QED
        BY <4>1, <4>2
    <3> QED
      BY <3>4 DEF dates, Range, TypeOK
  <2>4. \A r \in Record : Owed(r) => new < written[r]
    <3>1. req[q].todo = {}
      BY <1>0, <1>2 DEF Pulling
    <3> QED
      BY <1>0, <1>2, <2>3, <3>1 DEF PullSafe
  <2> HIDE DEF new
  <2>5. high["pull"] \in Time /\ {high["pull"], new} \in SUBSET Time
    BY <2>2 DEF TypeOK, Way
  <2>6. /\ next \in Time /\ high["pull"] <= next /\ new <= next
        /\ next = high["pull"] \/ next = new \/ next = 0
    <3> DEFINE T == {high["pull"], new}
    <3>1. T \in SUBSET Time /\ high["pull"] \in T /\ new \in T
      BY <2>5
    <3>2. \A t \in T : t = high["pull"] \/ t = new
      OBVIOUS
    <3> HIDE DEF T
    <3>3. Latest(T) \in Time /\ (\A t \in T : t <= Latest(T)) /\ (Latest(T) > 0 => Latest(T) \in T)
      BY <3>1, LatestOf
    <3>4. Latest(T) = 0 \/ Latest(T) > 0
      BY <3>3, Sizes DEF Time
    <3>5. next = Latest(T)
      BY DEF T
    <3> HIDE DEF next
    <3> QED
      BY <3>1, <3>2, <3>3, <3>4, <3>5
  <2> HIDE DEF next
  <2>7. \A r \in Record : Owed(r)' => written'[r] > high'["pull"]
    BY <1>k, <1>o, <2>1, <2>4, <2>6 DEF PullAhead, Owed
  <2>8. \A c \in cursor'["pull"] : c <= high'["pull"]
    <3>1. \A c \in cursor["pull"] : c \in Nat /\ c <= high["pull"]
      BY Sizes DEF PullAhead, TypeOK, Way, Time
    <3> QED
      BY <2>1, <2>5, <2>6, <3>1, Sizes DEF Time
  <2>9. PullSafe(q)'
    <3>1. req' = [req EXCEPT ![q] = Idle]
      BY <1>2 DEF InsertCursor, Leave
    <3>2. req'[q] = Idle
      BY <1>0, <3>1
    <3> QED
      BY <3>2 DEF PullSafe, Idle
  <2>10. ASSUME NEW p \in Request, p # q
         PROVE  PullSafe(p)'
    <3>1. req'[p] = req[p] /\ PullSafe(p)
      BY <1>2, <2>10 DEF InsertCursor, TypeOK, PullAhead, Leave
    <3>2. req[p].since \in Nat
      BY Sizes DEF TypeOK, Time
    <3> QED
      BY <1>k, <1>o, <2>1, <2>5, <2>6, <3>1, <3>2, Sizes DEF PullSafe, Time
  <2> QED
    BY <2>7, <2>8, <2>9, <2>10 DEF PullAhead
<1> QED
  BY <1>0, <1>1, <1>2 DEF Way

\* A record written while a request is past it has slipped; otherwise it is
\* younger than all that requests have fetched and recorded.
LEMMA WritesOwed ==
    ASSUME TypeOK, TypeOK', Shape, PullAhead, NEW r \in Record, Write(r)
    PROVE  PullAhead'
<1>k. UNCHANGED <<taken, failed, stale, high, cursor, req>>
  BY DEF Write, env, dataVars, calm
<1>1. /\ written'[r] = clock /\ \A x \in Record \ {r} : written'[x] = written[x]
      /\ slipped' = IF clock <= PulledUpTo THEN slipped \cup {r} ELSE slipped \ {r}
  BY DEF Write, TypeOK
<1>2. clock \in Nat /\ PulledUpTo \in Nat /\ high["pull"] \in Nat
      /\ \A p \in Request, x \in Record : req[p].got[x] \in Nat
  BY PulledUpToBound, Sizes DEF TypeOK, Time, Way
<1>3. Owed(r)' => clock > PulledUpTo
  BY <1>1, <1>2 DEF Owed
<1>4. Owed(r)' => clock > high["pull"] /\ \A p \in Request, x \in Record : req[p].got[x] < clock
  BY <1>2, <1>3, PulledUpToBound
<1>5. \A x \in Record \ {r} : Owed(x)' => Owed(x)
  BY <1>k, <1>1 DEF Owed
<1>6. ASSUME NEW p \in Request
      PROVE  PullSafe(p)'
  <2>1. PullSafe(p)
    BY DEF PullAhead
  <2>2. \A x \in Record : Owed(x)' => x = r \/ Owed(x)
    BY <1>5
  <2>3. ASSUME NEW x \in Record, Owed(x)', req[p].way = "pull", req[p].at \in {"lookUp", "apply", "insert"}
        PROVE  \/ req[p].got[x] = written'[x] /\ (req[p].at = "lookUp" \/ x \in req[p].todo)
               \/ \A s \in Record : req[p].got[s] < written'[x]
    <3>1. CASE x = r
      BY <1>1, <1>4, <2>3, <3>1
    <3>2. CASE x # r
      BY <1>1, <2>1, <2>2, <2>3, <3>2 DEF PullSafe
    <3> QED
      BY <3>1, <3>2
  <2> QED
    BY <1>k, <2>1, <2>3 DEF PullSafe
<1>7. \A x \in Record : Owed(x)' => written'[x] > high'["pull"]
  BY <1>k, <1>1, <1>4, <1>5 DEF PullAhead
<1> QED
  BY <1>k, <1>6, <1>7 DEF PullAhead

\* The steps of the requests keep PullAhead,
LEMMA RequestsOwed ==
    ASSUME TypeOK, TypeOK', Shape, PullAhead, NEW q \in Request,
           \/ Begin(q) \/ Login(q) \/ ReadCursor(q) \/ DeleteCursor(q) \/ EndPull(q) \/ StoreFails(q)
           \/ ListEvents(q) \/ PushBatch(q) \/ ListRegistrants(q) \/ CreateHousehold(q)
           \/ LinkHousehold(q) \/ CreateIndividual(q)
    PROVE  PullAhead'
<1>r. /\ req[q] \in Session /\ Pushing(q) /\ Pulling(q) /\ req[q].way \in Way
      /\ q \in DOMAIN req /\ PullSafe(q)
  BY DEF TypeOK, Session, Shape, PullAhead
<1> USE DEF env, dataVars, gaps, calm
<1>k. UNCHANGED <<written, high, taken, slipped, stale>> /\ failed \subseteq failed'
      /\ high'["pull"] = high["pull"]
  BY DEF Begin, Login, ReadCursor, DeleteCursor, EndPull, StoreFails, ListEvents, PushBatch,
         ListRegistrants, CreateHousehold, LinkHousehold, CreateIndividual
<1>c. cursor'["pull"] \subseteq cursor["pull"]
  <2>1. CASE DeleteCursor(q)
    BY <2>1 DEF DeleteCursor, TypeOK, Way
  <2> QED
    BY <2>1 DEF Begin, Login, ReadCursor, EndPull, StoreFails, ListEvents, PushBatch,
         ListRegistrants, CreateHousehold, LinkHousehold, CreateIndividual
<1>o. \A r \in Record : Owed(r)' => Owed(r)
  BY <1>k DEF Owed
<1>l. CASE Leave(q)
  <2>1. req' = [req EXCEPT ![q] = Idle] /\ req'[q] = Idle /\ Idle.way = "push"
    BY <1>l, <1>r DEF Leave, Idle
  <2>2. PullSafe(q)'
    BY <2>1 DEF PullSafe
  <2> QED
    BY <1>k, <1>c, <1>o, <2>1, <2>2, PullStep
<1>p. ASSUME req'[q].way = "push", \A p \in Request \ {q} : req'[p] = req[p]
      PROVE  PullAhead'
  <2>1. PullSafe(q)'
    BY <1>p DEF PullSafe
  <2>2. \A p \in Request : req'[p] = req[p] \/ PullSafe(p)'
    BY <1>p, <2>1
  <2> QED
    BY <1>k, <1>c, <1>o, <2>2, PullFrom
<1>1. CASE Begin(q) \/ Login(q)
  <2>1. Leave(q) \/ (req'[q].way = "push" /\ \A p \in Request \ {q} : req'[p] = req[p])
    <3>1. req[q].way = "push"
      BY <1>1, <1>r DEF Begin, Login, Pulling, Way
    <3> QED
      BY <1>1, <1>r, <3>1 DEF Begin, Login, Session, TypeOK
  <2> QED
    BY <1>l, <1>p, <2>1
<1>2. CASE ReadCursor(q)
  <2>1. CASE req[q].at = "read"
    <3>1. req' = [req EXCEPT ![q].since = Stored("push"), ![q].at = "list"] /\ req[q].way = "push"
      BY <1>2, <1>r, <2>1 DEF ReadCursor, PushEnded, Pulling, Way
    <3>2. req'[q].way = "push" /\ \A p \in Request \ {q} : req'[p] = req[p]
      BY <1>r, <3>1 DEF Session, TypeOK
    <3> QED
      BY <1>p, <3>2
  <2>2. CASE req[q].at # "read"
    <3> DEFINE s == [req[q] EXCEPT !.since = Stored("pull"), !.way = "pull", !.at = "list"]
    <3>1. req' = [req EXCEPT ![q].since = Stored("pull"), ![q].way = "pull", ![q].at = "list"]
      BY <1>2, <2>2 DEF ReadCursor
    <3>2. req' = [req EXCEPT ![q] = s] /\ req'[q] = s
      BY <1>r, <3>1
    <3>3. s.at = "list" /\ s.since = Stored("pull")
      BY <1>r DEF Session
    <3> HIDE DEF s
    <3>4. cursor["pull"] \in SUBSET Time /\ high["pull"] \in Time
      BY DEF TypeOK, Way
    <3>5. Stored("pull") <= high["pull"]
      BY <3>4, LatestOf, Sizes DEF Stored, PullAhead, Time
    <3>6. PullSafe(q)'
      BY <1>k, <3>2, <3>3, <3>5 DEF PullSafe
    <3> QED
      BY <1>k, <1>c, <1>o, <3>2, <3>6, PullStep
  <2> QED
    BY <2>1, <2>2
<1>3. CASE DeleteCursor(q)
  <2> DEFINE s == [req[q] EXCEPT !.at = "insert"]
  <2>1. req' = [req EXCEPT ![q] = s] /\ req'[q] = s
    BY <1>3, <1>r DEF DeleteCursor
  <2>2. req[q].way = "pull" => req[q].at = "apply"
    BY <1>3, <1>r DEF DeleteCursor, Moves, Pulling
  <2>3. PullSafe(q)'
    BY <1>k, <1>o, <1>r, <2>1, <2>2 DEF PullSafe, Session
  <2> QED
    BY <1>k, <1>c, <1>o, <2>1, <2>3, PullStep
<1>4. CASE EndPull(q) \/ StoreFails(q)
  BY <1>4, <1>l DEF EndPull, StoreFails
<1>5. CASE ListEvents(q) \/ ListRegistrants(q)
  <2>1. req[q].way = "push"
    BY <1>5 DEF ListEvents, ListRegistrants
  <2>2. req'[q].way = "push" /\ \A p \in Request \ {q} : req'[p] = req[p]
    BY <1>5, <1>r, <2>1 DEF ListEvents, ListRegistrants, Session, TypeOK
  <2> QED
    BY <1>p, <2>2
<1>6. CASE PushBatch(q) \/ CreateHousehold(q) \/ LinkHousehold(q) \/ CreateIndividual(q)
  <2>1. req[q].way = "push"
    BY <1>6, <1>r DEF PushBatch, CreateHousehold, LinkHousehold, CreateIndividual, Pulling, Way
  <2>2. Leave(q) \/ (req'[q].way = "push" /\ \A p \in Request \ {q} : req'[p] = req[p])
    <3>1. CASE PushBatch(q)
      <4>1. PICK B \in Batches(req[q].todo) :
               Leave(q) \/ req' = [req EXCEPT ![q].todo = @ \ B, ![q].made = B]
        BY <3>1 DEF PushBatch
      <4> QED
        BY <1>r, <2>1, <4>1 DEF Session, TypeOK
    <3>2. CASE CreateHousehold(q)
      <4>1. PICK h \in req[q].todo \cap Household :
               \/ req' = [req EXCEPT ![q].home = h, ![q].todo = @ \ {h}, ![q].at = "link"]
               \/ req' = [req EXCEPT ![q].todo = @ \ ({h} \cup Members(q, h))]
        BY <3>2 DEF CreateHousehold
      <4> QED
        BY <1>r, <2>1, <4>1 DEF Session, TypeOK
    <3>3. CASE LinkHousehold(q)
      BY <3>3, <1>r, <2>1 DEF LinkHousehold, Session, TypeOK
    <3>4. CASE CreateIndividual(q)
      <4>1. PICK i \in Members(q, req[q].home) :
               \/ req' = [req EXCEPT ![q].todo = @ \ {i}, ![q].made = @ \cup {i}]
               \/ req' = [req EXCEPT ![q].todo = @ \ {i}]
        BY <3>4 DEF CreateIndividual
      <4> QED
        BY <1>r, <2>1, <4>1 DEF Session, TypeOK
    <3> QED
      BY <1>6, <3>1, <3>2, <3>3, <3>4
  <2> QED
    BY <1>l, <1>p, <2>2
<1> QED
  BY <1>1, <1>2, <1>3, <1>4, <1>5, <1>6

\* and so does every step.
LEMMA PullNext ==
    ASSUME TypeOK, TypeOK', Shape, PullAhead, [Next]_vars
    PROVE  PullAhead'
<1>1. ASSUME \/ UNCHANGED vars \/ Tick \/ \E x \in Event, t \in 1 .. MaxClock : Arrive(x, t)
      PROVE  PullAhead'
  <2>1. UNCHANGED <<written, taken, failed, slipped, stale, high, cursor, req>>
    BY <1>1 DEF vars, env, dataVars, gaps, Tick, Arrive
  <2>2. \A r \in Record : Owed(r)' => Owed(r)
    BY <2>1 DEF Owed
  <2> QED
    BY <2>1, <2>2, PullFrom
<1>2. CASE Restart
  <2>1. /\ UNCHANGED <<written, taken, failed, slipped, stale, high, cursor>>
        /\ \A p \in Request : req'[p] = Idle
    BY <1>2 DEF Restart, env, dataVars, gaps
  <2>2. \A r \in Record : Owed(r)' => Owed(r)
    BY <2>1 DEF Owed
  <2>3. \A p \in Request : PullSafe(p)'
    BY <2>1 DEF PullSafe, Idle
  <2> QED
    BY <2>1, <2>2, <2>3, PullFrom
<1> QED
  BY <1>1, <1>2, WritesOwed, FetchesOwed, SubmitsOwed, RecordsOwed, RequestsOwed DEF Next, Step

-----------------------------------------------------------------------------
(* One request at a time.                                                  *)

\* A step of a request leaves the others where they are.
LEMMA OthersStay ==
    ASSUME TypeOK, NEW q \in Request, Begin(q) \/ Step(q) \/ StoreFails(q)
    PROVE  \A p \in Request \ {q} : req'[p] = req[p]
<1>1. CASE Leave(q)
  BY <1>1 DEF Leave, TypeOK
<1>2. CASE Begin(q) \/ Login(q) \/ EndPull(q) \/ StoreFails(q) \/ ReadCursor(q) \/ DeleteCursor(q)
  BY <1>1, <1>2 DEF TypeOK, Begin, Login, EndPull, StoreFails, ReadCursor, DeleteCursor
<1>3. CASE InsertCursor(q)
  BY <1>1, <1>3 DEF TypeOK, InsertCursor
<1>4. CASE ListEvents(q)
  BY <1>4 DEF TypeOK, ListEvents
<1>5. CASE PushBatch(q)
  <2>1. PICK B \in Batches(req[q].todo) :
           Leave(q) \/ req' = [req EXCEPT ![q].todo = @ \ B, ![q].made = B]
    BY <1>5 DEF PushBatch
  <2> QED
    BY <1>1, <2>1 DEF TypeOK
<1>6. CASE FetchEvents(q)
  <2>1. PICK s : Leave(q) \/ req' = [req EXCEPT ![q] = s]
    BY <1>6 DEF FetchEvents, TypeOK
  <2> QED
    BY <1>1, <2>1 DEF TypeOK
<1>7. CASE SubmitEvent(q)
  <2>1. PICK r \in req[q].todo : Leave(q) \/ req' = [req EXCEPT ![q].todo = @ \ {r}]
    BY <1>7 DEF SubmitEvent
  <2> QED
    BY <1>1, <2>1 DEF TypeOK
<1>8. CASE ListRegistrants(q) \/ LinkHousehold(q) \/ LookUp(q)
  BY <1>8 DEF TypeOK, ListRegistrants, LinkHousehold, LookUp
<1>9. CASE CreateHousehold(q)
  <2>1. PICK h \in req[q].todo \cap Household :
               \/ req' = [req EXCEPT ![q].home = h, ![q].todo = @ \ {h}, ![q].at = "link"]
               \/ req' = [req EXCEPT ![q].todo = @ \ ({h} \cup Members(q, h))]
    BY <1>9 DEF CreateHousehold
  <2> QED
    BY <2>1 DEF TypeOK
<1>10. CASE CreateIndividual(q)
  <2>1. PICK i \in Members(q, req[q].home) :
               \/ req' = [req EXCEPT ![q].todo = @ \ {i}, ![q].made = @ \cup {i}]
               \/ req' = [req EXCEPT ![q].todo = @ \ {i}]
    BY <1>10 DEF CreateIndividual
  <2> QED
    BY <2>1 DEF TypeOK
<1>11. CASE FetchGroups(q) \/ FetchPersons(q)
  BY <1>1, <1>11 DEF TypeOK, FetchGroups, FetchPersons
<1>12. CASE SubmitRecord(q)
  <2>1. PICK r \in req[q].todo : req' = [req EXCEPT ![q].todo = @ \ {r}]
    BY <1>12 DEF SubmitRecord
  <2> QED
    BY <2>1 DEF TypeOK
<1> QED
  BY <1>2, <1>3, <1>4, <1>5, <1>6, <1>7, <1>8, <1>9, <1>10, <1>11, <1>12 DEF Step

\* Who takes a step of a request is awake; that makes no overlap.
LEMMA StepsAwake ==
    ASSUME NEW q \in Request, Step(q) \/ StoreFails(q)
    PROVE  UNCHANGED overlap /\ req[q].at # "idle"
<1> USE DEF env, dataVars, gaps, calm
<1>1. CASE Login(q) \/ ReadCursor(q) \/ InsertCursor(q) \/ EndPull(q) \/ StoreFails(q)
  BY <1>1 DEF Login, ReadCursor, PushEnded, InsertCursor, EndPull, StoreFails
<1>2. CASE DeleteCursor(q)
  BY <1>2 DEF DeleteCursor, Moves
<1>3. CASE ListEvents(q) \/ PushBatch(q) \/ FetchEvents(q) \/ SubmitEvent(q)
  BY <1>3 DEF ListEvents, PushBatch, FetchEvents, SubmitEvent
<1>4. CASE \/ ListRegistrants(q) \/ CreateHousehold(q) \/ LinkHousehold(q) \/ CreateIndividual(q)
           \/ FetchGroups(q) \/ FetchPersons(q) \/ LookUp(q) \/ SubmitRecord(q)
  BY <1>4 DEF ListRegistrants, CreateHousehold, LinkHousehold, CreateIndividual, FetchGroups,
              FetchPersons, LookUp, SubmitRecord
<1> QED
  BY <1>1, <1>2, <1>3, <1>4 DEF Step

\* Without an overlap there is one request at the most.
LEMMA AloneNext ==
    ASSUME TypeOK, Shape, Alone, [Next]_vars
    PROVE  Alone'
<1>1. CASE \/ UNCHANGED vars \/ Tick \/ \E r \in Record : Write(r)
           \/ \E x \in Event, t \in 1 .. MaxClock : Arrive(x, t)
  <2>1. UNCHANGED <<req, overlap>>
    BY <1>1 DEF vars, calm, Tick, Write, Arrive
  <2> QED
    BY <2>1 DEF Alone
<1>2. CASE Restart
  BY <1>2 DEF Restart, Alone, Idle
<1>3. ASSUME NEW q \in Request, Begin(q)
      PROVE  Alone'
  <2>1. \A p \in Request \ {q} : req'[p] = req[p]
    BY <1>3, OthersStay
  <2>2. CASE \E p \in Request \ {q} : req[p].at # "idle"
    BY <1>3, <2>2 DEF Begin, Alone
  <2>3. CASE ~\E p \in Request \ {q} : req[p].at # "idle"
    BY <2>1, <2>3 DEF Alone
  <2> QED
    BY <2>2, <2>3
<1>4. ASSUME NEW q \in Request, Step(q) \/ StoreFails(q)
      PROVE  Alone'
  <2>1. \A p \in Request \ {q} : req'[p] = req[p]
    BY <1>4, OthersStay
  <2>2. overlap' = overlap /\ req[q].at # "idle"
    BY <1>4, StepsAwake
  <2> QED
    BY <2>1, <2>2 DEF Alone
<1> QED
  BY <1>1, <1>2, <1>3, <1>4 DEF Next

\* A request that is not under way holds nothing.
LEMMA Resting ==
    ASSUME TypeOK, Shape, NEW p \in Request, req[p].at = "idle"
    PROVE  /\ req[p].way = "push" /\ req[p].todo = {} /\ req[p].made = {}
           /\ req[p].home = NoEvent /\ Hand(p) = {}
<1>1. Pushing(p) /\ Pulling(p) /\ req[p].way \in Way
  BY DEF TypeOK, Shape
<1>2. req[p].way = "push"
  BY <1>1 DEF Pulling, Way
<1>3. req[p].todo = {} /\ req[p].made = {} /\ req[p].home = NoEvent
  BY <1>1, <1>2 DEF Pushing
<1> QED
  BY <1>2, <1>3, Levels DEF Hand

\* The others rest; q touches neither the cursor of w nor what it holds for it.
LEMMA OrderFrom ==
    ASSUME TypeOK, TypeOK', Shape, NEW q \in Request, NEW w \in Way,
           \A p \in Request \ {q} : req[p].at = "idle" /\ req'[p] = req[p],
           Ordered(w), high'[w] = high[w], cursor'[w] = cursor[w],
           ~(req[q].at = "insert" /\ req[q].way = w), ~(req'[q].at = "insert" /\ req'[q].way = w),
           req'[q].way = w /\ (req'[q].at = "list" \/ w = "pull") => req'[q].since = high[w],
           req'[q].way = w /\ w = "push" => \A x \in Hand(q)' : stamp'[x] >= high[w]
    PROVE  Ordered(w)'
<1>1. \A p \in Request \ {q} : /\ req'[p].at = "idle" /\ req'[p].way = "push" /\ Hand(p)' = {}
                               /\ req[p].way = "push" /\ req[p].at = "idle"
  BY Resting DEF Hand
<1>2. Stored(w) = high[w] /\ Stored(w)' = Stored(w)
  BY <1>1 DEF Ordered, Stored
<1>3. ASSUME NEW p \in Request, req'[p].way = w
      PROVE  /\ req'[p].at = "insert" => cursor'[w] = {}
             /\ req'[p].at = "list" \/ w = "pull" => req'[p].since = high'[w]
             /\ w = "push" => \A x \in Hand(p)' : stamp'[x] >= high'[w]
  <2>1. CASE p = q
    BY <1>3, <2>1
  <2>2. CASE p # q
    BY <1>1, <1>3, <2>2
  <2> QED
    BY <2>1, <2>2
<1> QED
  BY <1>2, <1>3 DEF Ordered

\* The steps that leave the cursors alone: what a request reads is the cursor, what
\* it lists comes after, and its hand only loses.
LEMMA OrderRequests ==
    ASSUME TypeOK, TypeOK', Shape, Alone, NEW q \in Request, Begin(q) \/ Step(q) \/ StoreFails(q),
           ~InsertCursor(q), ~DeleteCursor(q), ~overlap', NEW w \in Way, ~torn'[w], Ordered(w)
    PROVE  Ordered(w)'
<1> USE DEF env, dataVars, gaps, calm
<1>r. /\ req[q] \in Session /\ Pushing(q) /\ Pulling(q) /\ req[q].way \in Way
      /\ q \in DOMAIN req
  BY DEF TypeOK, Session, Shape
<1>k. UNCHANGED <<high, cursor>>
  BY DEF Step, Begin, Login, ReadCursor, EndPull, StoreFails, ListEvents, PushBatch, FetchEvents,
         SubmitEvent, ListRegistrants, CreateHousehold, LinkHousehold, CreateIndividual, FetchGroups,
         FetchPersons, LookUp, SubmitRecord
<1>o. \A p \in Request \ {q} : req[p].at = "idle" /\ req'[p] = req[p]
  <2>1. \A p \in Request \ {q} : req'[p] = req[p]
    BY OthersStay
  <2>2. CASE Begin(q)
    BY <2>1, <2>2 DEF Begin
  <2>3. CASE Step(q) \/ StoreFails(q)
    BY <2>1, <2>3, StepsAwake DEF Alone
  <2> QED
    BY <2>2, <2>3
<1>s. \A x \in log : stamp'[x] = stamp[x]
  <2>1. CASE SubmitEvent(q)
    <3>1. PICK r \in req[q].todo : SubmitEvent(q)!2!(r)
      BY <2>1 DEF SubmitEvent
    <3>2. stamp' = stamp \/ (r \notin log /\ stamp' = [stamp EXCEPT ![r] = req[q].got[r]])
      BY <3>1
    <3> QED
      BY <3>2 DEF TypeOK
  <2> QED
    BY <2>1 DEF Step, Begin, Login, ReadCursor, EndPull, StoreFails, ListEvents, PushBatch, FetchEvents,
         ListRegistrants, CreateHousehold, LinkHousehold, CreateIndividual, FetchGroups,
         FetchPersons, LookUp, SubmitRecord
<1>h. req[q].way = "push" => Hand(q) \subseteq log
  BY <1>r, Levels DEF Hand, Pushing
\* The hand only loses, and the cursor read stays.
<1>f. ASSUME ~(req[q].at = "insert" /\ req[q].way = w), req'[q].at # "insert",
             req'[q].way = req[q].way, req'[q].since = req[q].since,
             req'[q].at = "list" => req[q].at = "list",
             req[q].way = "push" => Hand(q)' \subseteq Hand(q)
      PROVE  Ordered(w)'
  <2>1. req'[q].way = w /\ (req'[q].at = "list" \/ w = "pull") => req'[q].since = high[w]
    BY <1>f DEF Ordered
  <2>2. req'[q].way = w /\ w = "push" => \A x \in Hand(q)' : stamp'[x] >= high[w]
    BY <1>f, <1>h, <1>s DEF Ordered
  <2> QED
    BY <1>f, <1>o, <1>k, <2>1, <2>2, OrderFrom
<1>l. ASSUME Leave(q), ~(req[q].at = "insert" /\ req[q].way = w)
      PROVE  Ordered(w)'
  <2>1. req'[q].at = "idle" /\ req'[q].way = "push" /\ Hand(q)' = {}
    BY <1>l, <1>r, Levels DEF Leave, Idle, Hand
  <2> QED
    BY <1>l, <1>o, <1>k, <2>1, OrderFrom
<1>1. CASE Begin(q)
  <2>1. PICK at \in {"login", "read"} : req' = [req EXCEPT ![q].at = at]
    BY <1>1 DEF Begin
  <2>2. req[q].at = "idle"
    BY <1>1 DEF Begin
  <2>3. req'[q] = [req[q] EXCEPT !.at = at]
    BY <1>r, <2>1
  <2>4. /\ req'[q].way = req[q].way /\ req'[q].since = req[q].since /\ Hand(q)' = Hand(q)
        /\ req'[q].at = at
    BY <1>r, <2>3 DEF Session, Hand
  <2> QED
    BY <1>f, <2>2, <2>4
<1>2. CASE Login(q)
  <2>1. CASE req' = [req EXCEPT ![q].at = "read"]
    <3>1. req[q].at = "login"
      BY <1>2 DEF Login
    <3>2. req'[q] = [req[q] EXCEPT !.at = "read"]
      BY <1>r, <2>1
    <3>3. /\ req'[q].way = req[q].way /\ req'[q].since = req[q].since /\ Hand(q)' = Hand(q)
          /\ req'[q].at = "read"
      BY <1>r, <3>2 DEF Session, Hand
    <3> QED
      BY <1>f, <3>1, <3>3
  <2> QED
    BY <1>2, <1>l, <2>1 DEF Login
<1>3. CASE ReadCursor(q)
  <2>1. Stored(w) = high[w]
    <3>1. req[q].at # "insert"
      BY <1>3 DEF ReadCursor, PushEnded
    <3> QED
      BY <1>o, <3>1 DEF Ordered
  <2>2. CASE req[q].at = "read"
    <3>1. req' = [req EXCEPT ![q].since = Stored("push"), ![q].at = "list"]
      BY <1>3, <2>2 DEF ReadCursor, PushEnded
    <3>2. req'[q] = [req[q] EXCEPT !.since = Stored("push"), !.at = "list"]
      BY <1>r, <3>1
    <3>3. req'[q].way = "push" /\ req'[q].since = Stored("push") /\ req'[q].at = "list" /\ Hand(q)' = {}
      <4>1. req[q].way = "push"
        BY <1>r, <2>2 DEF Pulling, Way
      <4>2. req[q].todo = {} /\ req[q].made = {} /\ req[q].home = NoEvent
        BY <1>r, <2>2, <4>1 DEF Pushing
      <4> QED
        BY <1>r, <3>2, <4>1, <4>2, Levels DEF Session, Hand
    <3> QED
      BY <1>o, <1>k, <2>1, <2>2, <3>3, OrderFrom
  <2>3. CASE req[q].at # "read"
    <3>1. /\ PushEnded(q)
          /\ req' = [req EXCEPT ![q].since = Stored("pull"), ![q].way = "pull", ![q].at = "list"]
      BY <1>3, <2>3 DEF ReadCursor
    <3>2. req'[q] = [req[q] EXCEPT !.since = Stored("pull"), !.way = "pull", !.at = "list"]
      BY <1>r, <3>1
    <3>3. req'[q].way = "pull" /\ req'[q].since = Stored("pull") /\ req'[q].at = "list"
      BY <1>r, <3>2 DEF Session
    <3>4. req'[q].way = w => w = "pull" /\ req'[q].since = high[w]
      BY <2>1, <3>3
    <3>5. req[q].at = "push"
      BY <3>1 DEF PushEnded
    <3> QED
      BY <1>o, <1>k, <3>3, <3>4, <3>5, OrderFrom
  <2> QED
    BY <2>2, <2>3
<1>4. CASE EndPull(q)
  BY <1>4, <1>l DEF EndPull
<1>5. CASE StoreFails(q)
  <2>1. torn' = Torn({q}) /\ Leave(q)
    BY <1>5 DEF StoreFails
  <2>2. ~(req[q].at = "insert" /\ req[q].way = w)
    BY <2>1 DEF Torn
  <2> QED
    BY <1>l, <2>1, <2>2
<1>6. CASE ListEvents(q) \/ ListRegistrants(q)
  <2>1. PICK S : req' = [req EXCEPT ![q].todo = S, ![q].at = "push"]
                 /\ \A x \in S : x \in log /\ stamp[x] > req[q].since
    <3>1. CASE ListEvents(q)
      <4> DEFINE new == {x \in log : stamp[x] > req[q].since}
      <4>1. \A x \in new : x \in log /\ stamp[x] > req[q].since
        OBVIOUS
      <4>2. req' = [req EXCEPT ![q].todo = new, ![q].at = "push"]
        BY <3>1 DEF ListEvents
      <4> HIDE DEF new
      <4> QED
        BY <4>1, <4>2
    <3>2. CASE ListRegistrants(q)
      <4> DEFINE new == Grouped(Filtered(q))
      <4>1. \A x \in new : x \in log /\ stamp[x] > req[q].since
        BY Levels DEF Grouped, Filtered
      <4>2. req' = [req EXCEPT ![q].todo = new, ![q].at = "push"]
        BY <3>2 DEF ListRegistrants
      <4> HIDE DEF new
      <4> QED
        BY <4>1, <4>2
    <3> QED
      BY <1>6, <3>1, <3>2
  <2>2. req[q].at = "list" /\ req[q].way = "push"
    BY <1>6 DEF ListEvents, ListRegistrants
  <2>3. req'[q] = [req[q] EXCEPT !.todo = S, !.at = "push"]
    BY <1>r, <2>1
  <2>4. req[q].made = {} /\ req[q].home = NoEvent
    BY <1>r, <2>2 DEF Pushing
  <2>5. req'[q].way = "push" /\ req'[q].at = "push" /\ Hand(q)' \subseteq S
    BY <1>r, <2>2, <2>3, <2>4, Levels DEF Session, Hand
  <2>6. w = "push" => \A x \in Hand(q)' : stamp'[x] >= high[w]
    <3>1. w = "push" => req[q].since = high[w]
      BY <2>2 DEF Ordered
    <3>2. \A x \in S : stamp[x] \in Nat /\ req[q].since \in Nat
      BY <2>1, Sizes DEF TypeOK, Time
    <3> QED
      BY <1>s, <2>1, <2>5, <3>1, <3>2
  <2> QED
    BY <1>o, <1>k, <2>2, <2>5, <2>6, OrderFrom DEF Way
<1>7. CASE PushBatch(q)
  <2>1. PICK B \in Batches(req[q].todo) :
           Leave(q) \/ req' = [req EXCEPT ![q].todo = @ \ B, ![q].made = B]
    BY <1>7 DEF PushBatch
  <2>2. req[q].at = "push" /\ B \subseteq req[q].todo
    BY <1>7 DEF PushBatch, Batches
  <2>3. CASE req' = [req EXCEPT ![q].todo = @ \ B, ![q].made = B]
    <3>1. req'[q] = [req[q] EXCEPT !.todo = @ \ B, !.made = B]
      BY <1>r, <2>3
    <3>2. /\ req'[q].way = req[q].way /\ req'[q].since = req[q].since /\ req'[q].at = "push"
          /\ Hand(q)' \subseteq Hand(q)
      BY <1>r, <2>2, <3>1 DEF Session, Hand
    <3> QED
      BY <1>f, <2>2, <3>2
  <2> QED
    BY <1>l, <2>1, <2>2, <2>3
<1>8. CASE CreateHousehold(q)
  <2>1. PICK h \in req[q].todo \cap Household :
           \/ req' = [req EXCEPT ![q].home = h, ![q].todo = @ \ {h}, ![q].at = "link"]
           \/ req' = [req EXCEPT ![q].todo = @ \ ({h} \cup Members(q, h))]
    BY <1>8 DEF CreateHousehold
  <2>2. req[q].at = "push"
    BY <1>8 DEF CreateHousehold
  <2>3. \/ req'[q] = [req[q] EXCEPT !.home = h, !.todo = @ \ {h}, !.at = "link"]
        \/ req'[q] = [req[q] EXCEPT !.todo = @ \ ({h} \cup Members(q, h))]
    BY <1>r, <2>1
  <2>4. req'[q].way = req[q].way /\ req'[q].since = req[q].since /\ req'[q].at \in {"push", "link"}
    BY <1>r, <2>2, <2>3 DEF Session
  <2>5. /\ req'[q].todo \subseteq req[q].todo /\ req'[q].made = req[q].made
        /\ req'[q].home \in req[q].todo \cup {req[q].home}
    <3>1. CASE req'[q] = [req[q] EXCEPT !.home = h, !.todo = @ \ {h}, !.at = "link"]
      BY <1>r, <3>1 DEF Session
    <3>2. CASE req'[q] = [req[q] EXCEPT !.todo = @ \ ({h} \cup Members(q, h))]
      BY <1>r, <3>2 DEF Session
    <3> QED
      BY <2>3, <3>1, <3>2
  <2>6. Hand(q)' \subseteq Hand(q)
    BY <2>5 DEF Hand
  <2> QED
    BY <1>f, <2>2, <2>4, <2>6
<1>9. CASE LinkHousehold(q)
  <2> DEFINE h == req[q].home
             gone == Members(q, h)
  <2>1. \/ req' = [req EXCEPT ![q].made = @ \cup {h}, ![q].at = "push"]
        \/ req' = [req EXCEPT ![q].todo = @ \ gone, ![q].home = NoEvent, ![q].at = "push"]
    BY <1>9 DEF LinkHousehold
  <2> HIDE DEF gone
  <2>2. req[q].at = "link"
    BY <1>9 DEF LinkHousehold
  <2>3. \/ req'[q] = [req[q] EXCEPT !.made = @ \cup {h}, !.at = "push"]
        \/ req'[q] = [req[q] EXCEPT !.todo = @ \ gone, !.home = NoEvent, !.at = "push"]
    BY <1>r, <2>1
  <2>4. req'[q].way = req[q].way /\ req'[q].since = req[q].since /\ req'[q].at = "push"
    BY <1>r, <2>2, <2>3 DEF Session
  <2>5. /\ req'[q].todo \subseteq req[q].todo /\ req'[q].made \subseteq req[q].made \cup {req[q].home}
        /\ req'[q].home \in {req[q].home, NoEvent}
    <3>1. CASE req'[q] = [req[q] EXCEPT !.made = @ \cup {h}, !.at = "push"]
      BY <1>r, <3>1 DEF Session
    <3>2. CASE req'[q] = [req[q] EXCEPT !.todo = @ \ gone, !.home = NoEvent, !.at = "push"]
      BY <1>r, <3>2 DEF Session
    <3> QED
      BY <2>3, <3>1, <3>2
  <2>6. Hand(q)' \subseteq Hand(q)
    BY <2>5, Levels DEF Hand
  <2> QED
    BY <1>f, <2>2, <2>4, <2>6
<1>10. CASE CreateIndividual(q)
  <2>1. PICK i \in Members(q, req[q].home) :
           \/ req' = [req EXCEPT ![q].todo = @ \ {i}, ![q].made = @ \cup {i}]
           \/ req' = [req EXCEPT ![q].todo = @ \ {i}]
    BY <1>10 DEF CreateIndividual
  <2>2. req[q].at = "push" /\ i \in req[q].todo
    BY <1>10 DEF CreateIndividual, Members
  <2>3. \/ req'[q] = [req[q] EXCEPT !.todo = @ \ {i}, !.made = @ \cup {i}]
        \/ req'[q] = [req[q] EXCEPT !.todo = @ \ {i}]
    BY <1>r, <2>1
  <2>4. req'[q].way = req[q].way /\ req'[q].since = req[q].since /\ req'[q].at = "push"
    BY <1>r, <2>2, <2>3 DEF Session
  <2>5. /\ req'[q].todo \subseteq req[q].todo /\ req'[q].made \subseteq req[q].made \cup {i}
        /\ req'[q].home = req[q].home
    BY <1>r, <2>3 DEF Session
  <2>6. Hand(q)' \subseteq Hand(q)
    BY <2>2, <2>5 DEF Hand
  <2> QED
    BY <1>f, <2>2, <2>4, <2>6
<1>11. CASE FetchEvents(q) \/ FetchGroups(q) \/ FetchPersons(q) \/ LookUp(q) \/ SubmitEvent(q)
            \/ SubmitRecord(q)
  <2>1. req[q].way = "pull" /\ req[q].at \in {"list", "persons", "lookUp", "apply"}
    BY <1>11, <1>r DEF FetchEvents, FetchGroups, FetchPersons, LookUp, SubmitEvent, SubmitRecord,
                       Pushing, Way
  <2>2. \/ Leave(q)
        \/ /\ req'[q].way = req[q].way /\ req'[q].since = req[q].since
           /\ req'[q].at \in {"persons", "lookUp", "apply"}
    <3>1. CASE FetchEvents(q)
      <4> DEFINE news == {r \in Record : written[r] > req[q].since}
                 got == [r \in Record |-> IF r \in news THEN written[r] ELSE 0]
      <4>1. Leave(q) \/ req' = [req EXCEPT ![q].todo = news, ![q].at = "apply", ![q].got = got]
        BY <3>1 DEF FetchEvents
      <4> HIDE DEF news, got
      <4> QED
        BY <1>r, <4>1 DEF Session
    <3>2. CASE FetchGroups(q) \/ FetchPersons(q)
      <4>1. CASE FetchGroups(q)
        <5> DEFINE got == With(q, News(q, Groups))
        <5>1. Leave(q) \/ req' = [req EXCEPT ![q].got = got, ![q].at = "persons"]
          BY <4>1 DEF FetchGroups
        <5> HIDE DEF got
        <5> QED
          BY <1>r, <5>1 DEF Session
      <4>2. CASE FetchPersons(q)
        <5> DEFINE got == With(q, News(q, Persons))
        <5>1. Leave(q) \/ req' = [req EXCEPT ![q].got = got, ![q].at = "lookUp"]
          BY <4>2 DEF FetchPersons
        <5> HIDE DEF got
        <5> QED
          BY <1>r, <5>1 DEF Session
      <4> QED
        BY <3>2, <4>1, <4>2
    <3>3. CASE LookUp(q)
      BY <3>3, <1>r DEF LookUp, Session
    <3>4. CASE SubmitEvent(q) \/ SubmitRecord(q)
      <4>1. PICK r \in req[q].todo : Leave(q) \/ req' = [req EXCEPT ![q].todo = @ \ {r}]
        BY <3>4 DEF SubmitEvent, SubmitRecord
      <4>2. req[q].at = "apply"
        BY <3>4 DEF SubmitEvent, SubmitRecord
      <4> QED
        BY <1>r, <4>1, <4>2 DEF Session
    <3> QED
      BY <1>11, <3>1, <3>2, <3>3, <3>4
  <2> QED
    BY <1>f, <1>l, <2>1, <2>2
<1> QED
  BY <1>1, <1>2, <1>3, <1>4, <1>5, <1>6, <1>7, <1>8, <1>9, <1>10, <1>11 DEF Step

\* The record of a new cursor keeps the order,
LEMMA OrderInserts ==
    ASSUME TypeOK, TypeOK', Shape, Alone, PushAhead, NEW q \in Request,
           InsertCursor(q) \/ DeleteCursor(q), ~overlap', NEW w \in Way, ~torn'[w], Ordered(w)
    PROVE  Ordered(w)'
<1>r. /\ req[q] \in Session /\ Pushing(q) /\ Pulling(q) /\ PushSafe(q) /\ req[q].way \in Way
      /\ q \in DOMAIN req
  BY DEF TypeOK, Session, Shape, PushAhead
<1>k. UNCHANGED <<kind, log, stamp, written>>
  BY DEF InsertCursor, DeleteCursor, env, dataVars
<1>o. \A p \in Request \ {q} : req[p].at = "idle" /\ req'[p] = req[p]
  <2>1. Step(q)
    BY DEF Step
  <2> QED
    BY <2>1, OthersStay, StepsAwake DEF Alone
<1>p. \A p \in Request \ {q} : req'[p].at = "idle" /\ req'[p].way = "push" /\ Hand(p)' = {}
  BY <1>o, Resting DEF Hand
<1>1. CASE DeleteCursor(q)
  <2>1. req' = [req EXCEPT ![q].at = "insert"] /\ Moves(q)
    BY <1>1 DEF DeleteCursor
  <2>2. req'[q] = [req[q] EXCEPT !.at = "insert"]
    BY <1>r, <2>1
  <2>3. /\ req'[q].at = "insert" /\ req'[q].way = req[q].way /\ req'[q].since = req[q].since
        /\ Hand(q)' = Hand(q) /\ req[q].at # "insert"
    BY <1>r, <2>1, <2>2 DEF Session, Hand, Moves
  <2>4. high' = high /\ cursor' = [cursor EXCEPT ![req[q].way] = {}]
    BY <1>1 DEF DeleteCursor
  <2>5. CASE req[q].way = w
    <3>1. cursor'[w] = {}
      BY <2>4, <2>5 DEF TypeOK
    <3>2. ASSUME NEW p \in Request, req'[p].way = w
          PROVE  /\ req'[p].at = "insert" => cursor'[w] = {}
                 /\ req'[p].at = "list" \/ w = "pull" => req'[p].since = high'[w]
                 /\ w = "push" => \A x \in Hand(p)' : stamp'[x] >= high'[w]
      <4>1. CASE p = q
        BY <1>k, <2>3, <2>4, <2>5, <3>1, <4>1 DEF Ordered
      <4>2. CASE p # q
        BY <1>p, <3>2, <4>2
      <4> QED
        BY <4>1, <4>2
    <3> QED
      BY <2>3, <2>5, <3>2 DEF Ordered
  <2>6. CASE req[q].way # w
    <3>1. cursor'[w] = cursor[w] /\ high'[w] = high[w]
      BY <2>4, <2>6 DEF TypeOK
    <3> QED
      BY <1>o, <2>3, <2>6, <3>1, OrderFrom
  <2> QED
    BY <2>5, <2>6
<1>2. CASE InsertCursor(q)
  <2>0. req[q].at = "insert"
    BY <1>2 DEF InsertCursor
  <2> DEFINE new == NewCursor(q)
  <2>1. /\ cursor' = [cursor EXCEPT ![req[q].way] = @ \cup {new}]
        /\ high' = [high EXCEPT ![req[q].way] = Latest({@, new})]
    BY <1>2 DEF InsertCursor
  <2>2. CASE req[q].way # w
    <3>1. cursor'[w] = cursor[w] /\ high'[w] = high[w]
      BY <2>1, <2>2 DEF TypeOK
    <3>2. /\ req'[q].way = w => w = "push" /\ Hand(q)' = {} /\ req'[q].at = "idle"
          /\ ~(req'[q].at = "insert" /\ req'[q].way = w)
      <4>1. CASE req[q].way = "pull"
        <5>1. req'[q] = Idle
          BY <1>2, <1>r, <4>1 DEF InsertCursor, Leave
        <5> QED
          BY <5>1, <2>2, <4>1, Levels DEF Idle, Hand
      <4>2. CASE req[q].way = "push"
        <5>1. req' = [req EXCEPT ![q].at = "push", ![q].made = {}, ![q].home = NoEvent]
          BY <1>2, <4>2 DEF InsertCursor
        <5>2. req'[q].way = "push"
          BY <1>r, <4>2, <5>1 DEF Session
        <5> QED
          BY <2>2, <4>2, <5>2
      <4> QED
        BY <1>r, <4>1, <4>2 DEF Way
    <3> QED
      BY <1>o, <2>2, <3>1, <3>2, OrderFrom
  <2>3. CASE req[q].way = w
    <3>1. cursor'[w] = {new} /\ high'[w] = Latest({high[w], new})
      BY <2>0, <2>1, <2>3 DEF TypeOK, Ordered
    <3>2. new \in Time /\ high[w] \in Time
      BY NewCursorType DEF TypeOK
    <3>3. new >= high[w] /\ (w = "push" => \A x \in req[q].todo : stamp[x] >= new)
      <4>1. CASE w = "pull"
        <5>1. req[q].since = high[w] /\ new > 0
          BY <1>r, <2>0, <2>3, <4>1 DEF Ordered, Pulling
        <5>2. \E s \in Record : new = req[q].got[s]
          <6>1. Range(req[q].got) \in SUBSET Time
            BY DEF TypeOK, Range
          <6> DEFINE dates == Range(req[q].got) \ {0}
                     behind == {t \in dates : After(t, req[q].since)}
          <6>2. new = Latest(IF kind = "openfn" THEN dates ELSE behind)
            BY <2>3, <4>1 DEF NewCursor
          <6>3. dates \in SUBSET Time /\ behind \in SUBSET Time /\ behind \subseteq dates
            BY <6>1
          <6> HIDE DEF behind, dates
          <6>4. new \in dates
            <7>1. CASE kind = "openfn"
              BY <5>1, <6>2, <6>3, <7>1, LatestOf
            <7>2. CASE kind # "openfn"
              BY <5>1, <6>2, <6>3, <7>2, LatestOf
            <7> QED
              BY <7>1, <7>2
          <6> QED
            BY <6>4 DEF dates, Range, TypeOK
        <5> HIDE DEF new
        <5>3. req[q].since < new
          BY <1>r, <2>3, <4>1, <5>1, <5>2 DEF Pulling
        <5> QED
          BY <3>2, <4>1, <5>1, <5>3, Sizes DEF Time
      <4>2. CASE w = "push"
        <5>1. new = Latest(Stamps(req[q].made)) /\ req[q].made \in SUBSET Submission
          BY <2>3, <4>2 DEF NewCursor, TypeOK
        <5>2. Stamps(req[q].made) \in SUBSET Time
          BY <5>1, StampsType
        <5>3. /\ \A y \in req[q].made : stamp[y] <= new
              /\ new > 0 => \E y \in req[q].made : new = stamp[y]
          BY <5>1, <5>2, LatestOf DEF Stamps
        <5> HIDE DEF new
        <5>4. PICK y \in req[q].made : TRUE
          BY <1>r, <2>0, <2>3, <4>2 DEF Pushing
        <5>5. stamp[y] >= high[w]
          BY <2>3, <4>2, <5>1, <5>4 DEF Ordered, Hand
        <5>6. \A x \in Submission : stamp[x] \in Nat
          BY Sizes DEF TypeOK, Time
        <5>7. ASSUME NEW x \in req[q].todo
              PROVE  stamp[x] >= new
          <6>1. kind = "openfn" /\ x \in Submission
            BY <1>r, <2>0, <2>3, <4>2 DEF Pushing, TypeOK
          <6>2. \A z \in req[q].made : stamp[z] <= stamp[x]
            BY <1>r, <2>3, <4>2, <6>1 DEF PushSafe
          <6> QED
            BY <3>2, <5>3, <5>6, <6>1, <6>2, Sizes DEF Time
        <5>8. new >= high[w]
          BY <3>2, <5>1, <5>3, <5>5, <5>6, Sizes DEF Time
        <5> QED
          BY <4>2, <5>7, <5>8
      <4> QED
        BY <4>1, <4>2 DEF Way
    <3> HIDE DEF new
    <3>4. high'[w] = new /\ Stored(w)' = new
      <4> DEFINE T == {high[w], new}
                 U == {new}
      <4>1. T \in SUBSET Time /\ U \in SUBSET Time /\ new \in T /\ new \in U
        BY <3>2
      <4>2. (\A t \in T : t = high[w] \/ t = new) /\ (\A t \in U : t = new)
        OBVIOUS
      <4>3. high'[w] = Latest(T) /\ Stored(w)' = Latest(U)
        BY <3>1 DEF Stored
      <4> HIDE DEF T, U
      <4>4. /\ Latest(T) \in Time /\ new <= Latest(T) /\ (Latest(T) > 0 => Latest(T) \in T)
            /\ Latest(U) \in Time /\ new <= Latest(U) /\ (Latest(U) > 0 => Latest(U) \in U)
        BY <4>1, LatestOf
      <4> QED
        BY <3>2, <3>3, <4>2, <4>3, <4>4, Sizes DEF Time
    <3>5. ASSUME NEW p \in Request, req'[p].way = w
          PROVE  /\ req'[p].at = "insert" => cursor'[w] = {}
                 /\ req'[p].at = "list" \/ w = "pull" => req'[p].since = high'[w]
                 /\ w = "push" => \A x \in Hand(p)' : stamp'[x] >= high'[w]
      <4>1. CASE p = q
        <5>1. CASE w = "pull"
          <6>1. req'[q] = Idle
            BY <1>2, <1>r, <2>3, <5>1 DEF InsertCursor, Leave
          <6> QED
            BY <3>5, <4>1, <5>1, <6>1 DEF Idle
        <5>2. CASE w = "push"
          <6>1. req' = [req EXCEPT ![q].at = "push", ![q].made = {}, ![q].home = NoEvent]
            BY <1>2, <2>3, <5>2 DEF InsertCursor
          <6>2. /\ req'[q].at = "push" /\ req'[q].made = {} /\ req'[q].home = NoEvent
                /\ req'[q].todo = req[q].todo
            BY <1>r, <6>1 DEF Session
          <6>3. Hand(q)' \subseteq req[q].todo
            BY <6>2, Levels DEF Hand
          <6> QED
            BY <1>k, <3>3, <3>4, <4>1, <5>2, <6>2, <6>3
        <5> QED
          BY <5>1, <5>2 DEF Way
      <4>2. CASE p # q
        BY <1>p, <3>5, <4>2
      <4> QED
        BY <4>1, <4>2
    <3> QED
      BY <3>4, <3>5 DEF Ordered
  <2> QED
    BY <2>2, <2>3
<1> QED
  BY <1>1, <1>2

\* and so does every step.
LEMMA OrderNext ==
    ASSUME TypeOK, TypeOK', Shape, Alone, PushAhead, InOrder, [Next]_vars
    PROVE  InOrder'
<1> SUFFICES ASSUME ~overlap', NEW w \in Way, ~torn'[w]
             PROVE  Ordered(w)'
  BY DEF InOrder
<1>1. ASSUME UNCHANGED <<req, high, cursor, overlap, torn>>, \A x \in log : stamp'[x] = stamp[x]
      PROVE  Ordered(w)'
  <2>1. Ordered(w)
    BY <1>1 DEF InOrder
  <2>2. \A p \in Request : req[p].way = "push" => Hand(p) \subseteq log
    BY Levels DEF Shape, Pushing, Hand
  <2>3. \A p \in Request : Hand(p)' = Hand(p)
    BY <1>1 DEF Hand
  <2> QED
    BY <1>1, <2>1, <2>2, <2>3 DEF Ordered, Stored
<1>2. CASE \/ UNCHANGED vars \/ Tick \/ \E r \in Record : Write(r)
  BY <1>1, <1>2 DEF vars, calm, dataVars, Tick, Write
<1>3. ASSUME NEW x \in Event, NEW t \in 1 .. MaxClock, Arrive(x, t)
      PROVE  Ordered(w)'
  BY <1>1, <1>3 DEF Arrive, calm, TypeOK
<1>4. CASE Restart
  <2>1. /\ UNCHANGED <<high, cursor, overlap, stamp>> /\ torn' = Torn(Request)
        /\ \A p \in Request : req'[p] = Idle
    BY <1>4 DEF Restart, env, dataVars
  <2>2. ~torn[w] /\ \A p \in Request : ~(req[p].at = "insert" /\ req[p].way = w)
    BY <2>1 DEF Torn
  <2>3. Stored(w) = high[w]
    BY <2>1, <2>2 DEF InOrder, Ordered
  <2>4. \A p \in Request : req'[p].at = "idle" /\ req'[p].way = "push" /\ Hand(p)' = {}
    BY <2>1, Levels DEF Idle, Hand
  <2> QED
    BY <2>1, <2>3, <2>4 DEF Ordered, Stored
<1>5. ASSUME NEW q \in Request, Begin(q) \/ Step(q) \/ StoreFails(q)
      PROVE  Ordered(w)'
  <2>1. ~overlap
    <3>1. CASE Begin(q)
      BY <3>1 DEF Begin
    <3>2. CASE Step(q) \/ StoreFails(q)
      BY <3>2, StepsAwake
    <3> QED
      BY <1>5, <3>1, <3>2
  <2>2. ~torn[w]
    <3>1. torn' = torn \/ torn' = Torn({q})
      <4>1. CASE InsertCursor(q) \/ DeleteCursor(q) \/ Begin(q) \/ StoreFails(q)
        BY <4>1 DEF InsertCursor, DeleteCursor, Begin, StoreFails, calm
      <4> QED
        BY <1>5, <4>1 DEF Step, Login, ReadCursor, EndPull, ListEvents, PushBatch, FetchEvents,
           SubmitEvent, ListRegistrants, CreateHousehold, LinkHousehold, CreateIndividual, FetchGroups,
           FetchPersons, LookUp, SubmitRecord, calm
    <3> QED
      BY <3>1 DEF Torn
  <2>3. Ordered(w)
    BY <2>1, <2>2 DEF InOrder
  <2> QED
    BY <1>5, <2>3, OrderRequests, OrderInserts
<1> QED
  BY <1>2, <1>3, <1>4, <1>5 DEF Next

-----------------------------------------------------------------------------
(* Entities.                                                               *)

\* No step makes a second copy of a record, without an overlap.
LEMMA EntityNext ==
    ASSUME TypeOK, TypeOK', Shape, Alone, SingleEntity, [Next]_vars
    PROVE  SingleEntity'
<1> SUFFICES ASSUME ~overlap'
             PROVE  /\ \A r \in Record : copies'[r] <= 1
                    /\ kind' = "openspp" => \A q \in Request : req'[q].at = "apply" =>
                          \A r \in req'[q].todo \cap req'[q].fresh : copies'[r] = 0
  BY DEF SingleEntity
<1>c. copies \in [Record -> 0 .. 2]
  BY DEF TypeOK
\* Entities stay, and every request is where it was or not about to submit.
<1>f. ASSUME UNCHANGED <<kind, copies, overlap>>,
             \A p \in Request : req'[p] = req[p] \/ req'[p].at # "apply"
      PROVE  SingleEntity'
  BY <1>f DEF SingleEntity
<1>1. CASE \/ UNCHANGED vars \/ Tick \/ \E r \in Record : Write(r)
           \/ \E x \in Event, t \in 1 .. MaxClock : Arrive(x, t)
  <2>1. UNCHANGED <<kind, copies, overlap, req>>
    BY <1>1 DEF vars, env, calm, dataVars, Tick, Write, Arrive
  <2> QED
    BY <1>f, <2>1 DEF SingleEntity
<1>2. CASE Restart
  <2>1. UNCHANGED <<kind, copies, overlap>> /\ \A p \in Request : req'[p].at = "idle"
    BY <1>2 DEF Restart, env, dataVars, Idle
  <2> QED
    BY <1>f, <2>1 DEF SingleEntity
<1>3. ASSUME NEW q \in Request, Begin(q) \/ Step(q) \/ StoreFails(q)
      PROVE  SingleEntity'
  <2>r. /\ req[q] \in Session /\ Pushing(q) /\ Pulling(q) /\ req[q].way \in Way
        /\ q \in DOMAIN req
    BY DEF TypeOK, Session, Shape
  <2>o. \A p \in Request \ {q} : req'[p] = req[p]
    BY <1>3, OthersStay
  <2>1. CASE Begin(q)
    <3>1. UNCHANGED <<kind, copies>> /\ req'[q].at \in {"login", "read"} /\ ~overlap
      BY <2>r, <2>1 DEF Begin, env, dataVars, Session
    <3> QED
      BY <2>o, <3>1 DEF SingleEntity
  <2>2. CASE Step(q) \/ StoreFails(q)
    <3>1. overlap' = overlap /\ req[q].at # "idle"
      BY <2>2, StepsAwake
    <3>2. \A p \in Request \ {q} : req'[p].at = "idle"
      BY <2>o, <3>1 DEF Alone
    <3>3. CASE SubmitEvent(q)
      <4>1. PICK r \in req[q].todo : SubmitEvent(q)!2!(r)
        BY <3>3 DEF SubmitEvent
      <4>2. kind = "openfn" /\ kind' = kind
        BY <3>3 DEF SubmitEvent, env
      <4>3. r \in Record
        BY <2>r, <3>3, <4>1 DEF SubmitEvent, Pushing, Pulling, Way
      <4>4. CASE copies' = copies
        BY <3>1, <4>2, <4>4 DEF SingleEntity
      <4>5. CASE r \notin log /\ copies' = [copies EXCEPT ![r] = More(@)]
        <5>1. copies[r] = 0
          BY <1>c, <4>2, <4>3, <4>5 DEF Shape, Logged
        <5>2. copies'[r] = 1 /\ \A x \in Record \ {r} : copies'[x] = copies[x]
          BY <1>c, <4>3, <4>5, <5>1 DEF More
        <5> QED
          BY <3>1, <4>2, <5>2 DEF SingleEntity
      <4> QED
        BY <4>1, <4>4, <4>5 DEF dataVars
    <3>4. CASE LookUp(q)
      <4>1. UNCHANGED <<kind, copies>>
        BY <3>4 DEF LookUp, env, dataVars
      <4> DEFINE R == {r \in Record : req[q].got[r] > 0}
      <4>2. req' = [req EXCEPT ![q].todo = R, ![q].fresh = Fresh(R), ![q].at = "apply"]
        BY <3>4 DEF LookUp
      <4>3. \A r \in Fresh(R) : copies[r] = 0
        BY <1>c DEF Fresh, Known
      <4> HIDE DEF R
      <4>4. req'[q].fresh = Fresh(R)
        BY <2>r, <4>2 DEF Session
      <4> QED
        BY <3>1, <3>2, <4>1, <4>3, <4>4 DEF SingleEntity
    <3>5. CASE SubmitRecord(q)
      <4>1. PICK r \in req[q].todo : SubmitRecord(q)!2!(r)
        BY <3>5 DEF SubmitRecord
      <4>2. kind = "openspp" /\ kind' = kind /\ req[q].at = "apply"
        BY <3>5 DEF SubmitRecord, env
      <4>3. r \in Record
        BY <2>r, <4>1, <4>2 DEF Pushing, Pulling, Way
      <4>4. /\ req'[q].todo = req[q].todo \ {r} /\ req'[q].fresh = req[q].fresh
        BY <2>r, <4>1 DEF Session
      <4>5. \A x \in req[q].todo \cap req[q].fresh : copies[x] = 0
        BY <3>1, <4>2 DEF SingleEntity
      <4>6. CASE copies' = copies
        BY <3>1, <3>2, <4>2, <4>4, <4>5, <4>6 DEF SingleEntity
      <4>7. CASE copies' = Transformed(q, r)
        <5>1. copies' = [copies EXCEPT ![r] = IF r \in req[q].fresh THEN More(@) ELSE @]
          BY <4>7 DEF Transformed
        <5>2. \A x \in Record \ {r} : copies'[x] = copies[x]
          BY <1>c, <5>1
        <5>3. copies'[r] <= 1
          <6>1. CASE r \in req[q].fresh
            <7>1. copies'[r] = 1
              BY <1>c, <4>3, <4>5, <5>1, <6>1 DEF More
            <7> QED
              BY <7>1
          <6>2. CASE r \notin req[q].fresh
            BY <1>c, <3>1, <4>3, <5>1, <6>2 DEF SingleEntity
          <6> QED
            BY <6>1, <6>2
        <5>4. \A x \in Record : copies'[x] <= 1
          BY <3>1, <5>2, <5>3 DEF SingleEntity
        <5>5. \A x \in req'[q].todo \cap req'[q].fresh : copies'[x] = 0
          <6>1. req[q].fresh \subseteq Record
            BY <2>r DEF Session
          <6> QED
            BY <4>4, <4>5, <5>2, <6>1
        <5> QED
          BY <3>2, <5>4, <5>5 DEF SingleEntity
      <4> QED
        BY <4>1, <4>6, <4>7
    <3>6. CASE ~(SubmitEvent(q) \/ LookUp(q) \/ SubmitRecord(q))
      <4>1. UNCHANGED <<kind, copies>>
        <5>1. CASE StoreFails(q) \/ InsertCursor(q) \/ DeleteCursor(q) \/ Login(q)
          BY <5>1 DEF StoreFails, InsertCursor, DeleteCursor, Login, env, dataVars
        <5> QED
          BY <2>2, <3>6, <5>1 DEF Step, ReadCursor, EndPull, ListEvents, PushBatch, FetchEvents,
            ListRegistrants, CreateHousehold, LinkHousehold, CreateIndividual, FetchGroups,
            FetchPersons, env, dataVars
      <4>2. kind = "openspp" => req'[q].at # "apply"
        <5>1. CASE Leave(q)
          BY <2>r, <5>1 DEF Leave, Idle
        <5>2. CASE Login(q) \/ EndPull(q) \/ StoreFails(q)
          BY <2>r, <5>1, <5>2 DEF Login, EndPull, StoreFails, Session
        <5>3. CASE ReadCursor(q) \/ DeleteCursor(q)
          BY <2>r, <5>3 DEF ReadCursor, DeleteCursor, Session
        <5>4. CASE InsertCursor(q)
          BY <2>r, <5>1, <5>4 DEF InsertCursor, Session
        <5>5. CASE ListEvents(q) \/ PushBatch(q) \/ FetchEvents(q)
          BY <5>5 DEF ListEvents, PushBatch, FetchEvents
        <5>6. CASE ListRegistrants(q) \/ LinkHousehold(q)
          BY <2>r, <5>6 DEF ListRegistrants, LinkHousehold, Session
        <5>7. CASE CreateHousehold(q)
          <6>1. PICK h \in req[q].todo \cap Household :
               \/ req' = [req EXCEPT ![q].home = h, ![q].todo = @ \ {h}, ![q].at = "link"]
               \/ req' = [req EXCEPT ![q].todo = @ \ ({h} \cup Members(q, h))]
            BY <5>7 DEF CreateHousehold
          <6>2. req[q].at = "push"
            BY <5>7 DEF CreateHousehold
          <6> QED
            BY <2>r, <6>1, <6>2 DEF Session
        <5>8. CASE CreateIndividual(q)
          <6>1. PICK i \in Members(q, req[q].home) :
               \/ req' = [req EXCEPT ![q].todo = @ \ {i}, ![q].made = @ \cup {i}]
               \/ req' = [req EXCEPT ![q].todo = @ \ {i}]
            BY <5>8 DEF CreateIndividual
          <6>2. req[q].at = "push"
            BY <5>8 DEF CreateIndividual
          <6> QED
            BY <2>r, <6>1, <6>2 DEF Session
        <5>9. CASE FetchGroups(q)
          <6>1. Leave(q) \/ req' = [req EXCEPT ![q].got = With(q, News(q, Groups)), ![q].at = "persons"]
            BY <5>9 DEF FetchGroups
          <6> QED
            BY <2>r, <5>1, <6>1 DEF Session
        <5>10. CASE FetchPersons(q)
          <6>1. Leave(q) \/ req' = [req EXCEPT ![q].got = With(q, News(q, Persons)), ![q].at = "lookUp"]
            BY <5>10 DEF FetchPersons
          <6> QED
            BY <2>r, <5>1, <6>1 DEF Session
        <5> QED
          BY <2>2, <3>6, <5>2, <5>3, <5>4, <5>5, <5>6, <5>7, <5>8, <5>9, <5>10 DEF Step
      <4> QED
        BY <3>1, <3>2, <4>1, <4>2 DEF SingleEntity
    <3> QED
      BY <3>3, <3>4, <3>5, <3>6
  <2> QED
    BY <1>3, <2>1, <2>2
<1> QED
  BY <1>1, <1>2, <1>3 DEF Next, SingleEntity

-----------------------------------------------------------------------------
(* Nothing is sent twice.                                                  *)

\* A fault leaves its mark.
LEMMA NoFault ==
    ASSUME TypeOK, faults' = 0, [Next]_vars
    PROVE  faults = 0 /\ ~Fault /\ torn' = torn
<1>1. faults \in Nat
  BY DEF TypeOK
<1>2. ~Fault
  BY <1>1 DEF Fault
<1>3. CASE \/ UNCHANGED vars \/ Tick \/ Restart
           \/ \E r \in Record : Write(r)
           \/ \E x \in Event, t \in 1 .. MaxClock : Arrive(x, t)
  BY <1>2, <1>3 DEF vars, calm, Tick, Restart, Write, Arrive
<1>4. ASSUME NEW q \in Request, Begin(q) \/ Step(q) \/ StoreFails(q)
      PROVE  faults = 0 /\ torn' = torn
  <2>1. CASE \/ Begin(q) \/ Login(q) \/ ReadCursor(q) \/ DeleteCursor(q) \/ InsertCursor(q)
             \/ EndPull(q) \/ StoreFails(q)
    BY <1>2, <2>1 DEF Begin, Login, ReadCursor, DeleteCursor, InsertCursor, EndPull, StoreFails, calm
  <2>2. CASE ListEvents(q) \/ PushBatch(q) \/ FetchEvents(q) \/ SubmitEvent(q)
    BY <1>2, <2>2 DEF ListEvents, PushBatch, FetchEvents, SubmitEvent, calm
  <2>3. CASE \/ ListRegistrants(q) \/ CreateHousehold(q) \/ LinkHousehold(q) \/ CreateIndividual(q)
             \/ FetchGroups(q) \/ FetchPersons(q) \/ LookUp(q) \/ SubmitRecord(q)
    BY <1>2, <2>3 DEF ListRegistrants, CreateHousehold, LinkHousehold, CreateIndividual, FetchGroups,
                      FetchPersons, LookUp, SubmitRecord, Fails, calm
  <2> QED
    BY <1>4, <2>1, <2>2, <2>3 DEF Step
<1> QED
  BY <1>2, <1>3, <1>4 DEF Next

\* The others rest; q sends S, or nothing, and keeps what it sent in hand until
\* the cursor is past it.
LEMMA BehindStep ==
    ASSUME TypeOK, TypeOK', Shape, Behind, NEW q \in Request,
           \A p \in Request \ {q} : req[p].at = "idle" /\ req'[p] = req[p],
           \A x \in log : stamp'[x] = stamp[x], high["push"] <= high'["push"],
           NEW S \in SUBSET req[q].todo, S = {} \/ (req[q].way = "push" /\ req'[q].way = "push"),
           \A x \in Submission : outside'[x] = IF x \in S THEN More(outside[x]) ELSE outside[x],
           S \subseteq req'[q].made \cup {req'[q].home},
           req'[q].way = "push" =>
               req'[q].todo \subseteq req[q].todo \ S /\ (req[q].way = "push" \/ req'[q].todo = {}),
           req[q].way = "push" => \A x \in log \cap (req[q].made \cup {req[q].home}) :
               \/ req'[q].way = "push" /\ x \in req'[q].made \cup {req'[q].home}
               \/ stamp[x] <= high'["push"]
    PROVE  Behind'
<1>1. \A p \in Request \ {q} : /\ req'[p].way = "push" /\ req'[p].todo = {}
                               /\ req[p].made = {} /\ req[p].home = NoEvent
  BY Resting
<1>2. \A x \in Submission : outside[x] \in 0 .. 2 /\ stamp[x] \in Nat
  BY Sizes DEF TypeOK, Time
<1>3. high["push"] \in Nat /\ high'["push"] \in Nat
  BY Sizes DEF TypeOK, Time, Way
<1>s. S \subseteq Submission /\ req[q].todo \subseteq Submission
  BY DEF TypeOK
<1>4. ASSUME NEW p \in Request, req'[p].way = "push", NEW x \in req'[p].todo
      PROVE  outside'[x] = 0
  <2>1. p = q
    BY <1>1, <1>4
  <2>2. x \in req[q].todo \ S /\ req[q].way = "push"
    BY <1>4, <2>1
  <2> QED
    BY <1>s, <2>2 DEF Behind
<1>5. ASSUME NEW x \in Submission, outside'[x] > 0
      PROVE  /\ outside'[x] = 1
             /\ \/ stamp'[x] <= high'["push"]
                \/ \E p \in Request : req'[p].way = "push" /\ x \in req'[p].made \cup {req'[p].home}
  <2>1. CASE x \in S
    <3>1. outside[x] = 0
      BY <2>1 DEF Behind
    <3>2. outside'[x] = 1
      BY <2>1, <3>1 DEF More
    <3> QED
      BY <2>1, <3>2
  <2>2. CASE x \notin S
    <3>1. outside[x] > 0 /\ outside'[x] = outside[x] /\ x \in log
      BY <1>5, <2>2 DEF Shape, Logged
    <3>2. /\ outside[x] = 1
          /\ \/ stamp[x] <= high["push"]
             \/ \E p \in Request : req[p].way = "push" /\ x \in req[p].made \cup {req[p].home}
      BY <3>1 DEF Behind
    <3>3. CASE stamp[x] <= high["push"]
      BY <1>2, <1>3, <3>1, <3>2, <3>3
    <3>4. CASE req[q].way = "push" /\ x \in req[q].made \cup {req[q].home}
      BY <3>1, <3>2, <3>4
    <3>5. x # NoEvent
      BY Levels
    <3> QED
      BY <1>1, <3>2, <3>3, <3>4, <3>5
  <2> QED
    BY <2>1, <2>2
<1> QED
  BY <1>4, <1>5 DEF Behind

\* What is listed to be pushed lies after the cursor, and what was sent before it.
LEMMA BehindLists ==
    ASSUME TypeOK, TypeOK', Shape, Behind, Ordered("push"), NEW q \in Request,
           ListEvents(q) \/ ListRegistrants(q),
           \A p \in Request \ {q} : req[p].at = "idle" /\ req'[p] = req[p]
    PROVE  Behind'
<1>r. req[q] \in Session /\ Pushing(q) /\ q \in DOMAIN req
  BY DEF TypeOK, Session, Shape
<1>k. UNCHANGED <<stamp, outside, high>>
  BY DEF ListEvents, ListRegistrants, dataVars
<1>1. PICK S : req' = [req EXCEPT ![q].todo = S, ![q].at = "push"]
               /\ \A x \in S : x \in log /\ stamp[x] > req[q].since
  <2>1. CASE ListEvents(q)
    <3> DEFINE new == {x \in log : stamp[x] > req[q].since}
    <3>1. \A x \in new : x \in log /\ stamp[x] > req[q].since
      OBVIOUS
    <3>2. req' = [req EXCEPT ![q].todo = new, ![q].at = "push"]
      BY <2>1 DEF ListEvents
    <3> HIDE DEF new
    <3> QED
      BY <3>1, <3>2
  <2>2. CASE ListRegistrants(q)
    <3> DEFINE new == Grouped(Filtered(q))
    <3>1. \A x \in new : x \in log /\ stamp[x] > req[q].since
      BY Levels DEF Grouped, Filtered
    <3>2. req' = [req EXCEPT ![q].todo = new, ![q].at = "push"]
      BY <2>2 DEF ListRegistrants
    <3> HIDE DEF new
    <3> QED
      BY <3>1, <3>2
  <2> QED
    BY <2>1, <2>2
<1>2. req[q].at = "list" /\ req[q].way = "push" /\ req[q].since = high["push"]
  BY DEF ListEvents, ListRegistrants, Ordered
<1>3. /\ req'[q].todo = S /\ req'[q].made = req[q].made /\ req'[q].home = req[q].home
      /\ req'[q].way = "push"
  BY <1>r, <1>1, <1>2 DEF Session
<1>4. \A p \in Request : req[p].made = {} /\ req[p].home = NoEvent
  BY <1>r, <1>2, Resting DEF Pushing
<1>5. \A p \in Request \ {q} : req'[p].todo = {}
  BY Resting
<1>6. ASSUME NEW x \in S
      PROVE  outside[x] = 0
  <2>1. x \in Submission /\ x # NoEvent /\ stamp[x] \in Nat /\ high["push"] \in Nat
        /\ outside[x] \in 0 .. 2
    BY <1>1, Levels, Sizes DEF TypeOK, Time, Way
  <2>2. ~(stamp[x] <= high["push"])
    BY <1>1, <1>2, <2>1
  <2> QED
    BY <1>4, <2>1, <2>2 DEF Behind
<1>7. \A x \in Submission : outside[x] > 0 => outside[x] = 1 /\ stamp[x] <= high["push"]
  BY <1>4, Levels DEF Behind
<1> QED
  BY <1>k, <1>3, <1>5, <1>6, <1>7 DEF Behind

\* A request under way, without a fault, sends what nobody has sent.
LEMMA BehindRequest ==
    ASSUME TypeOK, TypeOK', Shape, LoggedIn, Behind, Ordered("push"), Ordered("push")',
           high["push"] <= high'["push"], ~Fault,
           NEW q \in Request, Step(q),
           \A p \in Request \ {q} : req[p].at = "idle" /\ req'[p] = req[p]
    PROVE  Behind'
<1> USE DEF env, dataVars, gaps, calm
<1>r. /\ req[q] \in Session /\ Pushing(q) /\ Pulling(q) /\ req[q].way \in Way
      /\ q \in DOMAIN req
  BY DEF TypeOK, Session, Shape
<1>s. \A x \in log : stamp'[x] = stamp[x]
  <2>1. CASE SubmitEvent(q)
    <3>1. PICK r \in req[q].todo : SubmitEvent(q)!2!(r)
      BY <2>1 DEF SubmitEvent
    <3>2. stamp' = stamp \/ (r \notin log /\ stamp' = [stamp EXCEPT ![r] = req[q].got[r]])
      BY <3>1
    <3> QED
      BY <3>2 DEF TypeOK
  <2> QED
    BY <2>1 DEF Step, Login, ReadCursor, DeleteCursor, InsertCursor, EndPull, ListEvents, PushBatch,
         FetchEvents, ListRegistrants, CreateHousehold, LinkHousehold, CreateIndividual, FetchGroups,
         FetchPersons, LookUp, SubmitRecord
\* Nothing is sent, and the hand stays.
<1>f. ASSUME outside' = outside, req'[q].way = req[q].way,
             req'[q].way = "push" => /\ req'[q].todo \subseteq req[q].todo
                                     /\ req[q].made \cup {req[q].home} \subseteq req'[q].made \cup {req'[q].home}
      PROVE  Behind'
  <2> DEFINE S == {}
  <2>1. /\ S \in SUBSET req[q].todo /\ (S = {} \/ (req[q].way = "push" /\ req'[q].way = "push"))
        /\ \A x \in Submission : outside'[x] = IF x \in S THEN More(outside[x]) ELSE outside[x]
        /\ S \subseteq req'[q].made \cup {req'[q].home}
    BY <1>f
  <2>2. req'[q].way = "push" =>
               req'[q].todo \subseteq req[q].todo \ S /\ (req[q].way = "push" \/ req'[q].todo = {})
    BY <1>f
  <2>3. req[q].way = "push" => \A x \in log \cap (req[q].made \cup {req[q].home}) :
               \/ req'[q].way = "push" /\ x \in req'[q].made \cup {req'[q].home}
               \/ stamp[x] <= high'["push"]
    BY <1>f
  <2> HIDE DEF S
  <2> QED
    BY <1>s, <2>1, <2>2, <2>3, BehindStep
\* Nothing is sent, and a pull ends.
<1>l. ASSUME outside' = outside, req[q].way = "pull", Leave(q)
      PROVE  Behind'
  <2>1. req'[q].todo = {}
    BY <1>r, <1>l DEF Leave, Idle
  <2> DEFINE S == {}
  <2>2. /\ S \in SUBSET req[q].todo /\ (S = {} \/ (req[q].way = "push" /\ req'[q].way = "push"))
        /\ \A x \in Submission : outside'[x] = IF x \in S THEN More(outside[x]) ELSE outside[x]
        /\ S \subseteq req'[q].made \cup {req'[q].home}
    BY <1>l
  <2>3. req'[q].way = "push" =>
               req'[q].todo \subseteq req[q].todo \ S /\ (req[q].way = "push" \/ req'[q].todo = {})
    BY <2>1
  <2>4. req[q].way = "push" => \A x \in log \cap (req[q].made \cup {req[q].home}) :
               \/ req'[q].way = "push" /\ x \in req'[q].made \cup {req'[q].home}
               \/ stamp[x] <= high'["push"]
    BY <1>l
  <2> HIDE DEF S
  <2> QED
    BY <1>s, <2>2, <2>3, <2>4, BehindStep
\* It sends S.
<1>p. ASSUME NEW S \in SUBSET req[q].todo, Send(S), req[q].way = "push", req'[q].way = "push",
             S \subseteq req'[q].made \cup {req'[q].home}, req'[q].todo \subseteq req[q].todo \ S,
             \A x \in log \cap (req[q].made \cup {req[q].home}) : x \in req'[q].made \cup {req'[q].home}
      PROVE  Behind'
  <2>1. \A x \in Submission : outside'[x] = IF x \in S THEN More(outside[x]) ELSE outside[x]
    BY <1>p DEF Send
  <2> QED
    BY <1>p, <1>s, <2>1, BehindStep
<1>1. CASE Login(q)
  <2>1. req' = [req EXCEPT ![q].at = "read"] /\ outside' = outside
    BY <1>1 DEF Login
  <2>2. /\ req'[q].way = req[q].way /\ req'[q].todo = req[q].todo /\ req'[q].made = req[q].made
        /\ req'[q].home = req[q].home
    BY <1>r, <2>1 DEF Session
  <2> QED
    BY <1>f, <2>1, <2>2
<1>2. CASE ReadCursor(q)
  <2>0. outside' = outside
    BY <1>2 DEF ReadCursor
  <2>1. CASE req[q].at = "read"
    <3>1. req' = [req EXCEPT ![q].since = Stored("push"), ![q].at = "list"]
      BY <1>2, <2>1 DEF ReadCursor, PushEnded
    <3>2. /\ req'[q].way = req[q].way /\ req'[q].todo = req[q].todo /\ req'[q].made = req[q].made
          /\ req'[q].home = req[q].home
      BY <1>r, <3>1 DEF Session
    <3> QED
      BY <1>f, <2>0, <3>2
  <2>2. CASE req[q].at # "read"
    <3>1. /\ PushEnded(q)
          /\ req' = [req EXCEPT ![q].since = Stored("pull"), ![q].way = "pull", ![q].at = "list"]
      BY <1>2, <2>2 DEF ReadCursor
    <3>2. req'[q].way = "pull"
      BY <1>r, <3>1 DEF Session
    <3>3. req[q].made = {} /\ req[q].home = NoEvent
      BY <1>r, <3>1 DEF PushEnded, Pushing, Pulling, Way
    <3>4. \A x \in log : x # NoEvent
      BY Levels DEF TypeOK
    <3> DEFINE S == {}
    <3>5. /\ S \in SUBSET req[q].todo /\ (S = {} \/ (req[q].way = "push" /\ req'[q].way = "push"))
          /\ \A x \in Submission : outside'[x] = IF x \in S THEN More(outside[x]) ELSE outside[x]
          /\ S \subseteq req'[q].made \cup {req'[q].home}
      BY <2>0
    <3>6. req'[q].way = "push" =>
             req'[q].todo \subseteq req[q].todo \ S /\ (req[q].way = "push" \/ req'[q].todo = {})
      BY <3>2
    <3>7. req[q].way = "push" => \A x \in log \cap (req[q].made \cup {req[q].home}) :
               \/ req'[q].way = "push" /\ x \in req'[q].made \cup {req'[q].home}
               \/ stamp[x] <= high'["push"]
      BY <3>3, <3>4
    <3> HIDE DEF S
    <3> QED
      BY <1>s, <3>5, <3>6, <3>7, BehindStep
  <2> QED
    BY <2>1, <2>2
<1>3. CASE DeleteCursor(q)
  <2>1. req' = [req EXCEPT ![q].at = "insert"] /\ outside' = outside
    BY <1>3 DEF DeleteCursor
  <2>2. /\ req'[q].way = req[q].way /\ req'[q].todo = req[q].todo /\ req'[q].made = req[q].made
        /\ req'[q].home = req[q].home
    BY <1>r, <2>1 DEF Session
  <2> QED
    BY <1>f, <2>1, <2>2
<1>4. CASE InsertCursor(q)
  <2>0. outside' = outside /\ req[q].at = "insert"
    BY <1>4 DEF InsertCursor
  <2>1. CASE req[q].way = "pull"
    BY <1>4, <1>l, <2>0, <2>1 DEF InsertCursor
  <2>2. CASE req[q].way = "push"
    <3>1. req' = [req EXCEPT ![q].at = "push", ![q].made = {}, ![q].home = NoEvent]
      BY <1>4, <2>2 DEF InsertCursor
    <3>2. req'[q].way = "push" /\ req'[q].todo = req[q].todo
      BY <1>r, <2>2, <3>1 DEF Session
    <3>3. ASSUME NEW x \in log, x \in req[q].made \cup {req[q].home}
          PROVE  stamp[x] <= high'["push"]
      <4>1. x \in req[q].made
        BY <1>r, <2>0, <2>2, <3>3, Levels DEF Pushing, TypeOK
      <4> DEFINE new == Latest(Stamps(req[q].made))
      <4>2. Stamps(req[q].made) \in SUBSET Time /\ stamp[x] \in Stamps(req[q].made)
        <5>1. req[q].made \in SUBSET Submission
          BY DEF TypeOK
        <5> QED
          BY <4>1, <5>1, StampsType DEF Stamps
      <4>3. stamp[x] <= new /\ new \in Time
        BY <4>2, LatestOf
      <4>4. high'["push"] = Latest({high["push"], new})
        BY <1>4, <2>2 DEF InsertCursor, NewCursor, TypeOK, Way
      <4> HIDE DEF new
      <4>5. {high["push"], new} \in SUBSET Time /\ new \in {high["push"], new}
        BY <4>3 DEF TypeOK, Way
      <4>6. new <= high'["push"] /\ high'["push"] \in Time
        BY <4>4, <4>5, LatestOf
      <4> QED
        BY <4>2, <4>3, <4>6, Sizes DEF Time
    <3> DEFINE S == {}
    <3>5. /\ S \in SUBSET req[q].todo /\ (S = {} \/ (req[q].way = "push" /\ req'[q].way = "push"))
          /\ \A x \in Submission : outside'[x] = IF x \in S THEN More(outside[x]) ELSE outside[x]
          /\ S \subseteq req'[q].made \cup {req'[q].home}
      BY <2>0
    <3>6. req'[q].way = "push" =>
             req'[q].todo \subseteq req[q].todo \ S /\ (req[q].way = "push" \/ req'[q].todo = {})
      BY <2>2, <3>2
    <3>7. req[q].way = "push" => \A x \in log \cap (req[q].made \cup {req[q].home}) :
               \/ req'[q].way = "push" /\ x \in req'[q].made \cup {req'[q].home}
               \/ stamp[x] <= high'["push"]
      BY <3>3
    <3> HIDE DEF S
    <3> QED
      BY <1>s, <3>5, <3>6, <3>7, BehindStep
  <2> QED
    BY <1>r, <2>1, <2>2 DEF Way
<1>5. CASE EndPull(q)
  <2>1. req[q].way = "pull" /\ outside' = outside /\ Leave(q)
    BY <1>5, <1>r DEF EndPull, Pushing, Way
  <2> QED
    BY <1>l, <2>1
<1>6. CASE ListEvents(q) \/ ListRegistrants(q)
  BY <1>6, BehindLists
<1>7. CASE PushBatch(q)
  <2>1. PICK B \in Batches(req[q].todo) :
           Send(B) /\ req' = [req EXCEPT ![q].todo = @ \ B, ![q].made = B]
    BY <1>7 DEF PushBatch
  <2>2. B \in SUBSET req[q].todo
    BY DEF Batches
  <2>3. req[q].made = {} /\ req[q].home = NoEvent /\ req[q].way = "push"
    BY <1>7, <1>r DEF PushBatch, Pushing, Pulling, Way
  <2>4. req'[q].way = "push" /\ req'[q].todo = req[q].todo \ B /\ req'[q].made = B
    BY <1>r, <2>1, <2>3 DEF Session
  <2>5. \A x \in log : x # NoEvent
    BY Levels DEF TypeOK
  <2>6. \A x \in log \cap (req[q].made \cup {req[q].home}) : x \in req'[q].made \cup {req'[q].home}
    BY <2>3, <2>5
  <2> QED
    BY <1>p, <2>1, <2>2, <2>3, <2>4, <2>6
<1>8. CASE CreateHousehold(q)
  <2>0. req[q].at = "push" /\ kind = "openspp" /\ req[q].way = "push"
    BY <1>8, <1>r DEF CreateHousehold, Pulling, Way
  <2>1. client = "in"
    BY <2>0 DEF LoggedIn
  <2>2. PICK h \in req[q].todo \cap Household :
           Send({h}) /\ req' = [req EXCEPT ![q].home = h, ![q].todo = @ \ {h}, ![q].at = "link"]
    BY <1>8, <2>1 DEF CreateHousehold, Fails
  <2>3. /\ req'[q].way = "push" /\ req'[q].todo = req[q].todo \ {h} /\ req'[q].made = req[q].made
        /\ req'[q].home = h
    BY <1>r, <2>0, <2>2 DEF Session
  <2>4. req[q].home \in req[q].made \cup {NoEvent}
    BY <1>r, <2>0 DEF Pushing
  <2>5. \A x \in log : x # NoEvent
    BY Levels DEF TypeOK
  <2>6. \A x \in log \cap (req[q].made \cup {req[q].home}) : x \in req'[q].made \cup {req'[q].home}
    BY <2>3, <2>4, <2>5
  <2>7. {h} \in SUBSET req[q].todo
    OBVIOUS
  <2> QED
    BY <1>p, <2>0, <2>2, <2>3, <2>6, <2>7
<1>9. CASE LinkHousehold(q)
  <2>1. req' = [req EXCEPT ![q].made = @ \cup {req[q].home}, ![q].at = "push"] /\ outside' = outside
    BY <1>9 DEF LinkHousehold
  <2>2. /\ req'[q].way = req[q].way /\ req'[q].todo = req[q].todo
        /\ req'[q].made = req[q].made \cup {req[q].home} /\ req'[q].home = req[q].home
    BY <1>r, <2>1 DEF Session
  <2> QED
    BY <1>f, <2>1, <2>2
<1>10. CASE CreateIndividual(q)
  <2>0. req[q].at = "push" /\ kind = "openspp" /\ req[q].way = "push"
    BY <1>10, <1>r DEF CreateIndividual, Pulling, Way
  <2>1. client = "in"
    BY <2>0 DEF LoggedIn
  <2>2. PICK i \in Members(q, req[q].home) :
           Send({i}) /\ req' = [req EXCEPT ![q].todo = @ \ {i}, ![q].made = @ \cup {i}]
    BY <1>10, <2>1 DEF CreateIndividual, Fails
  <2>3. /\ req'[q].way = "push" /\ req'[q].todo = req[q].todo \ {i}
        /\ req'[q].made = req[q].made \cup {i} /\ req'[q].home = req[q].home
    BY <1>r, <2>0, <2>2 DEF Session
  <2>6. \A x \in log \cap (req[q].made \cup {req[q].home}) : x \in req'[q].made \cup {req'[q].home}
    BY <2>3
  <2>7. {i} \in SUBSET req[q].todo /\ {i} \subseteq req'[q].made
    BY <2>3 DEF Members
  <2> QED
    BY <1>p, <2>0, <2>2, <2>3, <2>6, <2>7
<1>11. CASE FetchEvents(q) \/ FetchGroups(q) \/ FetchPersons(q) \/ LookUp(q) \/ SubmitEvent(q)
            \/ SubmitRecord(q)
  <2>1. req[q].way = "pull" /\ outside' = outside
    BY <1>11, <1>r DEF FetchEvents, FetchGroups, FetchPersons, LookUp, SubmitEvent, SubmitRecord,
                       Pushing, Way
  <2>2. Leave(q) \/ req'[q].way = req[q].way
    <3>1. CASE FetchEvents(q)
      <4> DEFINE news == {r \in Record : written[r] > req[q].since}
                 got == [r \in Record |-> IF r \in news THEN written[r] ELSE 0]
      <4>1. Leave(q) \/ req' = [req EXCEPT ![q].todo = news, ![q].at = "apply", ![q].got = got]
        BY <3>1 DEF FetchEvents
      <4> HIDE DEF news, got
      <4> QED
        BY <1>r, <4>1 DEF Session
    <3>2. CASE FetchGroups(q) \/ FetchPersons(q)
      BY <3>2, <1>r DEF FetchGroups, FetchPersons, Session
    <3>3. CASE LookUp(q)
      BY <3>3, <1>r DEF LookUp, Session
    <3>4. CASE SubmitEvent(q) \/ SubmitRecord(q)
      <4>1. PICK r \in req[q].todo : Leave(q) \/ req' = [req EXCEPT ![q].todo = @ \ {r}]
        BY <3>4 DEF SubmitEvent, SubmitRecord
      <4> QED
        BY <1>r, <4>1 DEF Session
    <3> QED
      BY <1>11, <3>1, <3>2, <3>3, <3>4
  <2> QED
    BY <1>f, <1>l, <2>1, <2>2
<1> QED
  BY <1>1, <1>2, <1>3, <1>4, <1>5, <1>6, <1>7, <1>8, <1>9, <1>10, <1>11 DEF Step

\* The latest cursor never goes back.
LEMMA HighGrows ==
    ASSUME TypeOK, [Next]_vars
    PROVE  high["push"] <= high'["push"]
<1>0. high["push"] \in Time /\ high["push"] <= high["push"]
  BY Sizes DEF TypeOK, Way, Time
<1>1. ASSUME NEW q \in Request, InsertCursor(q)
      PROVE  high["push"] <= high'["push"]
  <2>1. CASE req[q].way = "push"
    <3> DEFINE new == NewCursor(q)
    <3>1. new \in Time
      BY NewCursorType
    <3>2. high'["push"] = Latest({high["push"], new})
      BY <1>1, <2>1 DEF InsertCursor, TypeOK, Way
    <3> HIDE DEF new
    <3>3. {high["push"], new} \in SUBSET Time /\ high["push"] \in {high["push"], new}
      BY <1>0, <3>1
    <3> QED
      BY <3>2, <3>3, LatestOf
  <2>2. CASE req[q].way # "push"
    BY <1>0, <1>1, <2>2 DEF InsertCursor, TypeOK, Way
  <2> QED
    BY <2>1, <2>2
<1>2. CASE high' = high
  BY <1>0, <1>2
<1>3. CASE \/ UNCHANGED vars \/ Tick \/ Restart \/ \E r \in Record : Write(r)
  BY <1>2, <1>3 DEF vars, Tick, Restart, Write
<1>4. CASE \E x \in Event, t \in 1 .. MaxClock : Arrive(x, t)
  BY <1>2, <1>4 DEF Arrive
<1>5. ASSUME NEW q \in Request, Begin(q) \/ Step(q) \/ StoreFails(q), ~InsertCursor(q)
      PROVE  high["push"] <= high'["push"]
  BY <1>2, <1>5 DEF Step, Begin, Login, ReadCursor, DeleteCursor, EndPull, StoreFails, ListEvents,
     PushBatch, FetchEvents, SubmitEvent, ListRegistrants, CreateHousehold, LinkHousehold,
     CreateIndividual, FetchGroups, FetchPersons, LookUp, SubmitRecord
<1> QED
  BY <1>1, <1>3, <1>4, <1>5 DEF Next

\* The first request makes the client and logs in before any other may begin.
LEMMA LoginNext ==
    ASSUME TypeOK, TypeOK', Shape, Alone, LoggedIn, ~overlap', ~overlap, ~Fault, [Next]_vars
    PROVE  LoggedIn'
<1>f. ASSUME UNCHANGED <<kind, client, req>>
      PROVE  LoggedIn'
  BY <1>f DEF LoggedIn
<1>1. CASE \/ UNCHANGED vars \/ Tick \/ \E r \in Record : Write(r)
           \/ \E x \in Event, t \in 1 .. MaxClock : Arrive(x, t)
  BY <1>f, <1>1 DEF vars, env, Tick, Write, Arrive
<1>2. CASE Restart
  BY <1>2 DEF Restart
<1>3. ASSUME NEW q \in Request, Begin(q)
      PROVE  LoggedIn'
  <2>1. \A p \in Request \ {q} : req[p].at = "idle" /\ req'[p] = req[p]
    BY <1>3, OthersStay DEF Begin
  <2>2. kind' = kind /\ req[q].at = "idle" /\ q \in DOMAIN req /\ req[q] \in Session
    BY <1>3 DEF Begin, env, TypeOK, Session
  <2>3. CASE NeedsLogin
    <3>1. client' = "new" /\ req' = [req EXCEPT ![q].at = "login"]
      BY <1>3, <2>3 DEF Begin
    <3>2. req'[q].at = "login"
      BY <2>2, <3>1 DEF Session
    <3> QED
      BY <2>1, <3>2 DEF LoggedIn
  <2>4. CASE ~NeedsLogin
    <3>1. client' = client
      BY <1>3, <2>4 DEF Begin
    <3>2. kind = "openspp" => client = "in"
      <4>1. \A p \in Request : req[p].at = "idle"
        BY <2>1, <2>2
      <4> QED
        BY <2>4, <4>1 DEF NeedsLogin, LoggedIn, TypeOK
    <3> QED
      BY <2>2, <3>1, <3>2 DEF LoggedIn
  <2> QED
    BY <2>3, <2>4
<1>4. ASSUME NEW q \in Request, Step(q) \/ StoreFails(q)
      PROVE  LoggedIn'
  <2>0. ~StoreFails(q)
    BY DEF StoreFails
  <2>1. \A p \in Request \ {q} : req'[p].at = "idle"
    BY <1>4, OthersStay, StepsAwake DEF Alone
  <2>2. kind' = kind /\ q \in DOMAIN req /\ req[q] \in Session
    <3>1. kind' = kind
      BY <1>4, <2>0 DEF Step, env, Login, ReadCursor, DeleteCursor, InsertCursor,
         EndPull, ListEvents, PushBatch, FetchEvents, SubmitEvent, ListRegistrants,
         CreateHousehold, LinkHousehold, CreateIndividual, FetchGroups, FetchPersons, LookUp, SubmitRecord
    <3> QED
      BY <3>1 DEF TypeOK, Session
  <2>3. CASE Login(q)
    <3>1. client' = "in"
      BY <2>3 DEF Login
    <3> QED
      BY <3>1 DEF LoggedIn
  <2>4. CASE ~Login(q)
    <3>1. client' = client
      BY <1>4, <2>0, <2>4 DEF Step, ReadCursor, DeleteCursor, InsertCursor,
         EndPull, ListEvents, PushBatch, FetchEvents, SubmitEvent, ListRegistrants,
         CreateHousehold, LinkHousehold, CreateIndividual, FetchGroups, FetchPersons, LookUp, SubmitRecord
    <3>2. req[q].at \notin {"idle", "login"}
      <4>1. CASE ReadCursor(q) \/ InsertCursor(q) \/ EndPull(q)
        BY <4>1 DEF ReadCursor, PushEnded, InsertCursor, EndPull
      <4>2. CASE DeleteCursor(q)
        BY <4>2 DEF DeleteCursor, Moves
      <4>3. CASE ListEvents(q) \/ PushBatch(q) \/ FetchEvents(q) \/ SubmitEvent(q)
        BY <4>3 DEF ListEvents, PushBatch, FetchEvents, SubmitEvent
      <4>4. CASE \/ ListRegistrants(q) \/ CreateHousehold(q) \/ LinkHousehold(q) \/ CreateIndividual(q)
                 \/ FetchGroups(q) \/ FetchPersons(q) \/ LookUp(q) \/ SubmitRecord(q)
        BY <4>4 DEF ListRegistrants, CreateHousehold, LinkHousehold, CreateIndividual, FetchGroups,
                    FetchPersons, LookUp, SubmitRecord
      <4> QED
        BY <1>4, <2>0, <2>4, <4>1, <4>2, <4>3, <4>4 DEF Step
    <3> QED
      BY <2>1, <2>2, <3>1, <3>2 DEF LoggedIn
  <2> QED
    BY <2>3, <2>4
<1> QED
  BY <1>1, <1>2, <1>3, <1>4 DEF Next

\* Without overlap and fault no step sends again what was sent.
LEMMA BehindNext ==
    ASSUME TypeOK, TypeOK', Shape, Alone, PushAhead, InOrder, SentBehind, InOrder', [Next]_vars
    PROVE  SentBehind'
<1> SUFFICES ASSUME ~overlap', faults' = 0
             PROVE  (\A w \in Way : ~torn'[w]) /\ LoggedIn' /\ Behind'
  BY DEF SentBehind
<1>1. ~overlap
  <2>1. ASSUME NEW q \in Request, Begin(q) \/ Step(q) \/ StoreFails(q)
        PROVE  ~overlap
    <3>1. CASE Begin(q)
      BY <3>1 DEF Begin
    <3>2. CASE Step(q) \/ StoreFails(q)
      BY <3>2, StepsAwake
    <3> QED
      BY <2>1, <3>1, <3>2
  <2>2. CASE \/ UNCHANGED vars \/ Tick \/ Restart \/ \E r \in Record : Write(r)
    BY <2>2 DEF vars, calm, Tick, Restart, Write
  <2>3. CASE \E x \in Event, t \in 1 .. MaxClock : Arrive(x, t)
    BY <2>3 DEF Arrive, calm
  <2> QED
    BY <2>1, <2>2, <2>3 DEF Next
<1>2. faults = 0 /\ ~Fault /\ torn' = torn
  BY NoFault
<1>3. (\A w \in Way : ~torn[w]) /\ LoggedIn /\ Behind
  BY <1>1, <1>2 DEF SentBehind
<1>4. LoggedIn'
  BY <1>1, <1>2, <1>3, LoginNext
<1>5. Ordered("push") /\ Ordered("push")'
  BY <1>1, <1>2, <1>3 DEF InOrder, Way
<1>6. high["push"] <= high'["push"]
  BY HighGrows
<1>7. Behind'
  <2>1. CASE \/ UNCHANGED vars \/ Tick \/ \E r \in Record : Write(r)
    <3>1. UNCHANGED <<req, outside, stamp, high>>
      BY <2>1 DEF vars, dataVars, Tick, Write
    <3> QED
      BY <1>3, <3>1 DEF Behind
  <2>2. ASSUME NEW x \in Event, NEW t \in 1 .. MaxClock, Arrive(x, t)
        PROVE  Behind'
    <3>1. UNCHANGED <<req, outside, high>> /\ x \notin log /\ stamp' = [stamp EXCEPT ![x] = t]
      BY <2>2 DEF Arrive
    <3>2. \A y \in Submission : outside[y] > 0 => stamp'[y] = stamp[y]
      BY <3>1 DEF Shape, Logged, TypeOK
    <3> QED
      BY <1>3, <3>1, <3>2 DEF Behind
  <2>3. CASE Restart
    BY <1>2, <2>3 DEF Restart
  <2>4. ASSUME NEW q \in Request, Begin(q)
        PROVE  Behind'
    <3>1. \A p \in Request \ {q} : req'[p] = req[p]
      BY <2>4, OthersStay
    <3>2. PICK at \in {"login", "read"} : req' = [req EXCEPT ![q].at = at]
      BY <2>4 DEF Begin
    <3>3. req[q] \in Session /\ q \in DOMAIN req
      BY DEF TypeOK, Session
    <3>4. /\ req'[q].way = req[q].way /\ req'[q].todo = req[q].todo /\ req'[q].made = req[q].made
          /\ req'[q].home = req[q].home
      BY <3>2, <3>3 DEF Session
    <3>5. \A p \in Request :
             /\ req'[p].way = req[p].way /\ req'[p].todo = req[p].todo /\ req'[p].made = req[p].made
             /\ req'[p].home = req[p].home
      BY <3>1, <3>4
    <3>6. UNCHANGED <<outside, stamp, high>>
      BY <2>4 DEF Begin, dataVars
    <3> QED
      BY <1>3, <3>5, <3>6 DEF Behind
  <2>5. ASSUME NEW q \in Request, Step(q)
        PROVE  Behind'
    <3>1. \A p \in Request \ {q} : req[p].at = "idle" /\ req'[p] = req[p]
      BY <1>1, <2>5, OthersStay, StepsAwake DEF Alone
    <3> QED
      BY <1>2, <1>3, <1>5, <1>6, <2>5, <3>1, BehindRequest
  <2>6. ASSUME NEW q \in Request, StoreFails(q)
        PROVE  Behind'
    BY <1>2, <2>6 DEF StoreFails
  <2> QED
    BY <2>1, <2>2, <2>3, <2>4, <2>5, <2>6 DEF Next
<1> QED
  BY <1>2, <1>3, <1>4, <1>7

-----------------------------------------------------------------------------
(* The theorems.                                                           *)

IInv == TypeOK /\ Shape /\ PushAhead /\ PullAhead /\ Alone /\ InOrder /\ SingleEntity /\ SentBehind

\* The inductive invariant holds at the start, ...
LEMMA InitIInv == Init => IInv
<1> SUFFICES ASSUME Init PROVE IInv
  OBVIOUS
<1>1. TypeOK /\ Shape /\ PushAhead /\ PullAhead
  BY TypeInit, ShapeInit, PushInit, PullInit
<1>2. Alone /\ SingleEntity
  BY DEF Init, Alone, SingleEntity, Idle
<1>3. InOrder
  <2>1. \A w \in Way : cursor[w] = {} /\ high[w] = 0
    BY DEF Init
  <2>2. \A q \in Request : Hand(q) = {} /\ req[q].at = "idle" /\ req[q].way = "push"
    BY Levels DEF Init, Hand, Idle
  <2>3. {} \in SUBSET Time
    OBVIOUS
  <2>4. Latest({}) \in Time /\ ~(Latest({}) > 0)
    BY <2>3, LatestOf
  <2>5. Latest({}) = 0
    BY <2>4, Sizes DEF Time
  <2> QED
    BY <2>1, <2>2, <2>5 DEF InOrder, Ordered, Stored
<1>4. SentBehind
  <2>1. (\A w \in Way : ~torn[w]) /\ LoggedIn
    BY DEF Init, LoggedIn, Idle
  <2>2. Behind
    BY DEF Init, Behind, Idle
  <2> QED
    BY <2>1, <2>2 DEF SentBehind
<1> QED
  BY <1>1, <1>2, <1>3, <1>4 DEF IInv

\* every step keeps it, ...
LEMMA NextIInv == IInv /\ [Next]_vars => IInv'
<1> SUFFICES ASSUME IInv, [Next]_vars PROVE IInv'
  OBVIOUS
<1>0. TypeOK /\ Shape /\ PushAhead /\ PullAhead /\ Alone /\ InOrder /\ SingleEntity /\ SentBehind
  BY DEF IInv
<1>1. TypeOK'
  BY <1>0, TypeNext
<1>2. Shape' /\ PushAhead' /\ PullAhead' /\ Alone'
  BY <1>0, <1>1, ShapeNext, PushNext, PullNext, AloneNext
<1>3. InOrder' /\ SingleEntity'
  BY <1>0, <1>1, OrderNext, EntityNext
<1>4. SentBehind'
  BY <1>0, <1>1, <1>3, BehindNext
<1> QED
  BY <1>1, <1>2, <1>3, <1>4 DEF IInv

\* so it holds always.
LEMMA Always == Spec => []IInv
BY InitIInv, NextIInv, PTL DEF Spec

\* Whatever the sizes, requests, faults and clocks, the variables keep their types:
\* a cursor is a time, what a request submits has been logged, no count runs away.
THEOREM Typing == Spec => []TypeOK
<1>1. IInv => TypeOK
  BY DEF IInv
<1> QED
  BY <1>1, Always, PTL

\* The push cursor passes over nothing but what the code is known to pass over: a
\* late arrival, an equal timestamp, a failed call, a registrant without its parent.
THEOREM PushGaps == Spec => []PushGapsKnown
<1>1. IInv => PushGapsKnown
  <2> SUFFICES ASSUME IInv, NEW x \in log, Pushed(x), stamp[x] <= Stored("push"), outside[x] = 0,
                      x \notin late \cup failed \cup orphan,
                      ~\E y \in log : stamp[y] = stamp[x] /\ outside[y] > 0
               PROVE  FALSE
    BY DEF PushGapsKnown
  <2>1. TypeOK /\ PushAhead
    BY DEF IInv
  <2>2. \A y \in log : outside[y] \in 0 .. 2
    BY <2>1 DEF TypeOK
  <2>3. Due(x)
    BY <2>2 DEF Due
  <2>4. stamp[x] > high["push"]
    BY <2>1, <2>3 DEF PushAhead
  <2>5. cursor["push"] \in SUBSET Time /\ high["push"] \in Time /\ stamp[x] \in Time
    BY <2>1 DEF TypeOK, Way
  <2>6. Stored("push") \in Time /\ Stored("push") <= high["push"]
    BY <2>1, <2>5, LatestOf, Sizes DEF Stored, PushAhead, Time
  <2> QED
    BY <2>4, <2>5, <2>6, Sizes DEF Time
<1> QED
  BY <1>1, Always, PTL

\* Nor does the pull cursor, but for a record whose latest version failed, was
\* written too late for the fetch, or was put back by an overlapping request.
THEOREM PullGaps == Spec => []PullGapsKnown
<1>1. IInv => PullGapsKnown
  <2> SUFFICES ASSUME IInv, NEW r \in Record, 0 < written[r], written[r] <= Stored("pull"),
                      taken[r] # written[r], r \notin failed \cup slipped \cup stale
               PROVE  FALSE
    BY DEF PullGapsKnown
  <2>1. TypeOK /\ PullAhead
    BY DEF IInv
  <2>3. Owed(r)
    BY <2>1, Sizes DEF Owed, TypeOK, Time
  <2>4. written[r] > high["pull"]
    BY <2>1, <2>3 DEF PullAhead
  <2>5. cursor["pull"] \in SUBSET Time /\ high["pull"] \in Time /\ written[r] \in Time
    BY <2>1 DEF TypeOK, Way
  <2>6. Stored("pull") \in Time /\ Stored("pull") <= high["pull"]
    BY <2>1, <2>5, LatestOf, Sizes DEF Stored, PullAhead, Time
  <2> QED
    BY <2>4, <2>5, <2>6, Sizes DEF Time
<1> QED
  BY <1>1, Always, PTL

\* Requests that neither overlap nor meet a fault send nothing twice.
THEOREM SendsOnce == Spec => []SentOnce
<1>1. IInv => SentOnce
  <2> SUFFICES ASSUME IInv, ~overlap, faults = 0, NEW x \in Submission
               PROVE  outside[x] <= 1
    BY DEF SentOnce
  <2>1. outside[x] \in 0 .. 2 /\ (outside[x] > 0 => outside[x] = 1)
    BY DEF IInv, TypeOK, SentBehind, Behind
  <2> QED
    BY <2>1
<1> QED
  BY <1>1, Always, PTL

\* Requests that do not overlap make one entity of a record, whatever fails.
THEOREM OneEntity == Spec => []OneEntityEach
<1>1. IInv => OneEntityEach
  BY DEF IInv, SingleEntity, OneEntityEach
<1> QED
  BY <1>1, Always, PTL

\* A cursor is read as it was last recorded, unless requests overlapped or one
\* ended between the DELETE and the INSERT.
THEOREM CursorStays == Spec => []CursorKept
<1>1. IInv => CursorKept
  <2> SUFFICES ASSUME IInv, NEW q \in Request, req[q].at = "list", ~overlap, ~torn[req[q].way]
               PROVE  req[q].since = high[req[q].way]
    BY DEF CursorKept
  <2>1. req[q].way \in Way /\ InOrder
    BY DEF IInv, TypeOK
  <2> QED
    BY <2>1 DEF InOrder, Ordered
<1> QED
  BY <1>1, Always, PTL
=============================================================================

------------------------- MODULE InternalSyncProofs -------------------------
(***************************************************************************)
(* Theorems about InternalSync: types, where an event can be, that a       *)
(* replica applies an event at most once, what a REMOTE mark is worth, and *)
(* that all of it implements the abstract EventLog.                        *)
(*                                                                         *)
(* The inductive invariant is built in layers, each proved to be preserved *)
(* from the ones before it: TypeOK, Recorded, Submitting, Acknowledged.    *)
(* InternalSyncGaps goes on with the layers about the cursors.             *)
(***************************************************************************)
EXTENDS InternalSync, TLAPS

-----------------------------------------------------------------------------
(* Types *)

\* Every variable starts in its domain ...
LEMMA TypeInit == Init => TypeOK
  BY SetAssumption, BoundAssumption DEF Init, TypeOK, PC, Time, Replica, Worker

\* ... and no step takes one out of it.
LEMMA TypeNext == TypeOK /\ [Next]_vars => TypeOK'
<1> SUFFICES ASSUME TypeOK, [Next]_vars PROVE TypeOK'
  OBVIOUS
<1>1. CASE Tick
  BY <1>1, BoundAssumption
  DEF TypeOK, Tick, Time, clockVars, storeVars, uploadVars, pageVars,
      cursorVars, workerVars, historyVars
<1>2. ASSUME NEW e \in Event, Fill(e) PROVE TypeOK'
  BY <1>2, BoundAssumption
  DEF TypeOK, Fill, Time, clockVars, storeVars, uploadVars, pageVars,
      cursorVars, workerVars, historyVars
<1>3. ASSUME NEW e \in Event, StoreOwn(e) PROVE TypeOK'
  <2>1. (log \in [Replica -> SUBSET Event])'
    BY <1>3, EventAssumption DEF TypeOK, StoreOwn, ServerGains, Replica
  <2>2. (writing \in [Replica -> SUBSET Event])'
    BY <1>3, EventAssumption DEF TypeOK, StoreOwn, ServerGains, Replica
  <2>3. (raced \in SUBSET Event)'
    BY <1>3 DEF TypeOK, StoreOwn, ServerGains
  <2>4. (late \in [Device -> SUBSET Event])'
    BY <1>3 DEF TypeOK, StoreOwn, ServerGains
  <2> QED
    BY <1>3, <2>1, <2>2, <2>3, <2>4
    DEF TypeOK, StoreOwn, clockVars, storeVars, uploadVars, pageVars,
        cursorVars, workerVars, historyVars
<1>4. ASSUME NEW e \in Event, ApplyOwn(e) PROVE TypeOK'
  BY <1>4, EventAssumption
  DEF TypeOK, ApplyOwn, Finish, Replica, clockVars, storeVars, uploadVars, pageVars,
      cursorVars, workerVars, historyVars
<1>5. ASSUME NEW e \in Event, OwnError(e) PROVE TypeOK'
  BY <1>5, BoundAssumption, EventAssumption
  DEF TypeOK, OwnError, Fault, Replica, clockVars, storeVars, uploadVars, pageVars,
      cursorVars, workerVars, historyVars
<1>6. ASSUME NEW d \in Device, StartSync(d) PROVE TypeOK'
  BY <1>6
  DEF TypeOK, StartSync, PC, Uploading, clockVars, storeVars, uploadVars, pageVars,
      cursorVars, workerVars, historyVars
<1>7. ASSUME NEW d \in Device, Check(d) PROVE TypeOK'
  <2>1. (pc \in [Device -> PC])'
    BY <1>7 DEF TypeOK, Check, Fault, PC, Uploading
  <2>2. (faults \in 0 .. MaxFaults)'
    BY <1>7, BoundAssumption DEF TypeOK, Check, Fault
  <2> QED
    BY <1>7, <2>1, <2>2
    DEF TypeOK, Check, clockVars, storeVars, uploadVars, pageVars,
        cursorVars, workerVars, historyVars
<1>8. ASSUME NEW d \in Device, Fetch(d) PROVE TypeOK'
  BY <1>8, BoundAssumption, SMTT(60)
  DEF TypeOK, Fetch, StartDownload, EventsSince, PC, Uploading, Time, Worker, Replica, clockVars, storeVars, uploadVars, pageVars,
      cursorVars, workerVars, historyVars
<1>9. ASSUME NEW d \in Device, Push(d) PROVE TypeOK'
  BY <1>9, BoundAssumption, SMTT(60)
  DEF TypeOK, Push, Post, Fault, IsFirst, PC, Uploading, Worker, Replica, clockVars, storeVars, uploadVars, pageVars,
      cursorVars, workerVars, historyVars
<1>10. ASSUME NEW d \in Device, Retry(d) PROVE TypeOK'
  <2>1. (busy \in SUBSET Slot)'
    BY <1>10 DEF TypeOK, Retry, Post, Fault, AttemptsLeft
  <2>2. (todo \in [Worker -> SUBSET Event])'
    BY <1>10 DEF TypeOK, Retry, Post, Fault, AttemptsLeft, Worker, Replica
  <2>3. (conn \in [Device -> Slot \cup {NoSlot}])'
    BY <1>10 DEF TypeOK, Retry, Post, Fault, AttemptsLeft
  <2>4. (faults \in 0 .. MaxFaults)'
    BY <1>10, BoundAssumption DEF TypeOK, Retry, Post, Fault, AttemptsLeft
  <2>5. (attempt \in [Device -> 0 .. MaxAttempts])'
    BY <1>10, BoundAssumption DEF TypeOK, Retry, Post, Fault, AttemptsLeft
  <2> QED
    BY <1>10, <2>1, <2>2, <2>3, <2>4, <2>5
    DEF TypeOK, Retry, clockVars, storeVars, uploadVars, pageVars,
        cursorVars, workerVars, historyVars
<1>11. ASSUME NEW d \in Device, GiveUp(d) PROVE TypeOK'
  <2>1. (chunk \in [Device -> SUBSET Event])'
    BY <1>11 DEF TypeOK, GiveUp, Exhausted
  <2>2. (attempt \in [Device -> 0 .. MaxAttempts])'
    BY <1>11, BoundAssumption DEF TypeOK, GiveUp, Exhausted
  <2>3. (batch \in [Device -> SUBSET Event])'
    BY <1>11 DEF TypeOK, GiveUp, Exhausted
  <2>4. (pc \in [Device -> PC])'
    BY <1>11 DEF TypeOK, GiveUp, Exhausted, PC, Uploading
  <2> QED
    BY <1>11, <2>1, <2>2, <2>3, <2>4
    DEF TypeOK, GiveUp, Exhausted, clockVars, storeVars, uploadVars, pageVars,
        cursorVars, workerVars, historyVars
<1>12. ASSUME NEW d \in Device, Mark(d) PROVE TypeOK'
  BY <1>12
  DEF TypeOK, Mark, ToMark, PC, Uploading, clockVars, storeVars, uploadVars, pageVars,
      cursorVars, workerVars, historyVars
<1>13. ASSUME NEW d \in Device, MoveLocalCursor(d) PROVE TypeOK'
  <2>1. (batch \in [Device -> SUBSET Event])'
    BY <1>13 DEF TypeOK, MoveLocalCursor, StartDownload, LastConfirmed
  <2>2. (sent \in [Device -> SUBSET Event])'
    BY <1>13 DEF TypeOK, MoveLocalCursor, StartDownload, LastConfirmed
  <2>3. (pc \in [Device -> PC])'
    BY <1>13 DEF TypeOK, MoveLocalCursor, StartDownload, LastConfirmed, PC, Uploading
  <2>4. (next \in [Device -> Time])'
    BY <1>13, BoundAssumption DEF TypeOK, MoveLocalCursor, StartDownload, LastConfirmed, Time, Replica
  <2>5. (localCursor \in [Device -> Time])'
    BY <1>13, BoundAssumption DEF TypeOK, MoveLocalCursor, StartDownload, LastConfirmed, Time, Replica
  <2> QED
    BY <1>13, <2>1, <2>2, <2>3, <2>4, <2>5
    DEF TypeOK, MoveLocalCursor, clockVars, storeVars, uploadVars, pageVars,
        cursorVars, workerVars, historyVars
<1>14. ASSUME NEW d \in Device, UploadFails(d) PROVE TypeOK'
  <2>1. (pc \in [Device -> PC])'
    BY <1>14 DEF TypeOK, UploadFails, Fault, PC, Uploading
  <2>2. (batch \in [Device -> SUBSET Event])'
    BY <1>14 DEF TypeOK, UploadFails, Fault
  <2>3. (sent \in [Device -> SUBSET Event])'
    BY <1>14 DEF TypeOK, UploadFails, Fault
  <2>4. (faults \in 0 .. MaxFaults)'
    BY <1>14, BoundAssumption DEF TypeOK, UploadFails, Fault
  <2> QED
    BY <1>14, <2>1, <2>2, <2>3, <2>4
    DEF TypeOK, UploadFails, clockVars, storeVars, uploadVars, pageVars,
        cursorVars, workerVars, historyVars
<1>15. ASSUME NEW d \in Device, Pull(d) PROVE TypeOK'
  BY <1>15, BoundAssumption, SMTT(60)
  DEF TypeOK, Pull, Leave, PC, Uploading, Time, Worker, Replica, clockVars, storeVars, uploadVars, pageVars,
      cursorVars, workerVars, historyVars
<1>16. ASSUME NEW d \in Device, PageStore(d) PROVE TypeOK'
  <2>1. PICK e \in todo[d] : PageStore(d)!2!(e)
    BY <1>16 DEF PageStore
  <2>2. e \in Event
    BY <2>1 DEF TypeOK, Worker
  <2>3. (todo \in [Worker -> SUBSET Event])'
    BY <2>1, <2>2 DEF TypeOK, Worker, Replica
  <2>4. (log \in [Replica -> SUBSET Event])'
    BY <2>1, <2>2, SMTT(60) DEF TypeOK, Replica
  <2>5. (remote \in [Device -> SUBSET Event])'
    BY <2>1, <2>2 DEF TypeOK
  <2>6. (cur \in [Worker -> Event \cup {NoEvent}])'
    BY <2>1, <2>2, SMTT(60) DEF TypeOK, Worker, Replica
  <2> QED
    BY <1>16, <2>3, <2>4, <2>5, <2>6
    DEF TypeOK, PageStore, clockVars, storeVars, uploadVars, pageVars,
        cursorVars, workerVars, historyVars
<1>17. ASSUME NEW d \in Device, PageApply(d) PROVE TypeOK'
  BY <1>17
  DEF TypeOK, PageApply, Finish, Replica, Worker, clockVars, storeVars, uploadVars, pageVars,
      cursorVars, workerVars, historyVars
<1>18. ASSUME NEW d \in Device, PageDone(d) PROVE TypeOK'
  <2>1. (remoteCursor \in [Device -> Time])'
    BY <1>18 DEF TypeOK, PageDone, Leave, Time, Replica
  <2>2. (good \in [Device -> Time])'
    BY <1>18, BoundAssumption, SMTT(60) DEF TypeOK, PageDone, Leave, Time, Replica
  <2>3. (more \in SUBSET Device)'
    BY <1>18 DEF TypeOK, PageDone, Leave
  <2>4. (next \in [Device -> Time])'
    BY <1>18, BoundAssumption DEF TypeOK, PageDone, Leave, Time, Replica
  <2>5. (pc \in [Device -> PC])'
    BY <1>18 DEF TypeOK, PageDone, Leave, PC, Uploading
  <2> QED
    BY <1>18, <2>1, <2>2, <2>3, <2>4, <2>5
    DEF TypeOK, PageDone, clockVars, storeVars, uploadVars, pageVars,
        cursorVars, workerVars, historyVars
<1>19. ASSUME NEW d \in Device, Cut(d) PROVE TypeOK'
  BY <1>19, BoundAssumption
  DEF TypeOK, Cut, Fault, clockVars, storeVars, uploadVars, pageVars,
      cursorVars, workerVars, historyVars
<1>20. ASSUME NEW d \in Device, DownloadFails(d) PROVE TypeOK'
  <2>1. (remoteCursor \in [Device -> Time])'
    <3>1. Rollback(d) \in Time
      BY DEF Rollback, TypeOK, Time, Replica
    <3> QED
      BY <1>20, <3>1 DEF TypeOK, DownloadFails
  <2>2. (pc \in [Device -> PC])'
    BY <1>20 DEF TypeOK, DownloadFails, Leave, Fault, Rollback, PC, Uploading
  <2>3. (next \in [Device -> Time])'
    BY <1>20, BoundAssumption DEF TypeOK, DownloadFails, Leave, Fault, Rollback, Time, Replica
  <2>4. (more \in SUBSET Device)'
    BY <1>20 DEF TypeOK, DownloadFails, Leave, Fault, Rollback
  <2>5. (good \in [Device -> Time])'
    BY <1>20, BoundAssumption DEF TypeOK, DownloadFails, Leave, Fault, Rollback, Time, Replica
  <2>6. (todo \in [Worker -> SUBSET Event])'
    BY <1>20 DEF TypeOK, DownloadFails, Leave, Fault, Rollback, Worker, Replica
  <2>7. (cur \in [Worker -> Event \cup {NoEvent}])'
    BY <1>20 DEF TypeOK, DownloadFails, Leave, Fault, Rollback, Worker, Replica
  <2>8. (faults \in 0 .. MaxFaults)'
    BY <1>20, BoundAssumption DEF TypeOK, DownloadFails, Leave, Fault, Rollback
  <2>9. (torn \in [Device -> SUBSET Event])'
    <3>1. Tear(d)
      BY <1>20 DEF DownloadFails
    <3> QED
      BY <3>1 DEF TypeOK, Tear, Worker, Replica
  <2> QED
    BY <1>20, <2>1, <2>2, <2>3, <2>4, <2>5, <2>6, <2>7, <2>8, <2>9
    DEF TypeOK, DownloadFails, clockVars, storeVars, uploadVars, pageVars,
        cursorVars, workerVars, historyVars
<1>21. ASSUME NEW d \in Device, DeviceCrash(d) PROVE TypeOK'
  <2>1. (torn \in [Device -> SUBSET Event])'
    <3>1. Tear(d)
      BY <1>21 DEF DeviceCrash
    <3> QED
      BY <3>1 DEF TypeOK, Tear, Worker, Replica
  <2>2. (stamp \in [Event -> Time] /\ writing \in [Replica -> SUBSET Event])'
    BY <1>21, BoundAssumption DEF TypeOK, DeviceCrash, Forget, Time, Replica
  <2>3. (pc \in [Device -> PC] /\ next \in [Device -> Time] /\ good \in [Device -> Time]
           /\ more \in SUBSET Device)'
    BY <1>21, BoundAssumption DEF TypeOK, DeviceCrash, Leave, PC, Uploading, Time
  <2>4. (todo \in [Worker -> SUBSET Event] /\ cur \in [Worker -> Event \cup {NoEvent}])'
    BY <1>21 DEF TypeOK, DeviceCrash, Worker
  <2>5. (faults \in 0 .. MaxFaults /\ attempt \in [Device -> 0 .. MaxAttempts])'
    BY <1>21, BoundAssumption DEF TypeOK, DeviceCrash, Fault
  <2> QED
    BY <1>21, <2>1, <2>2, <2>3, <2>4, <2>5, SMTT(60)
    DEF TypeOK, DeviceCrash, Leave, Fault, Forget, PC, Uploading, Time, Replica, Worker, clockVars, storeVars, uploadVars, pageVars,
        cursorVars, workerVars, historyVars
<1>22. ASSUME NEW s \in Slot, HandlerStore(s) PROVE TypeOK'
  <2>1. PICK e \in todo[s] : HandlerStore(s)!2!(e)
    BY <1>22 DEF HandlerStore
  <2>2. e \in Event
    BY <2>1 DEF TypeOK, Worker
  <2>3. (log \in [Replica -> SUBSET Event])'
    BY <2>1, <2>2 DEF TypeOK, ServerGains, Replica
  <2>4. (late \in [Device -> SUBSET Event])'
    BY <2>1, <2>2 DEF TypeOK, ServerGains
  <2>5. (todo \in [Worker -> SUBSET Event])'
    BY <2>1, <2>2 DEF TypeOK, ServerGains, Worker, Replica
  <2>6. (cur \in [Worker -> Event \cup {NoEvent}])'
    BY <2>1, <2>2 DEF TypeOK, ServerGains, Worker, Replica
  <2> QED
    BY <1>22, <2>3, <2>4, <2>5, <2>6
    DEF TypeOK, HandlerStore, clockVars, storeVars, uploadVars, pageVars,
        cursorVars, workerVars, historyVars
<1>23. ASSUME NEW s \in Slot, HandlerApply(s) PROVE TypeOK'
  BY <1>23
  DEF TypeOK, HandlerApply, Finish, Replica, Worker, clockVars, storeVars, uploadVars, pageVars,
      cursorVars, workerVars, historyVars
<1>24. ASSUME NEW s \in Slot, HandlerError(s) PROVE TypeOK'
  BY <1>24, BoundAssumption, SMTT(60)
  DEF TypeOK, HandlerError, Fault, Worker, Replica, clockVars, storeVars, uploadVars, pageVars,
      cursorVars, workerVars, historyVars
<1>25. ASSUME NEW s \in Slot, Reply(s) PROVE TypeOK'
  <2>1. (busy \in SUBSET Slot)'
    BY <1>25 DEF TypeOK, Reply, uploadVars
  <2>2. (conn \in [Device -> Slot \cup {NoSlot}])'
    BY <1>25 DEF TypeOK, Reply, uploadVars
  <2>3. (sent \in [Device -> SUBSET Event])'
    BY <1>25 DEF TypeOK, Reply, uploadVars
  <2>4. (batch \in [Device -> SUBSET Event])'
    BY <1>25 DEF TypeOK, Reply, uploadVars
  <2>5. (chunk \in [Device -> SUBSET Event])'
    BY <1>25 DEF TypeOK, Reply, uploadVars
  <2>6. (attempt \in [Device -> 0 .. MaxAttempts])'
    BY <1>25, BoundAssumption, SMTT(60) DEF TypeOK, Reply, uploadVars
  <2>7. (pc \in [Device -> PC])'
    BY <1>25 DEF TypeOK, Reply, PC, Uploading, uploadVars
  <2> QED
    BY <1>25, <2>1, <2>2, <2>3, <2>4, <2>5, <2>6, <2>7
    DEF TypeOK, Reply, clockVars, storeVars, uploadVars, pageVars,
        cursorVars, workerVars, historyVars
<1>26. CASE ServerCrash
  BY <1>26, BoundAssumption
  DEF TypeOK, ServerCrash, Forget, Fault, Time, Replica, Worker, clockVars, storeVars, uploadVars, pageVars,
      cursorVars, workerVars, historyVars
<1>27. CASE UNCHANGED vars
  BY <1>27 DEF TypeOK, vars, clockVars, storeVars, uploadVars, pageVars,
      cursorVars, workerVars, historyVars
<1> QED
  BY <1>1, <1>2, <1>3, <1>4, <1>5, <1>6, <1>7, <1>8, <1>9, <1>10, <1>11, <1>12, <1>13, <1>14, <1>15, <1>16, <1>17, <1>18, <1>19, <1>20, <1>21, <1>22, <1>23, <1>24, <1>25, <1>26, <1>27
  DEF Next, UserStep, UploadStep, DownloadStep, DeviceFault, HandlerStep

\* Every variable of the sync model keeps its type: attempts stay within the
\* retry limit, cursors within time, lists within the events.
THEOREM Typing == Spec => []TypeOK
<1>1. Init => TypeOK
  BY TypeInit
<1>2. TypeOK /\ [Next]_vars => TypeOK'
  BY TypeNext
<1> QED
  BY <1>1, <1>2, PTL DEF Spec

-----------------------------------------------------------------------------
(* Where events are *)

\* Whatever is stored was stored at home first and has its timestamp for good;
\* the lists that syncs and handlers work through hold stored events only.
Recorded ==
    /\ \A r \in Replica : \A e \in log[r] : stamp[e] > 0 /\ e \in log[Home[e]]
    /\ \A d \in Device : \A e \in log[d] : Home[e] = d \/ e \in log[Server]
    /\ \A d \in Device : batch[d] \cup chunk[d] \cup sent[d] \subseteq log[d]
    /\ \A d \in Device : todo[d] \subseteq log[Server]
    /\ \A s \in Slot : \A e \in todo[s] : e \in log[Home[e]]

\* A replica stores an event that is stored at home, or is its own.
LEMMA StoringKeepsRecorded ==
  ASSUME TypeOK, Recorded,
         NEW r \in Replica, NEW e \in Event,
         log' = [log EXCEPT ![r] = @ \cup {e}],
         stamp[e] > 0,
         Home[e] = r \/ e \in log[Home[e]],
         Home[e] = r \/ r = Server \/ e \in log[Server],
         UNCHANGED <<stamp, batch, chunk, sent>>,
         \A w \in Worker : todo'[w] \subseteq todo[w]
  PROVE  Recorded'
<1>1. \A q \in Replica : log[q] \subseteq log'[q]
  BY DEF TypeOK
<1>2. e \in log'[r] /\ \A q \in Replica : log'[q] # log[q] => q = r /\ log'[q] = log[q] \cup {e}
  BY DEF TypeOK
<1>3. \A f \in Event : f \in log[Home[f]] => f \in log'[Home[f]]
  BY <1>1, EventAssumption
<1>4. e \in log'[Home[e]]
  BY <1>2, <1>3
<1>5. \A q \in Replica : \A f \in log'[q] : stamp[f] > 0 /\ f \in log'[Home[f]]
  <2> TAKE q \in Replica
  <2> TAKE f \in log'[q]
  <2>1. CASE f = e
    BY <2>1, <1>4
  <2>2. CASE f \in log[q]
    BY <2>2, <1>3 DEF Recorded, TypeOK
  <2> QED
    BY <2>1, <2>2, <1>2
<1>6. \A d \in Device : \A f \in log'[d] : Home[f] = d \/ f \in log'[Server]
  <2> TAKE d \in Device
  <2> TAKE f \in log'[d]
  <2>1. d \in Replica /\ Server \in Replica
    BY DEF Replica
  <2>2. CASE f \in log[d]
    BY <2>1, <2>2, <1>1 DEF Recorded
  <2>3. CASE f = e /\ d = r
    BY <2>1, <2>3, <1>1, <1>2, SetAssumption
  <2> QED
    BY <2>1, <2>2, <2>3, <1>2
<1>7. \A d \in Device : batch'[d] \cup chunk'[d] \cup sent'[d] \subseteq log'[d]
  BY <1>1 DEF Recorded, Replica
<1>8. \A d \in Device : todo'[d] \subseteq log'[Server]
  BY <1>1 DEF Recorded, Replica, Worker
<1>9. \A s \in Slot : \A f \in todo'[s] : f \in log'[Home[f]]
  BY <1>3 DEF Recorded, TypeOK, Worker
<1> QED
  BY <1>5, <1>6, <1>7, <1>8, <1>9 DEF Recorded

\* Recorded is inductive.
LEMMA RecordedNext == TypeOK /\ Recorded /\ [Next]_vars => Recorded'
<1> SUFFICES ASSUME TypeOK, Recorded, [Next]_vars PROVE Recorded'
  OBVIOUS
<1>1. CASE Tick
  BY <1>1
  DEF Recorded, Tick, clockVars, storeVars, uploadVars, pageVars, cursorVars,
      workerVars, historyVars, TypeOK, Replica, Worker
<1>2. ASSUME NEW e \in Event, Fill(e) PROVE Recorded'
  BY <1>2
  DEF Recorded, Fill, clockVars, storeVars, uploadVars, pageVars, cursorVars,
      workerVars, historyVars, TypeOK, Replica, Worker
<1>3. ASSUME NEW e \in Event, StoreOwn(e) PROVE Recorded'
  <2>1. Home[e] \in Replica
    BY EventAssumption
  <2>2. log' = [log EXCEPT ![Home[e]] = @ \cup {e}]
    BY <1>3 DEF StoreOwn, ServerGains
  <2>3. /\ stamp[e] > 0
        /\ UNCHANGED <<stamp, batch, chunk, sent, todo>>
    BY <1>3 DEF StoreOwn, clockVars, uploadVars, workerVars
  <2> QED
    BY <2>1, <2>2, <2>3, StoringKeepsRecorded
<1>4. ASSUME NEW e \in Event, ApplyOwn(e) PROVE Recorded'
  BY <1>4
  DEF Recorded, ApplyOwn, Finish, clockVars, storeVars, uploadVars, pageVars, cursorVars,
      workerVars, historyVars, TypeOK, Replica, Worker
<1>5. ASSUME NEW e \in Event, OwnError(e) PROVE Recorded'
  BY <1>5
  DEF Recorded, OwnError, Fault, clockVars, storeVars, uploadVars, pageVars, cursorVars,
      workerVars, historyVars, TypeOK, Replica, Worker
<1>6. ASSUME NEW d \in Device, StartSync(d) PROVE Recorded'
  BY <1>6
  DEF Recorded, StartSync, clockVars, storeVars, uploadVars, pageVars, cursorVars,
      workerVars, historyVars, TypeOK, Replica, Worker
<1>7. ASSUME NEW d \in Device, Check(d) PROVE Recorded'
  BY <1>7
  DEF Recorded, Check, Fault, clockVars, storeVars, uploadVars, pageVars, cursorVars,
      workerVars, historyVars, TypeOK, Replica, Worker
<1>8. ASSUME NEW d \in Device, Fetch(d) PROVE Recorded'
  BY <1>8
  DEF Recorded, Fetch, StartDownload, EventsSince, clockVars, storeVars, uploadVars, pageVars, cursorVars,
      workerVars, historyVars, TypeOK, Replica, Worker
<1>9. ASSUME NEW d \in Device, Push(d) PROVE Recorded'
  <2>1. PICK part \in SUBSET batch[d] : Push(d)!2!(part)
    BY <1>9 DEF Push
  <2>2. part \subseteq log[d] /\ \A e \in part : e \in log[Home[e]]
    BY DEF Recorded, Replica
  <2>3. UNCHANGED <<stamp, log, batch, sent>>
    BY <1>9 DEF Push, clockVars, storeVars
  <2>4. \A c \in Device : chunk'[c] \subseteq log[c]
    BY <2>1, <2>2 DEF Recorded, TypeOK
  <2>5. CASE todo' = todo
    BY <2>3, <2>4, <2>5 DEF Recorded
  <2>6. CASE \E s \in Slot : todo' = [todo EXCEPT ![s] = part]
    BY <2>2, <2>3, <2>4, <2>6, SetAssumption DEF Recorded, TypeOK, Replica, Worker
  <2> QED
    BY <2>1, <2>5, <2>6 DEF Post
<1>10. ASSUME NEW d \in Device, Retry(d) PROVE Recorded'
  <2>1. \A e \in chunk[d] : e \in log[Home[e]]
    BY DEF Recorded, Replica
  <2>2. UNCHANGED <<stamp, log, batch, sent, chunk>>
    BY <1>10 DEF Retry, clockVars, storeVars
  <2>3. CASE todo' = todo
    BY <2>2, <2>3 DEF Recorded
  <2>4. CASE \E s \in Slot : todo' = [todo EXCEPT ![s] = chunk[d]]
    BY <2>1, <2>2, <2>4, SetAssumption DEF Recorded, TypeOK, Replica, Worker
  <2> QED
    BY <1>10, <2>3, <2>4 DEF Retry, Post
<1>11. ASSUME NEW d \in Device, GiveUp(d) PROVE Recorded'
  BY <1>11
  DEF Recorded, GiveUp, Exhausted, clockVars, storeVars, uploadVars, pageVars, cursorVars,
      workerVars, historyVars, TypeOK, Replica, Worker
<1>12. ASSUME NEW d \in Device, Mark(d) PROVE Recorded'
  BY <1>12
  DEF Recorded, Mark, ToMark, clockVars, storeVars, uploadVars, pageVars, cursorVars,
      workerVars, historyVars, TypeOK, Replica, Worker
<1>13. ASSUME NEW d \in Device, MoveLocalCursor(d) PROVE Recorded'
  BY <1>13
  DEF Recorded, MoveLocalCursor, StartDownload, LastConfirmed, clockVars, storeVars, uploadVars, pageVars, cursorVars,
      workerVars, historyVars, TypeOK, Replica, Worker
<1>14. ASSUME NEW d \in Device, UploadFails(d) PROVE Recorded'
  BY <1>14, SMTT(60)
  DEF Recorded, UploadFails, Fault, clockVars, storeVars, uploadVars, pageVars, cursorVars,
      workerVars, historyVars, TypeOK, Replica, Worker
<1>15. ASSUME NEW d \in Device, Pull(d) PROVE Recorded'
  BY <1>15
  DEF Recorded, Pull, Leave, clockVars, storeVars, uploadVars, pageVars, cursorVars,
      workerVars, historyVars, TypeOK, Replica, Worker
<1>16. ASSUME NEW d \in Device, PageStore(d) PROVE Recorded'
  <2>1. PICK e \in todo[d] : PageStore(d)!2!(e)
    BY <1>16 DEF PageStore
  <2>2. UNCHANGED <<stamp, batch, sent, chunk>>
    BY <1>16 DEF PageStore, clockVars, uploadVars
  <2>3. e \in Event /\ e \in log[Server] /\ stamp[e] > 0 /\ e \in log[Home[e]]
    BY DEF Recorded, TypeOK, Replica, Worker
  <2>4. \A w \in Worker : todo'[w] \subseteq todo[w]
    BY <2>1 DEF TypeOK
  <2>5. CASE log' = log
    BY <2>2, <2>4, <2>5 DEF Recorded, Worker
  <2>6. CASE log' = [log EXCEPT ![d] = @ \cup {e}]
    BY <2>2, <2>3, <2>4, <2>6, StoringKeepsRecorded DEF Replica
  <2> QED
    BY <2>1, <2>5, <2>6
<1>17. ASSUME NEW d \in Device, PageApply(d) PROVE Recorded'
  BY <1>17
  DEF Recorded, PageApply, Finish, clockVars, storeVars, uploadVars, pageVars, cursorVars,
      workerVars, historyVars, TypeOK, Replica, Worker
<1>18. ASSUME NEW d \in Device, PageDone(d) PROVE Recorded'
  BY <1>18
  DEF Recorded, PageDone, Leave, clockVars, storeVars, uploadVars, pageVars, cursorVars,
      workerVars, historyVars, TypeOK, Replica, Worker
<1>19. ASSUME NEW d \in Device, Cut(d) PROVE Recorded'
  BY <1>19
  DEF Recorded, Cut, Fault, clockVars, storeVars, uploadVars, pageVars, cursorVars,
      workerVars, historyVars, TypeOK, Replica, Worker
<1>20. ASSUME NEW d \in Device, DownloadFails(d) PROVE Recorded'
  BY <1>20
  DEF Recorded, DownloadFails, Leave, Fault, Rollback, clockVars, storeVars, uploadVars, pageVars, cursorVars,
      workerVars, historyVars, TypeOK, Replica, Worker
<1>21. ASSUME NEW d \in Device, DeviceCrash(d) PROVE Recorded'
  BY <1>21
  DEF Recorded, DeviceCrash, Leave, Fault, Forget, clockVars, storeVars, uploadVars, pageVars, cursorVars,
      workerVars, historyVars, TypeOK, Replica, Worker
<1>22. ASSUME NEW s \in Slot, HandlerStore(s) PROVE Recorded'
  <2>1. PICK e \in todo[s] : HandlerStore(s)!2!(e)
    BY <1>22 DEF HandlerStore
  <2>2. UNCHANGED <<stamp, batch, sent, chunk>>
    BY <1>22 DEF HandlerStore, clockVars, uploadVars
  <2>3. e \in Event /\ Home[e] \in Replica
    BY EventAssumption DEF TypeOK, Worker
  <2>4. e \in log[Home[e]] /\ stamp[e] > 0
    BY <2>3 DEF Recorded
  <2>5. \A w \in Worker : todo'[w] \subseteq todo[w]
    BY <2>1 DEF TypeOK
  <2>6. CASE log' = log
    BY <2>2, <2>5, <2>6 DEF Recorded, Worker
  <2>7. CASE log' = [log EXCEPT ![Server] = @ \cup {e}]
    BY <2>2, <2>3, <2>4, <2>5, <2>7, StoringKeepsRecorded DEF Replica
  <2> QED
    BY <2>1, <2>6, <2>7 DEF ServerGains
<1>23. ASSUME NEW s \in Slot, HandlerApply(s) PROVE Recorded'
  BY <1>23
  DEF Recorded, HandlerApply, Finish, clockVars, storeVars, uploadVars, pageVars, cursorVars,
      workerVars, historyVars, TypeOK, Replica, Worker
<1>24. ASSUME NEW s \in Slot, HandlerError(s) PROVE Recorded'
  <2>1. \A w \in Worker : todo'[w] \subseteq todo[w]
    <3>1. CASE UNCHANGED todo
      BY <3>1
    <3>2. CASE \E gone \in SUBSET todo[s] : todo' = [todo EXCEPT ![s] = @ \ gone]
      BY <3>2 DEF TypeOK
    <3> QED
      BY <1>24, <3>1, <3>2 DEF HandlerError
  <2> QED
    BY <1>24, <2>1
    DEF Recorded, HandlerError, clockVars, storeVars, uploadVars, Worker
<1>25. ASSUME NEW s \in Slot, Reply(s) PROVE Recorded'
  BY <1>25
  DEF Recorded, Reply, clockVars, storeVars, uploadVars, pageVars, cursorVars,
      workerVars, historyVars, TypeOK, Replica, Worker
<1>26. CASE ServerCrash
  BY <1>26
  DEF Recorded, ServerCrash, Forget, Fault, clockVars, storeVars, uploadVars, pageVars, cursorVars,
      workerVars, historyVars, TypeOK, Replica, Worker
<1>27. CASE UNCHANGED vars
  BY <1>27 DEF Recorded, vars, clockVars, storeVars, uploadVars, pageVars, cursorVars,
      workerVars, historyVars, TypeOK, Replica, Worker
<1> QED
  BY <1>1, <1>2, <1>3, <1>4, <1>5, <1>6, <1>7, <1>8, <1>9, <1>10, <1>11, <1>12, <1>13, <1>14, <1>15, <1>16, <1>17, <1>18, <1>19, <1>20, <1>21, <1>22, <1>23, <1>24, <1>25, <1>26, <1>27
  DEF Next, UserStep, UploadStep, DownloadStep, DeviceFault, HandlerStep

\* Nothing stored is ever taken back, nor is its timestamp changed, and the
\* history variables only grow.
Kept ==
    /\ \A r \in Replica : log[r] \subseteq log'[r]
    /\ \A e \in Event : e \in log[Home[e]] => stamp'[e] = stamp[e]
    /\ raced \subseteq raced' /\ dropped \subseteq dropped'
    /\ \A d \in Device : late[d] \subseteq late'[d]

\* Every step keeps what is stored.
LEMMA KeptNext == TypeOK /\ Recorded /\ [Next]_vars => Kept
<1> SUFFICES ASSUME TypeOK, Recorded, [Next]_vars PROVE Kept
  OBVIOUS
<1>1. CASE Tick
  BY <1>1
  DEF Kept, Tick, clockVars, storeVars, uploadVars, pageVars, cursorVars,
      workerVars, historyVars, TypeOK, Replica, Worker
<1>2. ASSUME NEW e \in Event, Fill(e) PROVE Kept
  <2>1. \A f \in Event : f \in log[Home[f]] => stamp'[f] = stamp[f]
    <3> TAKE f \in Event
    <3>1. CASE f = e
      BY <1>2, <3>1, EventAssumption DEF Fill, Recorded
    <3>2. CASE f # e
      BY <1>2, <3>2 DEF Fill, TypeOK
    <3> QED
      BY <3>1, <3>2
  <2> QED
    BY <1>2, <2>1 DEF Fill, Kept, storeVars, historyVars
<1>3. ASSUME NEW e \in Event, StoreOwn(e) PROVE Kept
  BY <1>3, SMTT(60)
  DEF Kept, StoreOwn, ServerGains, clockVars, storeVars, uploadVars, pageVars, cursorVars,
      workerVars, historyVars, TypeOK, Replica, Worker
<1>4. ASSUME NEW e \in Event, ApplyOwn(e) PROVE Kept
  BY <1>4
  DEF Kept, ApplyOwn, Finish, clockVars, storeVars, uploadVars, pageVars, cursorVars,
      workerVars, historyVars, TypeOK, Replica, Worker
<1>5. ASSUME NEW e \in Event, OwnError(e) PROVE Kept
  BY <1>5
  DEF Kept, OwnError, Fault, clockVars, storeVars, uploadVars, pageVars, cursorVars,
      workerVars, historyVars, TypeOK, Replica, Worker
<1>6. ASSUME NEW d \in Device, StartSync(d) PROVE Kept
  BY <1>6
  DEF Kept, StartSync, clockVars, storeVars, uploadVars, pageVars, cursorVars,
      workerVars, historyVars, TypeOK, Replica, Worker
<1>7. ASSUME NEW d \in Device, Check(d) PROVE Kept
  BY <1>7
  DEF Kept, Check, Fault, clockVars, storeVars, uploadVars, pageVars, cursorVars,
      workerVars, historyVars, TypeOK, Replica, Worker
<1>8. ASSUME NEW d \in Device, Fetch(d) PROVE Kept
  BY <1>8
  DEF Kept, Fetch, StartDownload, EventsSince, clockVars, storeVars, uploadVars, pageVars, cursorVars,
      workerVars, historyVars, TypeOK, Replica, Worker
<1>9. ASSUME NEW d \in Device, Push(d) PROVE Kept
  BY <1>9
  DEF Kept, Push, Post, Fault, IsFirst, clockVars, storeVars, uploadVars, pageVars, cursorVars,
      workerVars, historyVars, TypeOK, Replica, Worker
<1>10. ASSUME NEW d \in Device, Retry(d) PROVE Kept
  BY <1>10
  DEF Kept, Retry, Post, Fault, AttemptsLeft, clockVars, storeVars, uploadVars, pageVars, cursorVars,
      workerVars, historyVars, TypeOK, Replica, Worker
<1>11. ASSUME NEW d \in Device, GiveUp(d) PROVE Kept
  BY <1>11
  DEF Kept, GiveUp, Exhausted, clockVars, storeVars, uploadVars, pageVars, cursorVars,
      workerVars, historyVars, TypeOK, Replica, Worker
<1>12. ASSUME NEW d \in Device, Mark(d) PROVE Kept
  BY <1>12
  DEF Kept, Mark, ToMark, clockVars, storeVars, uploadVars, pageVars, cursorVars,
      workerVars, historyVars, TypeOK, Replica, Worker
<1>13. ASSUME NEW d \in Device, MoveLocalCursor(d) PROVE Kept
  BY <1>13
  DEF Kept, MoveLocalCursor, StartDownload, LastConfirmed, clockVars, storeVars, uploadVars, pageVars, cursorVars,
      workerVars, historyVars, TypeOK, Replica, Worker
<1>14. ASSUME NEW d \in Device, UploadFails(d) PROVE Kept
  BY <1>14
  DEF Kept, UploadFails, Fault, clockVars, storeVars, uploadVars, pageVars, cursorVars,
      workerVars, historyVars, TypeOK, Replica, Worker
<1>15. ASSUME NEW d \in Device, Pull(d) PROVE Kept
  BY <1>15
  DEF Kept, Pull, Leave, clockVars, storeVars, uploadVars, pageVars, cursorVars,
      workerVars, historyVars, TypeOK, Replica, Worker
<1>16. ASSUME NEW d \in Device, PageStore(d) PROVE Kept
  BY <1>16, SMTT(60)
  DEF Kept, PageStore, clockVars, storeVars, uploadVars, pageVars, cursorVars,
      workerVars, historyVars, TypeOK, Replica, Worker
<1>17. ASSUME NEW d \in Device, PageApply(d) PROVE Kept
  BY <1>17
  DEF Kept, PageApply, Finish, clockVars, storeVars, uploadVars, pageVars, cursorVars,
      workerVars, historyVars, TypeOK, Replica, Worker
<1>18. ASSUME NEW d \in Device, PageDone(d) PROVE Kept
  BY <1>18
  DEF Kept, PageDone, Leave, clockVars, storeVars, uploadVars, pageVars, cursorVars,
      workerVars, historyVars, TypeOK, Replica, Worker
<1>19. ASSUME NEW d \in Device, Cut(d) PROVE Kept
  BY <1>19
  DEF Kept, Cut, Fault, clockVars, storeVars, uploadVars, pageVars, cursorVars,
      workerVars, historyVars, TypeOK, Replica, Worker
<1>20. ASSUME NEW d \in Device, DownloadFails(d) PROVE Kept
  BY <1>20
  DEF Kept, DownloadFails, Leave, Fault, Rollback, clockVars, storeVars, uploadVars, pageVars, cursorVars,
      workerVars, historyVars, TypeOK, Replica, Worker
<1>21. ASSUME NEW d \in Device, DeviceCrash(d) PROVE Kept
  BY <1>21
  DEF Kept, DeviceCrash, Leave, Fault, Forget, clockVars, storeVars, uploadVars, pageVars, cursorVars,
      workerVars, historyVars, TypeOK, Replica, Worker
<1>22. ASSUME NEW s \in Slot, HandlerStore(s) PROVE Kept
  BY <1>22
  DEF Kept, HandlerStore, ServerGains, clockVars, storeVars, uploadVars, pageVars, cursorVars,
      workerVars, historyVars, TypeOK, Replica, Worker
<1>23. ASSUME NEW s \in Slot, HandlerApply(s) PROVE Kept
  BY <1>23
  DEF Kept, HandlerApply, Finish, clockVars, storeVars, uploadVars, pageVars, cursorVars,
      workerVars, historyVars, TypeOK, Replica, Worker
<1>24. ASSUME NEW s \in Slot, HandlerError(s) PROVE Kept
  BY <1>24
  DEF Kept, HandlerError, Fault, clockVars, storeVars, uploadVars, pageVars, cursorVars,
      workerVars, historyVars, TypeOK, Replica, Worker
<1>25. ASSUME NEW s \in Slot, Reply(s) PROVE Kept
  BY <1>25
  DEF Kept, Reply, clockVars, storeVars, uploadVars, pageVars, cursorVars,
      workerVars, historyVars, TypeOK, Replica, Worker
<1>26. CASE ServerCrash
  BY <1>26
  DEF Kept, ServerCrash, Forget, Fault, clockVars, storeVars, uploadVars, pageVars, cursorVars,
      workerVars, historyVars, TypeOK, Replica, Worker
<1>27. CASE UNCHANGED vars
  BY <1>27 DEF Kept, vars, clockVars, storeVars, uploadVars, pageVars, cursorVars,
      workerVars, historyVars, TypeOK, Replica, Worker
<1> QED
  BY <1>1, <1>2, <1>3, <1>4, <1>5, <1>6, <1>7, <1>8, <1>9, <1>10, <1>11, <1>12, <1>13, <1>14, <1>15, <1>16, <1>17, <1>18, <1>19, <1>20, <1>21, <1>22, <1>23, <1>24, <1>25, <1>26, <1>27
  DEF Next, UserStep, UploadStep, DownloadStep, DeviceFault, HandlerStep

-----------------------------------------------------------------------------
(* Who applies what *)

\* Whatever a submitForm call is applying was stored by that call.
Submitting ==
    /\ AppliedOnce
    /\ \A r \in Replica : writing[r] \subseteq log[r]
    /\ \A w \in Worker, r \in Replica :
         Applying(w, r) /\ cur[w] # NoEvent => cur[w] \in log[r]

\* Submitting is inductive: the guid of an event, unique in each store, admits
\* one submitForm call that stores and then applies it.
LEMMA SubmittingNext == TypeOK /\ Submitting /\ [Next]_vars => Submitting'
<1> SUFFICES ASSUME TypeOK, Submitting, [Next]_vars PROVE Submitting'
  OBVIOUS
<1>1. CASE Tick
  BY <1>1, SetAssumption
  DEF Submitting, Tick, clockVars, storeVars, uploadVars, pageVars, cursorVars,
      workerVars, historyVars, TypeOK, Replica, Worker, AppliedOnce, Applying
<1>2. ASSUME NEW e \in Event, Fill(e) PROVE Submitting'
  BY <1>2, SetAssumption
  DEF Submitting, Fill, clockVars, storeVars, uploadVars, pageVars, cursorVars,
      workerVars, historyVars, TypeOK, Replica, Worker, AppliedOnce, Applying
<1>3. ASSUME NEW e \in Event, StoreOwn(e) PROVE Submitting'
  <2>1. /\ Home[e] \in Replica
        /\ log' = [log EXCEPT ![Home[e]] = @ \cup {e}]
        /\ writing' = [writing EXCEPT ![Home[e]] = @ \cup {e}]
        /\ e \notin log[Home[e]]
        /\ UNCHANGED <<applied, cur>>
    BY <1>3, EventAssumption DEF StoreOwn, Exists, ServerGains, workerVars
  <2> QED
    BY <2>1 DEF Submitting, AppliedOnce, TypeOK
<1>4. ASSUME NEW e \in Event, ApplyOwn(e) PROVE Submitting'
  BY <1>4, SetAssumption
  DEF Submitting, ApplyOwn, Finish, clockVars, storeVars, uploadVars, pageVars, cursorVars,
      workerVars, historyVars, TypeOK, Replica, Worker, AppliedOnce, Applying
<1>5. ASSUME NEW e \in Event, OwnError(e) PROVE Submitting'
  BY <1>5, SetAssumption
  DEF Submitting, OwnError, Fault, clockVars, storeVars, uploadVars, pageVars, cursorVars,
      workerVars, historyVars, TypeOK, Replica, Worker, AppliedOnce, Applying
<1>6. ASSUME NEW d \in Device, StartSync(d) PROVE Submitting'
  BY <1>6, SetAssumption
  DEF Submitting, StartSync, clockVars, storeVars, uploadVars, pageVars, cursorVars,
      workerVars, historyVars, TypeOK, Replica, Worker, AppliedOnce, Applying
<1>7. ASSUME NEW d \in Device, Check(d) PROVE Submitting'
  BY <1>7, SetAssumption
  DEF Submitting, Check, Fault, clockVars, storeVars, uploadVars, pageVars, cursorVars,
      workerVars, historyVars, TypeOK, Replica, Worker, AppliedOnce, Applying
<1>8. ASSUME NEW d \in Device, Fetch(d) PROVE Submitting'
  BY <1>8, SetAssumption
  DEF Submitting, Fetch, StartDownload, EventsSince, clockVars, storeVars, uploadVars, pageVars, cursorVars,
      workerVars, historyVars, TypeOK, Replica, Worker, AppliedOnce, Applying
<1>9. ASSUME NEW d \in Device, Push(d) PROVE Submitting'
  BY <1>9, SetAssumption
  DEF Submitting, Push, Post, Fault, IsFirst, clockVars, storeVars, uploadVars, pageVars, cursorVars,
      workerVars, historyVars, TypeOK, Replica, Worker, AppliedOnce, Applying
<1>10. ASSUME NEW d \in Device, Retry(d) PROVE Submitting'
  BY <1>10, SetAssumption
  DEF Submitting, Retry, Post, Fault, AttemptsLeft, clockVars, storeVars, uploadVars, pageVars, cursorVars,
      workerVars, historyVars, TypeOK, Replica, Worker, AppliedOnce, Applying
<1>11. ASSUME NEW d \in Device, GiveUp(d) PROVE Submitting'
  BY <1>11, SetAssumption
  DEF Submitting, GiveUp, Exhausted, clockVars, storeVars, uploadVars, pageVars, cursorVars,
      workerVars, historyVars, TypeOK, Replica, Worker, AppliedOnce, Applying
<1>12. ASSUME NEW d \in Device, Mark(d) PROVE Submitting'
  BY <1>12, SetAssumption
  DEF Submitting, Mark, ToMark, clockVars, storeVars, uploadVars, pageVars, cursorVars,
      workerVars, historyVars, TypeOK, Replica, Worker, AppliedOnce, Applying
<1>13. ASSUME NEW d \in Device, MoveLocalCursor(d) PROVE Submitting'
  BY <1>13, SetAssumption
  DEF Submitting, MoveLocalCursor, StartDownload, LastConfirmed, clockVars, storeVars, uploadVars, pageVars, cursorVars,
      workerVars, historyVars, TypeOK, Replica, Worker, AppliedOnce, Applying
<1>14. ASSUME NEW d \in Device, UploadFails(d) PROVE Submitting'
  BY <1>14, SetAssumption
  DEF Submitting, UploadFails, Fault, clockVars, storeVars, uploadVars, pageVars, cursorVars,
      workerVars, historyVars, TypeOK, Replica, Worker, AppliedOnce, Applying
<1>15. ASSUME NEW d \in Device, Pull(d) PROVE Submitting'
  BY <1>15, SetAssumption
  DEF Submitting, Pull, Leave, clockVars, storeVars, uploadVars, pageVars, cursorVars,
      workerVars, historyVars, TypeOK, Replica, Worker, AppliedOnce, Applying
<1>16. ASSUME NEW d \in Device, PageStore(d) PROVE Submitting'
  <2>1. PICK e \in todo[d] : PageStore(d)!2!(e)
    BY <1>16 DEF PageStore
  <2>2. UNCHANGED <<applied, writing>>
    BY <1>16 DEF PageStore
  <2>3. CASE UNCHANGED <<log, cur>>
    BY <2>2, <2>3 DEF Submitting, AppliedOnce
  <2>4. CASE /\ e \notin log[d]
             /\ log' = [log EXCEPT ![d] = @ \cup {e}]
             /\ cur' = [cur EXCEPT ![d] = e]
    BY <2>2, <2>4, SetAssumption
    DEF Submitting, AppliedOnce, Applying, TypeOK, Replica, Worker
  <2> QED
    BY <2>1, <2>3, <2>4 DEF Exists
<1>17. ASSUME NEW d \in Device, PageApply(d) PROVE Submitting'
  BY <1>17, SetAssumption
  DEF Submitting, PageApply, Finish, clockVars, storeVars, uploadVars, pageVars, cursorVars,
      workerVars, historyVars, TypeOK, Replica, Worker, AppliedOnce, Applying
<1>18. ASSUME NEW d \in Device, PageDone(d) PROVE Submitting'
  BY <1>18, SetAssumption
  DEF Submitting, PageDone, Leave, clockVars, storeVars, uploadVars, pageVars, cursorVars,
      workerVars, historyVars, TypeOK, Replica, Worker, AppliedOnce, Applying
<1>19. ASSUME NEW d \in Device, Cut(d) PROVE Submitting'
  BY <1>19, SetAssumption
  DEF Submitting, Cut, Fault, clockVars, storeVars, uploadVars, pageVars, cursorVars,
      workerVars, historyVars, TypeOK, Replica, Worker, AppliedOnce, Applying
<1>20. ASSUME NEW d \in Device, DownloadFails(d) PROVE Submitting'
  BY <1>20, SetAssumption
  DEF Submitting, DownloadFails, Leave, Fault, Rollback, clockVars, storeVars, uploadVars, pageVars, cursorVars,
      workerVars, historyVars, TypeOK, Replica, Worker, AppliedOnce, Applying
<1>21. ASSUME NEW d \in Device, DeviceCrash(d) PROVE Submitting'
  BY <1>21, SetAssumption
  DEF Submitting, DeviceCrash, Leave, Fault, Forget, clockVars, storeVars, uploadVars, pageVars, cursorVars,
      workerVars, historyVars, TypeOK, Replica, Worker, AppliedOnce, Applying
<1>22. ASSUME NEW s \in Slot, HandlerStore(s) PROVE Submitting'
  <2>1. PICK e \in todo[s] : HandlerStore(s)!2!(e)
    BY <1>22 DEF HandlerStore
  <2>2. UNCHANGED <<applied, writing>>
    BY <1>22 DEF HandlerStore
  <2>3. CASE UNCHANGED <<log, cur>>
    BY <2>2, <2>3 DEF Submitting, AppliedOnce
  <2>4. CASE /\ e \notin log[Server]
             /\ log' = [log EXCEPT ![Server] = @ \cup {e}]
             /\ cur' = [cur EXCEPT ![s] = e]
    BY <2>2, <2>4, SetAssumption
    DEF Submitting, AppliedOnce, Applying, TypeOK, Replica, Worker
  <2> QED
    BY <2>1, <2>3, <2>4 DEF Exists, ServerGains
<1>23. ASSUME NEW s \in Slot, HandlerApply(s) PROVE Submitting'
  BY <1>23, SetAssumption
  DEF Submitting, HandlerApply, Finish, clockVars, storeVars, uploadVars, pageVars, cursorVars,
      workerVars, historyVars, TypeOK, Replica, Worker, AppliedOnce, Applying
<1>24. ASSUME NEW s \in Slot, HandlerError(s) PROVE Submitting'
  <2>1. UNCHANGED <<log, applied, writing>>
    BY <1>24 DEF HandlerError, storeVars
  <2>2. CASE UNCHANGED cur
    BY <2>1, <2>2 DEF Submitting, AppliedOnce
  <2>3. CASE cur' = [cur EXCEPT ![s] = NoEvent]
    BY <2>1, <2>3 DEF Submitting, AppliedOnce, TypeOK
  <2> QED
    BY <1>24, <2>2, <2>3 DEF HandlerError
<1>25. ASSUME NEW s \in Slot, Reply(s) PROVE Submitting'
  BY <1>25, SetAssumption
  DEF Submitting, Reply, clockVars, storeVars, uploadVars, pageVars, cursorVars,
      workerVars, historyVars, TypeOK, Replica, Worker, AppliedOnce, Applying
<1>26. CASE ServerCrash
  BY <1>26, SetAssumption
  DEF Submitting, ServerCrash, Forget, Fault, clockVars, storeVars, uploadVars, pageVars, cursorVars,
      workerVars, historyVars, TypeOK, Replica, Worker, AppliedOnce, Applying
<1>27. CASE UNCHANGED vars
  BY <1>27 DEF Submitting, vars, clockVars, storeVars, uploadVars, pageVars, cursorVars,
      workerVars, historyVars, TypeOK, Replica, Worker, AppliedOnce, Applying
<1> QED
  BY <1>1, <1>2, <1>3, <1>4, <1>5, <1>6, <1>7, <1>8, <1>9, <1>10, <1>11, <1>12, <1>13, <1>14, <1>15, <1>16, <1>17, <1>18, <1>19, <1>20, <1>21, <1>22, <1>23, <1>24, <1>25, <1>26, <1>27
  DEF Next, UserStep, UploadStep, DownloadStep, DeviceFault, HandlerStep

-----------------------------------------------------------------------------
(* What an answer is worth *)

\* A chunk in flight is in the hands of the handler it is connected to, which
\* serves no other device.
Acknowledged ==
    /\ MarkedIsStored
    /\ \A d \in Device : sent[d] \subseteq log[Server] \cup dropped
    /\ \A d \in Device : conn[d] # NoSlot =>
         /\ pc[d] = "await"
         /\ conn[d] \in busy
         /\ chunk[d] \subseteq todo[conn[d]] \cup log[Server] \cup dropped
    /\ \A c, d \in Device : conn[c] = conn[d] /\ conn[c] # NoSlot => c = d

\* Acknowledged is inductive: broken connections, retries and crashes never
\* connect a device to a handler that works on another chunk.
LEMMA AcknowledgedNext == TypeOK /\ Recorded /\ Acknowledged /\ [Next]_vars => Acknowledged'
<1> SUFFICES ASSUME TypeOK, Recorded, Acknowledged, [Next]_vars PROVE Acknowledged'
  OBVIOUS
<1>1. CASE Tick
  BY <1>1
  DEF Acknowledged, Tick, clockVars, storeVars, uploadVars, pageVars, cursorVars,
      workerVars, historyVars, TypeOK, Replica, Worker, MarkedIsStored
<1>2. ASSUME NEW e \in Event, Fill(e) PROVE Acknowledged'
  BY <1>2
  DEF Acknowledged, Fill, clockVars, storeVars, uploadVars, pageVars, cursorVars,
      workerVars, historyVars, TypeOK, Replica, Worker, MarkedIsStored
<1>3. ASSUME NEW e \in Event, StoreOwn(e) PROVE Acknowledged'
  BY <1>3
  DEF Acknowledged, StoreOwn, ServerGains, clockVars, storeVars, uploadVars, pageVars, cursorVars,
      workerVars, historyVars, TypeOK, Replica, Worker, MarkedIsStored
<1>4. ASSUME NEW e \in Event, ApplyOwn(e) PROVE Acknowledged'
  BY <1>4
  DEF Acknowledged, ApplyOwn, Finish, clockVars, storeVars, uploadVars, pageVars, cursorVars,
      workerVars, historyVars, TypeOK, Replica, Worker, MarkedIsStored
<1>5. ASSUME NEW e \in Event, OwnError(e) PROVE Acknowledged'
  BY <1>5
  DEF Acknowledged, OwnError, Fault, clockVars, storeVars, uploadVars, pageVars, cursorVars,
      workerVars, historyVars, TypeOK, Replica, Worker, MarkedIsStored
<1>6. ASSUME NEW d \in Device, StartSync(d) PROVE Acknowledged'
  BY <1>6
  DEF Acknowledged, StartSync, clockVars, storeVars, uploadVars, pageVars, cursorVars,
      workerVars, historyVars, TypeOK, Replica, Worker, MarkedIsStored
<1>7. ASSUME NEW d \in Device, Check(d) PROVE Acknowledged'
  BY <1>7
  DEF Acknowledged, Check, Fault, clockVars, storeVars, uploadVars, pageVars, cursorVars,
      workerVars, historyVars, TypeOK, Replica, Worker, MarkedIsStored
<1>8. ASSUME NEW d \in Device, Fetch(d) PROVE Acknowledged'
  BY <1>8
  DEF Acknowledged, Fetch, StartDownload, EventsSince, clockVars, storeVars, uploadVars, pageVars, cursorVars,
      workerVars, historyVars, TypeOK, Replica, Worker, MarkedIsStored
<1>9. ASSUME NEW d \in Device, Push(d) PROVE Acknowledged'
  <2>1. conn[d] = NoSlot
    BY <1>9 DEF Acknowledged, Push
  <2>2. PICK part \in SUBSET batch[d] : Push(d)!2!(part)
    BY <1>9 DEF Push
  <2>3. /\ UNCHANGED <<log, remote, sent, dropped>>
        /\ \A c \in Device \ {d} : pc'[c] = pc[c] /\ chunk'[c] = chunk[c]
        /\ pc'[d] = "await" /\ chunk'[d] = part
    BY <1>9, <2>2 DEF Push, TypeOK, storeVars, cursorVars, historyVars
  <2>4. CASE UNCHANGED <<busy, todo, conn>>
    BY <2>1, <2>3, <2>4 DEF Acknowledged, MarkedIsStored
  <2>5. ASSUME NEW s \in Slot \ busy,
               busy' = busy \cup {s},
               todo' = [todo EXCEPT ![s] = part],
               conn' = [conn EXCEPT ![d] = s]
        PROVE  Acknowledged'
    BY <2>3, <2>5, SetAssumption DEF Acknowledged, MarkedIsStored, TypeOK, Worker
  <2> QED
    BY <2>2, <2>4, <2>5 DEF Post
<1>10. ASSUME NEW d \in Device, Retry(d) PROVE Acknowledged'
  <2>1. conn[d] = NoSlot /\ pc[d] = "await"
    BY <1>10 DEF Retry
  <2>2. UNCHANGED <<log, remote, sent, dropped, pc, chunk>>
    BY <1>10 DEF Retry, storeVars, cursorVars, historyVars
  <2>3. CASE UNCHANGED <<busy, todo, conn>>
    BY <2>2, <2>3 DEF Acknowledged, MarkedIsStored
  <2>4. ASSUME NEW s \in Slot \ busy,
               busy' = busy \cup {s},
               todo' = [todo EXCEPT ![s] = chunk[d]],
               conn' = [conn EXCEPT ![d] = s]
        PROVE  Acknowledged'
    BY <2>1, <2>2, <2>4, SetAssumption DEF Acknowledged, MarkedIsStored, TypeOK, Worker
  <2> QED
    BY <1>10, <2>3, <2>4 DEF Retry, Post
<1>11. ASSUME NEW d \in Device, GiveUp(d) PROVE Acknowledged'
  BY <1>11
  DEF Acknowledged, GiveUp, Exhausted, clockVars, storeVars, uploadVars, pageVars, cursorVars,
      workerVars, historyVars, TypeOK, Replica, Worker, MarkedIsStored
<1>12. ASSUME NEW d \in Device, Mark(d) PROVE Acknowledged'
  BY <1>12
  DEF Acknowledged, Mark, ToMark, clockVars, storeVars, uploadVars, pageVars, cursorVars,
      workerVars, historyVars, TypeOK, Replica, Worker, MarkedIsStored
<1>13. ASSUME NEW d \in Device, MoveLocalCursor(d) PROVE Acknowledged'
  BY <1>13
  DEF Acknowledged, MoveLocalCursor, StartDownload, LastConfirmed, clockVars, storeVars, uploadVars, pageVars, cursorVars,
      workerVars, historyVars, TypeOK, Replica, Worker, MarkedIsStored
<1>14. ASSUME NEW d \in Device, UploadFails(d) PROVE Acknowledged'
  BY <1>14, SMTT(60)
  DEF Acknowledged, UploadFails, Fault, clockVars, storeVars, uploadVars, pageVars, cursorVars,
      workerVars, historyVars, TypeOK, Replica, Worker, MarkedIsStored
<1>15. ASSUME NEW d \in Device, Pull(d) PROVE Acknowledged'
  BY <1>15, SetAssumption
  DEF Acknowledged, Pull, Leave, Fault, Forget, MarkedIsStored, TypeOK, Replica, Worker,
      clockVars, storeVars, uploadVars, pageVars, cursorVars, workerVars, historyVars
<1>16. ASSUME NEW d \in Device, PageStore(d) PROVE Acknowledged'
  <2>1. PICK e \in todo[d] : PageStore(d)!2!(e)
    BY <1>16 DEF PageStore
  <2>2. e \in log[Server]
    BY DEF Recorded
  <2>3. log'[Server] = log[Server]
    BY <2>1, SetAssumption DEF TypeOK, Replica
  <2>4. \A s \in Slot : todo'[s] = todo[s]
    BY <2>1, SetAssumption DEF TypeOK, Replica, Worker
  <2>5. \A c \in Device : remote'[c] \subseteq remote[c] \cup {e}
    BY <2>1, SMTT(60) DEF TypeOK
  <2>6. UNCHANGED <<sent, chunk, conn, busy, dropped, pc>>
    BY <1>16 DEF PageStore, uploadVars, historyVars
  <2> QED
    BY <2>2, <2>3, <2>4, <2>5, <2>6, SetAssumption DEF Acknowledged, MarkedIsStored, TypeOK
<1>17. ASSUME NEW d \in Device, PageApply(d) PROVE Acknowledged'
  BY <1>17
  DEF Acknowledged, PageApply, Finish, clockVars, storeVars, uploadVars, pageVars, cursorVars,
      workerVars, historyVars, TypeOK, Replica, Worker, MarkedIsStored
<1>18. ASSUME NEW d \in Device, PageDone(d) PROVE Acknowledged'
  BY <1>18
  DEF Acknowledged, PageDone, Leave, clockVars, storeVars, uploadVars, pageVars, cursorVars,
      workerVars, historyVars, TypeOK, Replica, Worker, MarkedIsStored
<1>19. ASSUME NEW d \in Device, Cut(d) PROVE Acknowledged'
  BY <1>19
  DEF Acknowledged, Cut, Fault, clockVars, storeVars, uploadVars, pageVars, cursorVars,
      workerVars, historyVars, TypeOK, Replica, Worker, MarkedIsStored
<1>20. ASSUME NEW d \in Device, DownloadFails(d) PROVE Acknowledged'
  BY <1>20, SetAssumption
  DEF Acknowledged, DownloadFails, Leave, Fault, Forget, MarkedIsStored, TypeOK, Replica, Worker,
      clockVars, storeVars, uploadVars, pageVars, cursorVars, workerVars, historyVars
<1>21. ASSUME NEW d \in Device, DeviceCrash(d) PROVE Acknowledged'
  BY <1>21, SetAssumption
  DEF Acknowledged, DeviceCrash, Leave, Fault, Forget, MarkedIsStored, TypeOK, Replica, Worker,
      clockVars, storeVars, uploadVars, pageVars, cursorVars, workerVars, historyVars
<1>22. ASSUME NEW s \in Slot, HandlerStore(s) PROVE Acknowledged'
  <2>1. PICK e \in todo[s] : HandlerStore(s)!2!(e)
    BY <1>22 DEF HandlerStore
  <2>2. log[Server] \subseteq log'[Server] /\ e \in log'[Server]
    BY <2>1 DEF Exists, ServerGains, TypeOK, Replica
  <2>3. \A r \in Slot : todo[r] \subseteq todo'[r] \cup log'[Server]
    BY <2>1, <2>2 DEF TypeOK, Worker
  <2>4. UNCHANGED <<remote, sent, chunk, conn, busy, dropped, pc>>
    BY <1>22 DEF HandlerStore, uploadVars, cursorVars
  <2> QED
    BY <2>2, <2>3, <2>4, SetAssumption DEF Acknowledged, MarkedIsStored, TypeOK
<1>23. ASSUME NEW s \in Slot, HandlerApply(s) PROVE Acknowledged'
  BY <1>23
  DEF Acknowledged, HandlerApply, Finish, clockVars, storeVars, uploadVars, pageVars, cursorVars,
      workerVars, historyVars, TypeOK, Replica, Worker, MarkedIsStored
<1>24. ASSUME NEW s \in Slot, HandlerError(s) PROVE Acknowledged'
  <2>1. /\ dropped \subseteq dropped'
        /\ \A r \in Slot : todo[r] \subseteq todo'[r] \cup dropped'
    <3>1. CASE UNCHANGED <<todo, dropped>>
      BY <3>1
    <3>2. ASSUME NEW gone \in SUBSET todo[s],
                 todo' = [todo EXCEPT ![s] = @ \ gone],
                 dropped' = dropped \cup gone
          PROVE  /\ dropped \subseteq dropped'
                 /\ \A r \in Slot : todo[r] \subseteq todo'[r] \cup dropped'
      BY <3>2 DEF TypeOK, Worker
    <3> QED
      BY <1>24, <3>1, <3>2 DEF HandlerError
  <2>2. UNCHANGED <<log, remote, sent, chunk, conn, busy, pc>>
    BY <1>24 DEF HandlerError, storeVars, uploadVars, cursorVars
  <2> QED
    BY <2>1, <2>2, SetAssumption DEF Acknowledged, MarkedIsStored, TypeOK
<1>25. ASSUME NEW s \in Slot, Reply(s) PROVE Acknowledged'
  <2>1. UNCHANGED <<log, remote, todo, dropped>> /\ busy' = busy \ {s}
    BY <1>25 DEF Reply, storeVars, cursorVars, workerVars, historyVars
  <2>2. CASE \A d \in Device : conn[d] # s
    BY <1>25, <2>1, <2>2 DEF Reply, uploadVars, Acknowledged, MarkedIsStored
  <2>3. ASSUME NEW d \in Device, Reply(s)!3!2!(d)
        PROVE  Acknowledged'
    <3>1. /\ conn[d] = s /\ conn[d] # NoSlot
          /\ chunk[d] \subseteq log[Server] \cup dropped
      BY <1>25, <2>3, SetAssumption DEF Reply, Acknowledged
    <3>2. \A c \in Device \ {d} :
            /\ conn'[c] = conn[c] /\ sent'[c] = sent[c] /\ chunk'[c] = chunk[c]
            /\ pc'[c] = pc[c]
      BY <2>3 DEF TypeOK
    <3>3. conn'[d] = NoSlot /\ sent'[d] = sent[d] \cup chunk[d]
      BY <2>3 DEF TypeOK
    <3>4. \A c \in Device \ {d} : conn[c] # s
      BY <3>1 DEF Acknowledged
    <3> QED
      BY <2>1, <3>1, <3>2, <3>3, <3>4 DEF Acknowledged, MarkedIsStored
  <2> QED
    BY <1>25, <2>2, <2>3 DEF Reply
<1>26. CASE ServerCrash
  BY <1>26
  DEF Acknowledged, ServerCrash, Forget, Fault, clockVars, storeVars, uploadVars, pageVars, cursorVars,
      workerVars, historyVars, TypeOK, Replica, Worker, MarkedIsStored
<1>27. CASE UNCHANGED vars
  BY <1>27 DEF Acknowledged, vars, clockVars, storeVars, uploadVars, pageVars, cursorVars,
      workerVars, historyVars, TypeOK, Replica, Worker, MarkedIsStored
<1> QED
  BY <1>1, <1>2, <1>3, <1>4, <1>5, <1>6, <1>7, <1>8, <1>9, <1>10, <1>11, <1>12, <1>13, <1>14, <1>15, <1>16, <1>17, <1>18, <1>19, <1>20, <1>21, <1>22, <1>23, <1>24, <1>25, <1>26, <1>27
  DEF Next, UserStep, UploadStep, DownloadStep, DeviceFault, HandlerStep

-----------------------------------------------------------------------------
(* Theorems *)

\* The first four layers hold in every reachable state.
THEOREM Layers == Spec => [](TypeOK /\ Recorded /\ Submitting /\ Acknowledged)
<1>1. Init => TypeOK
  BY TypeInit
<1>2. Init => Recorded
  BY DEF Init, Recorded, Worker, Replica
<1>3. Init => Submitting
  BY DEF Init, Submitting, AppliedOnce, Worker, Replica
<1>4. Init => Acknowledged
  BY DEF Init, Acknowledged, MarkedIsStored
<1>5. TypeOK /\ Recorded /\ Submitting /\ Acknowledged /\ [Next]_vars
        => (TypeOK /\ Recorded /\ Submitting /\ Acknowledged)'
  BY TypeNext, RecordedNext, SubmittingNext, AcknowledgedNext
<1> QED
  BY <1>1, <1>2, <1>3, <1>4, <1>5, PTL DEF Spec

\* An event on the server is on its home device, and one on a foreign device is
\* on the server, whatever was retried, lost or restarted.
THEOREM EventsComeFromHome == Spec => []Provenance
<1>1. TypeOK /\ Recorded => Provenance
  BY EventAssumption DEF Recorded, Provenance, TypeOK, Replica
<1> QED
  BY <1>1, Layers, PTL

\* Retried chunks with overlapping handlers, and pages pulled again after a
\* failure, never make a replica apply an event twice.
THEOREM AppliedAtMostOnce == Spec => []AppliedOnce
<1>1. Submitting => AppliedOnce
  BY DEF Submitting
<1> QED
  BY <1>1, Layers, PTL

\* A device marks as REMOTE only what the server has stored, but for the events
\* that a handler dropped behind its "success".
THEOREM MarksAreTrue == Spec => []MarkedIsStored
<1>1. Acknowledged => MarkedIsStored
  BY DEF Acknowledged
<1> QED
  BY <1>1, Layers, PTL

-----------------------------------------------------------------------------
(* InternalSync implements EventLog, for any number of devices, handlers,    *)
(* events and faults: log and applied are mapped to themselves, and every    *)
(* step of InternalSync is one step of EventLog or changes neither.          *)

\* What the steps that store or apply an event rely on.
Traced == TypeOK /\ Recorded /\ Submitting

\* A user's submitForm: Write, then Apply.
LEMMA OwnSteps ==
  ASSUME Traced, NEW e \in Event, StoreOwn(e) \/ ApplyOwn(e)
  PROVE  Replication!Next
<1>1. Home[e] \in Replica
  BY EventAssumption
<1>2. CASE StoreOwn(e)
  <2>1. e \notin log[Home[e]] /\ UNCHANGED applied
    BY <1>2 DEF StoreOwn, Exists
  <2>2. log' = [log EXCEPT ![Home[e]] = @ \cup {e}]
    BY <1>2 DEF StoreOwn, ServerGains
  <2> QED
    BY <2>1, <2>2 DEF Replication!Next, Replication!Write, Replication!Store
<1>3. CASE ApplyOwn(e)
  <2>1. e \in log[Home[e]] \ applied[Home[e]]
    BY <1>1, <1>3 DEF ApplyOwn, Traced, Submitting, AppliedOnce
  <2>2. applied' = [applied EXCEPT ![Home[e]] = @ \cup {e}] /\ UNCHANGED log
    BY <1>3 DEF ApplyOwn, Finish
  <2> QED
    BY <1>1, <2>1, <2>2 DEF Replication!Next, Replication!Apply, Replication!Replica, Replica
<1> QED
  BY <1>2, <1>3

\* A handler that has not met the event before: Upload; otherwise nothing.
LEMMA HandlerStores ==
  ASSUME Traced, NEW s \in Slot, HandlerStore(s)
  PROVE  Replication!Next \/ UNCHANGED <<log, applied>>
<1>1. UNCHANGED applied
  BY DEF HandlerStore
<1>2. PICK e \in todo[s] : HandlerStore(s)!2!(e)
  BY DEF HandlerStore
<1>3. e \in Event /\ e \in log[Home[e]] /\ Home[e] \in Replica
  BY EventAssumption DEF Traced, TypeOK, Recorded, Worker
<1>4. CASE UNCHANGED log
  BY <1>1, <1>4
<1>5. CASE ~Exists(e, Server) /\ ServerGains(e)
  <2>1. Home[e] \in Device
    BY <1>3, <1>5 DEF Exists, Replica
  <2> QED
    BY <1>1, <1>3, <1>5, <2>1
    DEF Exists, ServerGains, Replication!Next, Replication!Upload, Replication!Store
<1> QED
  BY <1>2, <1>4, <1>5

\* A page brings an event the device lacks: Download; otherwise nothing.
LEMMA PageStores ==
  ASSUME Traced, NEW d \in Device, PageStore(d)
  PROVE  Replication!Next \/ UNCHANGED <<log, applied>>
<1>1. UNCHANGED applied
  BY DEF PageStore
<1>2. PICK e \in todo[d] : PageStore(d)!2!(e)
  BY DEF PageStore
<1>3. e \in Event /\ e \in log[Server]
  BY DEF Traced, TypeOK, Recorded, Worker
<1>4. CASE UNCHANGED log
  BY <1>1, <1>4
<1>5. CASE ~Exists(e, d) /\ log' = [log EXCEPT ![d] = @ \cup {e}]
  BY <1>1, <1>3, <1>5
  DEF Exists, Replication!Next, Replication!Download, Replication!Store
<1> QED
  BY <1>2, <1>4, <1>5

\* A worker applies the event it has stored, which nobody applied before: Apply.
LEMMA WorkerApplies ==
  ASSUME Traced, NEW w \in Worker, NEW r \in Replica, Applying(w, r),
         cur[w] # NoEvent, Finish(r, cur[w]), UNCHANGED log
  PROVE  Replication!Next
<1>1. cur[w] \in Event
  BY DEF Traced, TypeOK
<1>2. cur[w] \in log[r] \ applied[r]
  BY DEF Traced, Submitting, AppliedOnce
<1> QED
  BY <1>1, <1>2 DEF Finish, Replication!Next, Replication!Apply, Replication!Replica, Replica

\* Every step is one of EventLog, or leaves log and applied alone.
LEMMA StepRefines ==
  ASSUME Traced, [Next]_vars
  PROVE  [Replication!Next]_<<log, applied>>
<1>1. ASSUME NEW e \in Event, StoreOwn(e) \/ ApplyOwn(e) PROVE Replication!Next
  BY <1>1, OwnSteps
<1>2. ASSUME NEW s \in Slot, HandlerStore(s)
      PROVE  Replication!Next \/ UNCHANGED <<log, applied>>
  BY <1>2, HandlerStores
<1>3. ASSUME NEW s \in Slot, HandlerApply(s) PROVE Replication!Next
  BY <1>3, WorkerApplies DEF HandlerApply, Applying, Worker, Replica
<1>4. ASSUME NEW d \in Device, PageStore(d)
      PROVE  Replication!Next \/ UNCHANGED <<log, applied>>
  BY <1>4, PageStores
<1>5. ASSUME NEW d \in Device, PageApply(d) PROVE Replication!Next
  BY <1>5, WorkerApplies, SetAssumption DEF PageApply, Applying, Worker, Replica
<1>6. CASE UNCHANGED <<log, applied>>
  BY <1>6
<1> QED
  BY <1>1, <1>2, <1>3, <1>4, <1>5, <1>6, SMTT(60)
  DEF Next, UserStep, UploadStep, DownloadStep, DeviceFault, HandlerStep, vars,
      storeVars, Tick, Fill, OwnError, StartSync, Check, Fetch, Push, Retry, GiveUp,
      Mark, MoveLocalCursor, UploadFails, Pull, PageDone, Cut, DownloadFails,
      DeviceCrash, HandlerError, Reply, ServerCrash

\* Chunks, pages, retries, overlapping handlers, failures and crashes taken
\* together are plain replication by way of the server.
THEOREM Refinement == Spec => ReplicatesLog
<1>1. Init => Replication!Init
  BY DEF Init, Replication!Init, Replication!Replica, Replica
<1>2. Traced /\ [Next]_vars => [Replication!Next]_<<log, applied>>
  BY StepRefines
<1>3. Spec => []Traced
  BY Layers, PTL DEF Traced
<1> QED
  BY <1>1, <1>2, <1>3, PTL DEF Spec, ReplicatesLog, Replication!Spec
=============================================================================

-------------------------- MODULE InternalSyncGaps --------------------------
(***************************************************************************)
(* Theorems about the cursors of InternalSync: they only advance, and what *)
(* stays behind them for ever is exactly what UploadGapsKnown and          *)
(* DownloadGapsKnown name.  The layers continue those of                   *)
(* InternalSyncProofs: Past, Ordered and Listed lead to the upload gaps,   *)
(* Paged to the download gaps, Caught to AppliedGapsKnown.                 *)
(***************************************************************************)
EXTENDS InternalSyncProofs

-----------------------------------------------------------------------------
(* The local cursor *)

\* No timestamp or local cursor lies in the future.
Past ==
    /\ \A e \in Event : stamp[e] <= clock
    /\ \A d \in Device : localCursor[d] <= clock

\* Past is inductive.
LEMMA PastNext == TypeOK /\ Past /\ [Next]_vars => Past'
<1> SUFFICES ASSUME TypeOK, Past, [Next]_vars PROVE Past'
  OBVIOUS
<1>1. CASE Tick
  BY <1>1
  DEF Past, Tick, clockVars, storeVars, uploadVars, pageVars, cursorVars,
      workerVars, historyVars, TypeOK, Replica, Worker, Time
<1>2. ASSUME NEW e \in Event, Fill(e) PROVE Past'
  BY <1>2
  DEF Past, Fill, clockVars, storeVars, uploadVars, pageVars, cursorVars,
      workerVars, historyVars, TypeOK, Replica, Worker, Time
<1>3. ASSUME NEW e \in Event, StoreOwn(e) PROVE Past'
  BY <1>3
  DEF Past, StoreOwn, ServerGains, clockVars, storeVars, uploadVars, pageVars, cursorVars,
      workerVars, historyVars, TypeOK, Replica, Worker, Time
<1>4. ASSUME NEW e \in Event, ApplyOwn(e) PROVE Past'
  BY <1>4
  DEF Past, ApplyOwn, Finish, clockVars, storeVars, uploadVars, pageVars, cursorVars,
      workerVars, historyVars, TypeOK, Replica, Worker, Time
<1>5. ASSUME NEW e \in Event, OwnError(e) PROVE Past'
  BY <1>5
  DEF Past, OwnError, Fault, clockVars, storeVars, uploadVars, pageVars, cursorVars,
      workerVars, historyVars, TypeOK, Replica, Worker, Time
<1>6. ASSUME NEW d \in Device, StartSync(d) PROVE Past'
  BY <1>6
  DEF Past, StartSync, clockVars, storeVars, uploadVars, pageVars, cursorVars,
      workerVars, historyVars, TypeOK, Replica, Worker, Time
<1>7. ASSUME NEW d \in Device, Check(d) PROVE Past'
  BY <1>7
  DEF Past, Check, Fault, clockVars, storeVars, uploadVars, pageVars, cursorVars,
      workerVars, historyVars, TypeOK, Replica, Worker, Time
<1>8. ASSUME NEW d \in Device, Fetch(d) PROVE Past'
  BY <1>8
  DEF Past, Fetch, StartDownload, EventsSince, clockVars, storeVars, uploadVars, pageVars, cursorVars,
      workerVars, historyVars, TypeOK, Replica, Worker, Time
<1>9. ASSUME NEW d \in Device, Push(d) PROVE Past'
  BY <1>9
  DEF Past, Push, Post, Fault, IsFirst, clockVars, storeVars, uploadVars, pageVars, cursorVars,
      workerVars, historyVars, TypeOK, Replica, Worker, Time
<1>10. ASSUME NEW d \in Device, Retry(d) PROVE Past'
  BY <1>10
  DEF Past, Retry, Post, Fault, AttemptsLeft, clockVars, storeVars, uploadVars, pageVars, cursorVars,
      workerVars, historyVars, TypeOK, Replica, Worker, Time
<1>11. ASSUME NEW d \in Device, GiveUp(d) PROVE Past'
  BY <1>11
  DEF Past, GiveUp, Exhausted, clockVars, storeVars, uploadVars, pageVars, cursorVars,
      workerVars, historyVars, TypeOK, Replica, Worker, Time
<1>12. ASSUME NEW d \in Device, Mark(d) PROVE Past'
  BY <1>12
  DEF Past, Mark, ToMark, clockVars, storeVars, uploadVars, pageVars, cursorVars,
      workerVars, historyVars, TypeOK, Replica, Worker, Time
<1>13. ASSUME NEW d \in Device, MoveLocalCursor(d) PROVE Past'
  BY <1>13, SMTT(60)
  DEF Past, MoveLocalCursor, StartDownload, LastConfirmed, clockVars, storeVars, uploadVars, pageVars, cursorVars,
      workerVars, historyVars, TypeOK, Replica, Worker, Time
<1>14. ASSUME NEW d \in Device, UploadFails(d) PROVE Past'
  BY <1>14
  DEF Past, UploadFails, Fault, clockVars, storeVars, uploadVars, pageVars, cursorVars,
      workerVars, historyVars, TypeOK, Replica, Worker, Time
<1>15. ASSUME NEW d \in Device, Pull(d) PROVE Past'
  BY <1>15
  DEF Past, Pull, Leave, clockVars, storeVars, uploadVars, pageVars, cursorVars,
      workerVars, historyVars, TypeOK, Replica, Worker, Time
<1>16. ASSUME NEW d \in Device, PageStore(d) PROVE Past'
  BY <1>16
  DEF Past, PageStore, clockVars, storeVars, uploadVars, pageVars, cursorVars,
      workerVars, historyVars, TypeOK, Replica, Worker, Time
<1>17. ASSUME NEW d \in Device, PageApply(d) PROVE Past'
  BY <1>17
  DEF Past, PageApply, Finish, clockVars, storeVars, uploadVars, pageVars, cursorVars,
      workerVars, historyVars, TypeOK, Replica, Worker, Time
<1>18. ASSUME NEW d \in Device, PageDone(d) PROVE Past'
  BY <1>18
  DEF Past, PageDone, Leave, clockVars, storeVars, uploadVars, pageVars, cursorVars,
      workerVars, historyVars, TypeOK, Replica, Worker, Time
<1>19. ASSUME NEW d \in Device, Cut(d) PROVE Past'
  BY <1>19
  DEF Past, Cut, Fault, clockVars, storeVars, uploadVars, pageVars, cursorVars,
      workerVars, historyVars, TypeOK, Replica, Worker, Time
<1>20. ASSUME NEW d \in Device, DownloadFails(d) PROVE Past'
  BY <1>20
  DEF Past, DownloadFails, Leave, Fault, Rollback, clockVars, storeVars, uploadVars, pageVars, cursorVars,
      workerVars, historyVars, TypeOK, Replica, Worker, Time
<1>21. ASSUME NEW d \in Device, DeviceCrash(d) PROVE Past'
  BY <1>21
  DEF Past, DeviceCrash, Leave, Fault, Forget, clockVars, storeVars, uploadVars, pageVars, cursorVars,
      workerVars, historyVars, TypeOK, Replica, Worker, Time
<1>22. ASSUME NEW s \in Slot, HandlerStore(s) PROVE Past'
  BY <1>22
  DEF Past, HandlerStore, ServerGains, clockVars, storeVars, uploadVars, pageVars, cursorVars,
      workerVars, historyVars, TypeOK, Replica, Worker, Time
<1>23. ASSUME NEW s \in Slot, HandlerApply(s) PROVE Past'
  BY <1>23
  DEF Past, HandlerApply, Finish, clockVars, storeVars, uploadVars, pageVars, cursorVars,
      workerVars, historyVars, TypeOK, Replica, Worker, Time
<1>24. ASSUME NEW s \in Slot, HandlerError(s) PROVE Past'
  BY <1>24
  DEF Past, HandlerError, Fault, clockVars, storeVars, uploadVars, pageVars, cursorVars,
      workerVars, historyVars, TypeOK, Replica, Worker, Time
<1>25. ASSUME NEW s \in Slot, Reply(s) PROVE Past'
  BY <1>25
  DEF Past, Reply, clockVars, storeVars, uploadVars, pageVars, cursorVars,
      workerVars, historyVars, TypeOK, Replica, Worker, Time
<1>26. CASE ServerCrash
  BY <1>26
  DEF Past, ServerCrash, Forget, Fault, clockVars, storeVars, uploadVars, pageVars, cursorVars,
      workerVars, historyVars, TypeOK, Replica, Worker, Time
<1>27. CASE UNCHANGED vars
  BY <1>27 DEF Past, vars, clockVars, storeVars, uploadVars, pageVars, cursorVars,
      workerVars, historyVars, TypeOK, Replica, Worker, Time
<1> QED
  BY <1>1, <1>2, <1>3, <1>4, <1>5, <1>6, <1>7, <1>8, <1>9, <1>10, <1>11, <1>12, <1>13, <1>14, <1>15, <1>16, <1>17, <1>18, <1>19, <1>20, <1>21, <1>22, <1>23, <1>24, <1>25, <1>26, <1>27
  DEF Next, UserStep, UploadStep, DownloadStep, DeviceFault, HandlerStep

\* An upload list is worked through in timestamp order and lies above the cursor.
Ordered ==
    \A d \in Device :
      /\ pc[d] \notin Uploading => batch[d] = {} /\ sent[d] = {}
      /\ pc[d] \in {"mark", "cursor"} => batch[d] = {}
      /\ chunk[d] \subseteq batch[d]
      /\ pc[d] # "await" => chunk[d] = {}
      /\ \A e \in sent[d], f \in batch[d] : e # f /\ stamp[e] <= stamp[f]
      /\ \A e \in chunk[d], f \in batch[d] \ chunk[d] : stamp[e] <= stamp[f]
      /\ \A e \in batch[d] \cup sent[d] : stamp[e] > localCursor[d]

\* Ordered is inductive: chunks are cut off in timestamp order, and the cursor
\* moves only when the list is dropped.
LEMMA OrderedNext == TypeOK /\ Recorded /\ Past /\ Ordered /\ [Next]_vars => Ordered'
<1> SUFFICES ASSUME TypeOK, Recorded, Past, Ordered, [Next]_vars PROVE Ordered'
  OBVIOUS
<1>0. Kept
  BY KeptNext
<1>1. CASE Tick
  BY <1>1
  DEF Ordered, Tick, clockVars, storeVars, uploadVars, pageVars, cursorVars,
      workerVars, historyVars, TypeOK, Replica, Worker, Time, Uploading
<1>2. ASSUME NEW e \in Event, Fill(e) PROVE Ordered'
  BY <1>2
  DEF Ordered, Fill, clockVars, storeVars, uploadVars, pageVars, cursorVars,
      workerVars, historyVars, TypeOK, Replica, Worker, Time, Uploading
<1>3. ASSUME NEW e \in Event, StoreOwn(e) PROVE Ordered'
  BY <1>3
  DEF Ordered, StoreOwn, ServerGains, clockVars, storeVars, uploadVars, pageVars, cursorVars,
      workerVars, historyVars, TypeOK, Replica, Worker, Time, Uploading
<1>4. ASSUME NEW e \in Event, ApplyOwn(e) PROVE Ordered'
  BY <1>4
  DEF Ordered, ApplyOwn, Finish, clockVars, storeVars, uploadVars, pageVars, cursorVars,
      workerVars, historyVars, TypeOK, Replica, Worker, Time, Uploading
<1>5. ASSUME NEW e \in Event, OwnError(e) PROVE Ordered'
  BY <1>5
  DEF Ordered, OwnError, Fault, clockVars, storeVars, uploadVars, pageVars, cursorVars,
      workerVars, historyVars, TypeOK, Replica, Worker, Time, Uploading
<1>6. ASSUME NEW d \in Device, StartSync(d) PROVE Ordered'
  BY <1>6
  DEF Ordered, StartSync, clockVars, storeVars, uploadVars, pageVars, cursorVars,
      workerVars, historyVars, TypeOK, Replica, Worker, Time, Uploading
<1>7. ASSUME NEW d \in Device, Check(d) PROVE Ordered'
  BY <1>7, SMTT(60)
  DEF Ordered, Check, Fault, clockVars, storeVars, uploadVars, pageVars, cursorVars,
      workerVars, historyVars, TypeOK, Replica, Worker, Time, Uploading
<1>8. ASSUME NEW d \in Device, Fetch(d) PROVE Ordered'
  BY <1>8
  DEF Ordered, Fetch, StartDownload, EventsSince, clockVars, storeVars, uploadVars, pageVars, cursorVars,
      workerVars, historyVars, TypeOK, Replica, Worker, Time, Uploading
<1>9. ASSUME NEW d \in Device, Push(d) PROVE Ordered'
  BY <1>9
  DEF Ordered, Push, Post, Fault, IsFirst, clockVars, storeVars, uploadVars, pageVars, cursorVars,
      workerVars, historyVars, TypeOK, Replica, Worker, Time, Uploading
<1>10. ASSUME NEW d \in Device, Retry(d) PROVE Ordered'
  BY <1>10
  DEF Ordered, Retry, Post, Fault, AttemptsLeft, clockVars, storeVars, uploadVars, pageVars, cursorVars,
      workerVars, historyVars, TypeOK, Replica, Worker, Time, Uploading
<1>11. ASSUME NEW d \in Device, GiveUp(d) PROVE Ordered'
  BY <1>11
  DEF Ordered, GiveUp, Exhausted, clockVars, storeVars, uploadVars, pageVars, cursorVars,
      workerVars, historyVars, TypeOK, Replica, Worker, Time, Uploading
<1>12. ASSUME NEW d \in Device, Mark(d) PROVE Ordered'
  BY <1>12, SMTT(60)
  DEF Ordered, Mark, ToMark, clockVars, storeVars, uploadVars, pageVars, cursorVars,
      workerVars, historyVars, TypeOK, Replica, Worker, Time, Uploading
<1>13. ASSUME NEW d \in Device, MoveLocalCursor(d) PROVE Ordered'
  <2>1. /\ UNCHANGED <<stamp, chunk>>
        /\ pc[d] \in {"cursor", "reset"} /\ pc'[d] \in {"pull", "idle"}
        /\ batch'[d] = {} /\ sent'[d] = {}
        /\ \A c \in Device \ {d} :
             /\ pc'[c] = pc[c] /\ batch'[c] = batch[c] /\ sent'[c] = sent[c]
             /\ localCursor'[c] = localCursor[c]
    BY <1>13 DEF MoveLocalCursor, TypeOK, clockVars
  <2>2. chunk[d] = {}
    BY <2>1 DEF Ordered
  <2> QED
    BY <2>1, <2>2 DEF Ordered, Uploading
<1>14. ASSUME NEW d \in Device, UploadFails(d) PROVE Ordered'
  <2>1. UNCHANGED <<stamp, chunk, localCursor>>
    BY <1>14 DEF UploadFails, clockVars, cursorVars
  <2>2. \A c \in Device \ {d} :
          pc'[c] = pc[c] /\ batch'[c] = batch[c] /\ sent'[c] = sent[c]
    BY <1>14 DEF UploadFails, TypeOK
  <2>3. CASE pc[d] \in {"check", "fetch", "salvage", "reset"}
    <3>1. pc'[d] = "idle" /\ batch'[d] = {} /\ sent'[d] = {}
      BY <1>14, <2>3 DEF UploadFails, TypeOK
    <3>2. chunk[d] = {}
      BY <2>3 DEF Ordered
    <3> QED
      BY <2>1, <2>2, <3>1, <3>2 DEF Ordered, Uploading
  <2>4. CASE pc[d] \in {"mark", "cursor"}
    <3>1. pc'[d] = "salvage" /\ UNCHANGED <<batch, sent>>
      BY <1>14, <2>4 DEF UploadFails, TypeOK
    <3>2. chunk[d] = {} /\ batch[d] = {}
      BY <2>4 DEF Ordered
    <3>3. ASSUME NEW c \in Device \ {d}
          PROVE  /\ pc'[c] = pc[c] /\ batch'[c] = batch[c]
                 /\ sent'[c] = sent[c] /\ chunk'[c] = chunk[c]
      BY <2>1, <2>2
    <3> QED
      BY <2>1, <3>1, <3>2, <3>3 DEF Ordered, Uploading
  <2> QED
    BY <1>14, <2>3, <2>4 DEF UploadFails
<1>15. ASSUME NEW d \in Device, Pull(d) PROVE Ordered'
  <2>1. /\ UNCHANGED <<stamp, localCursor, batch, sent, chunk>>
        /\ pc[d] = "pull" /\ pc'[d] \in {"idle", "page"}
        /\ \A c \in Device \ {d} : pc'[c] = pc[c]
    BY <1>15 DEF Pull, Leave, TypeOK, clockVars, uploadVars, cursorVars
  <2>2. batch[d] = {} /\ sent[d] = {} /\ chunk[d] = {}
    BY <2>1 DEF Ordered, Uploading
  <2> QED
    BY <2>1, <2>2 DEF Ordered, Uploading
<1>16. ASSUME NEW d \in Device, PageStore(d) PROVE Ordered'
  BY <1>16
  DEF Ordered, PageStore, clockVars, storeVars, uploadVars, pageVars, cursorVars,
      workerVars, historyVars, TypeOK, Replica, Worker, Time, Uploading
<1>17. ASSUME NEW d \in Device, PageApply(d) PROVE Ordered'
  BY <1>17
  DEF Ordered, PageApply, Finish, clockVars, storeVars, uploadVars, pageVars, cursorVars,
      workerVars, historyVars, TypeOK, Replica, Worker, Time, Uploading
<1>18. ASSUME NEW d \in Device, PageDone(d) PROVE Ordered'
  BY <1>18
  DEF Ordered, PageDone, Leave, clockVars, storeVars, uploadVars, pageVars, cursorVars,
      workerVars, historyVars, TypeOK, Replica, Worker, Time, Uploading
<1>19. ASSUME NEW d \in Device, Cut(d) PROVE Ordered'
  BY <1>19
  DEF Ordered, Cut, Fault, clockVars, storeVars, uploadVars, pageVars, cursorVars,
      workerVars, historyVars, TypeOK, Replica, Worker, Time, Uploading
<1>20. ASSUME NEW d \in Device, DownloadFails(d) PROVE Ordered'
  BY <1>20
  DEF Ordered, DownloadFails, Leave, Fault, Rollback, clockVars, storeVars, uploadVars, pageVars, cursorVars,
      workerVars, historyVars, TypeOK, Replica, Worker, Time, Uploading
<1>21. ASSUME NEW d \in Device, DeviceCrash(d) PROVE Ordered'
  <2>1. \A c \in Device : \A e \in batch[c] \cup sent[c] : e \in Event /\ stamp'[e] = stamp[e]
    BY <1>0 DEF Kept, Recorded, TypeOK, Replica
  <2>2. /\ UNCHANGED localCursor
        /\ pc'[d] = "idle" /\ batch'[d] = {} /\ sent'[d] = {} /\ chunk'[d] = {}
        /\ \A c \in Device \ {d} : /\ pc'[c] = pc[c] /\ batch'[c] = batch[c]
                                  /\ sent'[c] = sent[c] /\ chunk'[c] = chunk[c]
    BY <1>21 DEF DeviceCrash, Leave, TypeOK, cursorVars
  <2> QED
    BY <2>1, <2>2 DEF Ordered, Uploading
<1>22. ASSUME NEW s \in Slot, HandlerStore(s) PROVE Ordered'
  BY <1>22
  DEF Ordered, HandlerStore, ServerGains, clockVars, storeVars, uploadVars, pageVars, cursorVars,
      workerVars, historyVars, TypeOK, Replica, Worker, Time, Uploading
<1>23. ASSUME NEW s \in Slot, HandlerApply(s) PROVE Ordered'
  BY <1>23
  DEF Ordered, HandlerApply, Finish, clockVars, storeVars, uploadVars, pageVars, cursorVars,
      workerVars, historyVars, TypeOK, Replica, Worker, Time, Uploading
<1>24. ASSUME NEW s \in Slot, HandlerError(s) PROVE Ordered'
  BY <1>24
  DEF Ordered, HandlerError, Fault, clockVars, storeVars, uploadVars, pageVars, cursorVars,
      workerVars, historyVars, TypeOK, Replica, Worker, Time, Uploading
<1>25. ASSUME NEW s \in Slot, Reply(s) PROVE Ordered'
  BY <1>25
  DEF Ordered, Reply, clockVars, storeVars, uploadVars, pageVars, cursorVars,
      workerVars, historyVars, TypeOK, Replica, Worker, Time, Uploading
<1>26. CASE ServerCrash
  <2>1. \A c \in Device : \A e \in batch[c] \cup sent[c] : e \in Event /\ stamp'[e] = stamp[e]
    BY <1>0 DEF Kept, Recorded, TypeOK, Replica
  <2>2. UNCHANGED <<pc, batch, chunk, sent, localCursor>>
    BY <1>26 DEF ServerCrash, cursorVars
  <2> QED
    BY <2>1, <2>2 DEF Ordered
<1>27. CASE UNCHANGED vars
  BY <1>27 DEF Ordered, vars, clockVars, storeVars, uploadVars, pageVars, cursorVars,
      workerVars, historyVars, TypeOK, Replica, Worker, Time, Uploading
<1> QED
  BY <1>1, <1>2, <1>3, <1>4, <1>5, <1>6, <1>7, <1>8, <1>9, <1>10, <1>11, <1>12, <1>13, <1>14, <1>15, <1>16, <1>17, <1>18, <1>19, <1>20, <1>21, <1>22, <1>23, <1>24, <1>25, <1>26, <1>27
  DEF Next, UserStep, UploadStep, DownloadStep, DeviceFault, HandlerStep

\* The list has every own event above the cursor but those that came too late.
Listed ==
    \A d \in Device : pc[d] \in Uploading =>
      \A e \in log[d] : Home[e] = d =>
        \/ stamp[e] <= localCursor[d]
        \/ e \in batch[d] \cup sent[d] \cup raced

\* Listed is inductive: an own event that is not on the list was stored after
\* the list was read.
LEMMA ListedNext == TypeOK /\ Recorded /\ Acknowledged /\ Ordered /\ Listed /\ [Next]_vars => Listed'
<1> SUFFICES ASSUME TypeOK, Recorded, Acknowledged, Ordered, Listed, [Next]_vars PROVE Listed'
  OBVIOUS
<1>0. Kept
  BY KeptNext
<1>1. CASE Tick
  BY <1>1
  DEF Listed, Tick, clockVars, storeVars, uploadVars, pageVars, cursorVars,
      workerVars, historyVars, TypeOK, Replica, Worker, Time, Uploading
<1>2. ASSUME NEW e \in Event, Fill(e) PROVE Listed'
  <2>1. \A c \in Device : \A f \in log[c] : f \in Event /\ stamp'[f] = stamp[f]
    BY <1>0 DEF Kept, Recorded, TypeOK, Replica
  <2>2. UNCHANGED <<log, pc, batch, sent, raced, localCursor>>
    BY <1>2 DEF Fill, storeVars, uploadVars, cursorVars, historyVars
  <2> QED
    BY <2>1, <2>2 DEF Listed
<1>3. ASSUME NEW e \in Event, StoreOwn(e) PROVE Listed'
  <2>1. UNCHANGED <<stamp, pc, batch, sent, localCursor>>
    BY <1>3 DEF StoreOwn, clockVars, uploadVars, cursorVars
  <2>2. raced \subseteq raced'
    BY <1>0 DEF Kept
  <2>3. ASSUME NEW c \in Device, pc[c] \in Uploading,
               NEW f \in log'[c], Home[f] = c, f \notin log[c]
        PROVE  f \in raced'
    <3>1. log' = [log EXCEPT ![Home[e]] = @ \cup {e}]
      BY <1>3 DEF StoreOwn, ServerGains
    <3>2. f = e /\ Home[e] # Server
      BY <2>3, <3>1, SetAssumption, EventAssumption DEF TypeOK, Replica
    <3> QED
      BY <1>3, <2>3, <3>2 DEF StoreOwn
  <2> QED
    BY <2>1, <2>2, <2>3 DEF Listed
<1>4. ASSUME NEW e \in Event, ApplyOwn(e) PROVE Listed'
  BY <1>4
  DEF Listed, ApplyOwn, Finish, clockVars, storeVars, uploadVars, pageVars, cursorVars,
      workerVars, historyVars, TypeOK, Replica, Worker, Time, Uploading
<1>5. ASSUME NEW e \in Event, OwnError(e) PROVE Listed'
  BY <1>5
  DEF Listed, OwnError, Fault, clockVars, storeVars, uploadVars, pageVars, cursorVars,
      workerVars, historyVars, TypeOK, Replica, Worker, Time, Uploading
<1>6. ASSUME NEW d \in Device, StartSync(d) PROVE Listed'
  BY <1>6
  DEF Listed, StartSync, clockVars, storeVars, uploadVars, pageVars, cursorVars,
      workerVars, historyVars, TypeOK, Replica, Worker, Time, Uploading
<1>7. ASSUME NEW d \in Device, Check(d) PROVE Listed'
  BY <1>7, SMTT(60)
  DEF Listed, Check, Fault, clockVars, storeVars, uploadVars, pageVars, cursorVars,
      workerVars, historyVars, TypeOK, Replica, Worker, Time, Uploading
<1>8. ASSUME NEW d \in Device, Fetch(d) PROVE Listed'
  BY <1>8
  DEF Listed, Fetch, StartDownload, EventsSince, clockVars, storeVars, uploadVars, pageVars, cursorVars,
      workerVars, historyVars, TypeOK, Replica, Worker, Time, Uploading
<1>9. ASSUME NEW d \in Device, Push(d) PROVE Listed'
  BY <1>9
  DEF Listed, Push, Post, Fault, IsFirst, clockVars, storeVars, uploadVars, pageVars, cursorVars,
      workerVars, historyVars, TypeOK, Replica, Worker, Time, Uploading
<1>10. ASSUME NEW d \in Device, Retry(d) PROVE Listed'
  BY <1>10
  DEF Listed, Retry, Post, Fault, AttemptsLeft, clockVars, storeVars, uploadVars, pageVars, cursorVars,
      workerVars, historyVars, TypeOK, Replica, Worker, Time, Uploading
<1>11. ASSUME NEW d \in Device, GiveUp(d) PROVE Listed'
  <2>1. /\ UNCHANGED <<stamp, log, sent, raced, localCursor>>
        /\ pc'[d] = "idle" \/ batch'[d] = batch[d]
        /\ pc[d] \in Uploading
        /\ \A c \in Device \ {d} : pc'[c] = pc[c] /\ batch'[c] = batch[c]
    BY <1>11 DEF GiveUp, Exhausted, TypeOK, Uploading, clockVars, storeVars, cursorVars, historyVars
  <2> QED
    BY <2>1 DEF Listed, Uploading
<1>12. ASSUME NEW d \in Device, Mark(d) PROVE Listed'
  BY <1>12
  DEF Listed, Mark, ToMark, clockVars, storeVars, uploadVars, pageVars, cursorVars,
      workerVars, historyVars, TypeOK, Replica, Worker, Time, Uploading
<1>13. ASSUME NEW d \in Device, MoveLocalCursor(d) PROVE Listed'
  BY <1>13
  DEF Listed, MoveLocalCursor, StartDownload, LastConfirmed, clockVars, storeVars, uploadVars, pageVars, cursorVars,
      workerVars, historyVars, TypeOK, Replica, Worker, Time, Uploading
<1>14. ASSUME NEW d \in Device, UploadFails(d) PROVE Listed'
  BY <1>14
  DEF Listed, UploadFails, Fault, clockVars, storeVars, uploadVars, pageVars, cursorVars,
      workerVars, historyVars, TypeOK, Replica, Worker, Time, Uploading
<1>15. ASSUME NEW d \in Device, Pull(d) PROVE Listed'
  BY <1>15, SMTT(60)
  DEF Listed, Pull, Leave, clockVars, storeVars, uploadVars, pageVars, cursorVars,
      workerVars, historyVars, TypeOK, Replica, Worker, Time, Uploading
<1>16. ASSUME NEW d \in Device, PageStore(d) PROVE Listed'
  BY <1>16
  DEF Listed, PageStore, clockVars, storeVars, uploadVars, pageVars, cursorVars,
      workerVars, historyVars, TypeOK, Replica, Worker, Time, Uploading
<1>17. ASSUME NEW d \in Device, PageApply(d) PROVE Listed'
  BY <1>17
  DEF Listed, PageApply, Finish, clockVars, storeVars, uploadVars, pageVars, cursorVars,
      workerVars, historyVars, TypeOK, Replica, Worker, Time, Uploading
<1>18. ASSUME NEW d \in Device, PageDone(d) PROVE Listed'
  BY <1>18
  DEF Listed, PageDone, Leave, clockVars, storeVars, uploadVars, pageVars, cursorVars,
      workerVars, historyVars, TypeOK, Replica, Worker, Time, Uploading
<1>19. ASSUME NEW d \in Device, Cut(d) PROVE Listed'
  BY <1>19
  DEF Listed, Cut, Fault, clockVars, storeVars, uploadVars, pageVars, cursorVars,
      workerVars, historyVars, TypeOK, Replica, Worker, Time, Uploading
<1>20. ASSUME NEW d \in Device, DownloadFails(d) PROVE Listed'
  BY <1>20
  DEF Listed, DownloadFails, Leave, Fault, Rollback, clockVars, storeVars, uploadVars, pageVars, cursorVars,
      workerVars, historyVars, TypeOK, Replica, Worker, Time, Uploading
<1>21. ASSUME NEW d \in Device, DeviceCrash(d) PROVE Listed'
  BY <1>21
  DEF Listed, DeviceCrash, Leave, Fault, Forget, clockVars, storeVars, uploadVars, pageVars, cursorVars,
      workerVars, historyVars, TypeOK, Replica, Worker, Time, Uploading
<1>22. ASSUME NEW s \in Slot, HandlerStore(s) PROVE Listed'
  <2>1. UNCHANGED <<stamp, pc, batch, sent, raced, localCursor>>
    BY <1>22 DEF HandlerStore, clockVars, uploadVars, cursorVars
  <2>2. \A c \in Device : log'[c] = log[c]
    BY <1>22, SetAssumption DEF HandlerStore, ServerGains, TypeOK, Replica
  <2> QED
    BY <2>1, <2>2 DEF Listed
<1>23. ASSUME NEW s \in Slot, HandlerApply(s) PROVE Listed'
  BY <1>23
  DEF Listed, HandlerApply, Finish, clockVars, storeVars, uploadVars, pageVars, cursorVars,
      workerVars, historyVars, TypeOK, Replica, Worker, Time, Uploading
<1>24. ASSUME NEW s \in Slot, HandlerError(s) PROVE Listed'
  BY <1>24
  DEF Listed, HandlerError, Fault, clockVars, storeVars, uploadVars, pageVars, cursorVars,
      workerVars, historyVars, TypeOK, Replica, Worker, Time, Uploading
<1>25. ASSUME NEW s \in Slot, Reply(s) PROVE Listed'
  <2>1. UNCHANGED <<stamp, log, raced, localCursor>>
    BY <1>25 DEF Reply, clockVars, storeVars, cursorVars, historyVars
  <2>2. CASE UNCHANGED <<pc, batch, sent>>
    BY <2>1, <2>2 DEF Listed
  <2>3. ASSUME NEW d \in Device, Reply(s)!3!2!(d)
        PROVE  Listed'
    <3>1. \A c \in Device \ {d} :
            pc'[c] = pc[c] /\ batch'[c] = batch[c] /\ sent'[c] = sent[c]
      BY <2>3 DEF TypeOK
    <3>2. batch[d] \cup sent[d] \subseteq batch'[d] \cup sent'[d]
      BY <2>3 DEF TypeOK
    <3>3. pc[d] \in Uploading
      BY <2>3, SetAssumption DEF Acknowledged, Uploading, TypeOK
    <3> QED
      BY <2>1, <3>1, <3>2, <3>3 DEF Listed
  <2> QED
    BY <1>25, <2>2, <2>3 DEF Reply, uploadVars
<1>26. CASE ServerCrash
  BY <1>26
  DEF Listed, ServerCrash, Forget, Fault, clockVars, storeVars, uploadVars, pageVars, cursorVars,
      workerVars, historyVars, TypeOK, Replica, Worker, Time, Uploading
<1>27. CASE UNCHANGED vars
  BY <1>27 DEF Listed, vars, clockVars, storeVars, uploadVars, pageVars, cursorVars,
      workerVars, historyVars, TypeOK, Replica, Worker, Time, Uploading
<1> QED
  BY <1>1, <1>2, <1>3, <1>4, <1>5, <1>6, <1>7, <1>8, <1>9, <1>10, <1>11, <1>12, <1>13, <1>14, <1>15, <1>16, <1>17, <1>18, <1>19, <1>20, <1>21, <1>22, <1>23, <1>24, <1>25, <1>26, <1>27
  DEF Next, UserStep, UploadStep, DownloadStep, DeviceFault, HandlerStep

\* A tie between stored events is for ever.
LEMMA TiedKept ==
  ASSUME Kept, NEW e \in Event, e \in log[Home[e]], Tied(e)
  PROVE  Tied(e)'
<1>1. PICK f \in Event \ {e} : f \in log[Home[f]] /\ stamp[f] = stamp[e]
  BY DEF Tied
<1>2. f \in log'[Home[f]]
  BY <1>1, EventAssumption DEF Kept
<1>3. stamp'[f] = stamp'[e]
  BY <1>1 DEF Kept
<1> QED
  BY <1>2, <1>3 DEF Tied

\* Known gaps of the upload stay known while the cursor stands, provided a new
\* event of the device's own is above it or recorded as raced.
LEMMA UploadGapsStay ==
  ASSUME TypeOK, Recorded, Kept, UploadGapsKnown, UNCHANGED localCursor,
         \A d \in Device : \A e \in log'[d] :
           Home[e] = d /\ stamp'[e] <= localCursor[d] =>
             e \in log[d] \/ e \in raced'
  PROVE  UploadGapsKnown'
<1> SUFFICES ASSUME NEW d \in Device, NEW e \in log'[d], e \in log[d],
                    Home[e] = d, stamp'[e] <= localCursor[d]
             PROVE  e \in log'[Server] \/ e \in raced' \/ e \in dropped' \/ Tied(e)'
  BY DEF UploadGapsKnown, TypeOK
<1>1. e \in Event /\ stamp'[e] = stamp[e]
  BY DEF Kept, TypeOK, Replica
<1>2. e \in log[Server] \/ e \in raced \/ e \in dropped \/ Tied(e)
  BY <1>1 DEF UploadGapsKnown
<1>3. Tied(e) => Tied(e)'
  BY <1>1, TiedKept
<1> QED
  BY <1>2, <1>3 DEF Kept, Replica

\* No step adds an unknown gap: the cursor moves to the present when the whole
\* list was confirmed, and otherwise to the last confirmed event, below which
\* only a tie can be left.
LEMMA UploadGapsNext == TypeOK /\ Recorded /\ Acknowledged /\ Ordered /\ Listed /\ UploadGapsKnown /\ [Next]_vars => UploadGapsKnown'
<1> SUFFICES ASSUME TypeOK, Recorded, Acknowledged, Ordered, Listed, UploadGapsKnown, [Next]_vars PROVE UploadGapsKnown'
  OBVIOUS
<1>0. Kept
  BY KeptNext
<1>1. CASE Tick
  BY <1>1, <1>0, UploadGapsStay
  DEF Tick, clockVars, storeVars, uploadVars, pageVars, cursorVars,
      workerVars, historyVars
<1>2. ASSUME NEW e \in Event, Fill(e) PROVE UploadGapsKnown'
  BY <1>2, <1>0, UploadGapsStay
  DEF Fill, clockVars, storeVars, uploadVars, pageVars, cursorVars,
      workerVars, historyVars
<1>3. ASSUME NEW e \in Event, StoreOwn(e) PROVE UploadGapsKnown'
  <2>1. log' = [log EXCEPT ![Home[e]] = @ \cup {e}]
    BY <1>3 DEF StoreOwn, ServerGains
  <2>2. UNCHANGED <<stamp, localCursor>>
    BY <1>3 DEF StoreOwn, clockVars, cursorVars
  <2>3. ASSUME NEW d \in Device, NEW f \in log'[d], f \notin log[d], Home[f] = d,
               stamp'[f] <= localCursor[d]
        PROVE  f \in raced'
    <3>1. f = e /\ Home[e] = d /\ Home[e] # Server
      BY <2>1, <2>3, SetAssumption, EventAssumption DEF TypeOK, Replica
    <3> QED
      BY <1>3, <2>2, <2>3, <3>1 DEF StoreOwn
  <2> QED
    BY <1>0, <2>2, <2>3, UploadGapsStay
<1>4. ASSUME NEW e \in Event, ApplyOwn(e) PROVE UploadGapsKnown'
  BY <1>4, <1>0, UploadGapsStay
  DEF ApplyOwn, Finish, clockVars, storeVars, uploadVars, pageVars, cursorVars,
      workerVars, historyVars
<1>5. ASSUME NEW e \in Event, OwnError(e) PROVE UploadGapsKnown'
  BY <1>5, <1>0, UploadGapsStay
  DEF OwnError, Fault, clockVars, storeVars, uploadVars, pageVars, cursorVars,
      workerVars, historyVars
<1>6. ASSUME NEW d \in Device, StartSync(d) PROVE UploadGapsKnown'
  BY <1>6, <1>0, UploadGapsStay
  DEF StartSync, clockVars, storeVars, uploadVars, pageVars, cursorVars,
      workerVars, historyVars
<1>7. ASSUME NEW d \in Device, Check(d) PROVE UploadGapsKnown'
  BY <1>7, <1>0, UploadGapsStay
  DEF Check, Fault, clockVars, storeVars, uploadVars, pageVars, cursorVars,
      workerVars, historyVars
<1>8. ASSUME NEW d \in Device, Fetch(d) PROVE UploadGapsKnown'
  BY <1>8, <1>0, UploadGapsStay
  DEF Fetch, StartDownload, EventsSince, clockVars, storeVars, uploadVars, pageVars, cursorVars,
      workerVars, historyVars
<1>9. ASSUME NEW d \in Device, Push(d) PROVE UploadGapsKnown'
  BY <1>9, <1>0, UploadGapsStay
  DEF Push, Post, Fault, IsFirst, clockVars, storeVars, uploadVars, pageVars, cursorVars,
      workerVars, historyVars
<1>10. ASSUME NEW d \in Device, Retry(d) PROVE UploadGapsKnown'
  BY <1>10, <1>0, UploadGapsStay
  DEF Retry, Post, Fault, AttemptsLeft, clockVars, storeVars, uploadVars, pageVars, cursorVars,
      workerVars, historyVars
<1>11. ASSUME NEW d \in Device, GiveUp(d) PROVE UploadGapsKnown'
  BY <1>11, <1>0, UploadGapsStay
  DEF GiveUp, Exhausted, clockVars, storeVars, uploadVars, pageVars, cursorVars,
      workerVars, historyVars
<1>12. ASSUME NEW d \in Device, Mark(d) PROVE UploadGapsKnown'
  BY <1>12, <1>0, UploadGapsStay
  DEF Mark, ToMark, clockVars, storeVars, uploadVars, pageVars, cursorVars,
      workerVars, historyVars
<1>13. ASSUME NEW d \in Device, MoveLocalCursor(d) PROVE UploadGapsKnown'
  <2>1. UNCHANGED <<stamp, log, raced, dropped>>
    BY <1>13 DEF MoveLocalCursor, clockVars, storeVars, historyVars
  <2>2. \A c \in Device \ {d} : localCursor'[c] = localCursor[c]
    BY <1>13 DEF MoveLocalCursor, TypeOK
  <2>3. \A e \in Event : Tied(e)' <=> Tied(e)
    BY <2>1 DEF Tied
  <2>4. ASSUME NEW e \in log[d], Home[e] = d, stamp[e] <= localCursor'[d]
        PROVE  e \in log[Server] \/ e \in raced \/ e \in dropped \/ Tied(e)
    <3>1. CASE stamp[e] <= localCursor[d]
      BY <2>4, <3>1 DEF UploadGapsKnown
    <3>2. CASE e \in sent[d]
      BY <3>2 DEF Acknowledged
    <3>3. CASE e \in raced
      BY <3>3
    <3>4. CASE e \in batch[d]
      <4>1. pc[d] = "reset"
        BY <1>13, <3>4 DEF MoveLocalCursor, Ordered
      <4>2. PICK last \in sent[d] : localCursor'[d] = stamp[last]
        BY <1>13, <4>1 DEF MoveLocalCursor, LastConfirmed, TypeOK
      <4>3. e # last /\ stamp[last] <= stamp[e]
        BY <3>4 DEF Ordered
      <4>4. /\ e \in Event /\ last \in Event /\ last \in log[Home[last]]
            /\ stamp[e] \in Nat /\ stamp[last] \in Nat
        BY DEF Recorded, TypeOK, Replica, Time
      <4>5. stamp[last] = stamp[e]
        BY <2>4, <4>2, <4>3, <4>4
      <4> QED
        BY <4>3, <4>4, <4>5 DEF Tied
    <3> QED
      BY <1>13, <2>4, <3>1, <3>2, <3>3, <3>4 DEF MoveLocalCursor, Listed, Uploading
  <2> QED
    BY <2>1, <2>2, <2>3, <2>4 DEF UploadGapsKnown, TypeOK, Replica
<1>14. ASSUME NEW d \in Device, UploadFails(d) PROVE UploadGapsKnown'
  BY <1>14, <1>0, UploadGapsStay
  DEF UploadFails, Fault, clockVars, storeVars, uploadVars, pageVars, cursorVars,
      workerVars, historyVars
<1>15. ASSUME NEW d \in Device, Pull(d) PROVE UploadGapsKnown'
  BY <1>15, <1>0, UploadGapsStay
  DEF Pull, Leave, clockVars, storeVars, uploadVars, pageVars, cursorVars,
      workerVars, historyVars
<1>16. ASSUME NEW d \in Device, PageStore(d) PROVE UploadGapsKnown'
  <2>1. PICK e \in todo[d] : PageStore(d)!2!(e)
    BY <1>16 DEF PageStore
  <2>2. Home[e] = d => e \in log[d]
    BY DEF Recorded, Replica
  <2>3. log' = log \/ log' = [log EXCEPT ![d] = @ \cup {e}]
    BY <2>1
  <2>4. \A c \in Device : \A f \in log'[c] : f \in log[c] \/ Home[f] # c
    BY <2>2, <2>3, SMTT(60) DEF TypeOK, Replica
  <2>5. UNCHANGED localCursor
    BY <1>16 DEF PageStore
  <2> QED
    BY <1>0, <2>4, <2>5, UploadGapsStay
<1>17. ASSUME NEW d \in Device, PageApply(d) PROVE UploadGapsKnown'
  BY <1>17, <1>0, UploadGapsStay
  DEF PageApply, Finish, clockVars, storeVars, uploadVars, pageVars, cursorVars,
      workerVars, historyVars
<1>18. ASSUME NEW d \in Device, PageDone(d) PROVE UploadGapsKnown'
  BY <1>18, <1>0, UploadGapsStay
  DEF PageDone, Leave, clockVars, storeVars, uploadVars, pageVars, cursorVars,
      workerVars, historyVars
<1>19. ASSUME NEW d \in Device, Cut(d) PROVE UploadGapsKnown'
  BY <1>19, <1>0, UploadGapsStay
  DEF Cut, Fault, clockVars, storeVars, uploadVars, pageVars, cursorVars,
      workerVars, historyVars
<1>20. ASSUME NEW d \in Device, DownloadFails(d) PROVE UploadGapsKnown'
  BY <1>20, <1>0, UploadGapsStay
  DEF DownloadFails, Leave, Fault, Rollback, clockVars, storeVars, uploadVars, pageVars, cursorVars,
      workerVars, historyVars
<1>21. ASSUME NEW d \in Device, DeviceCrash(d) PROVE UploadGapsKnown'
  BY <1>21, <1>0, UploadGapsStay
  DEF DeviceCrash, Leave, Fault, Forget, clockVars, storeVars, uploadVars, pageVars, cursorVars,
      workerVars, historyVars
<1>22. ASSUME NEW s \in Slot, HandlerStore(s) PROVE UploadGapsKnown'
  <2>1. \A c \in Device : log'[c] = log[c]
    BY <1>22, SetAssumption DEF HandlerStore, ServerGains, TypeOK, Replica
  <2>2. UNCHANGED localCursor
    BY <1>22 DEF HandlerStore, cursorVars
  <2> QED
    BY <1>0, <2>1, <2>2, UploadGapsStay
<1>23. ASSUME NEW s \in Slot, HandlerApply(s) PROVE UploadGapsKnown'
  BY <1>23, <1>0, UploadGapsStay
  DEF HandlerApply, Finish, clockVars, storeVars, uploadVars, pageVars, cursorVars,
      workerVars, historyVars
<1>24. ASSUME NEW s \in Slot, HandlerError(s) PROVE UploadGapsKnown'
  BY <1>24, <1>0, UploadGapsStay
  DEF HandlerError, Fault, clockVars, storeVars, uploadVars, pageVars, cursorVars,
      workerVars, historyVars
<1>25. ASSUME NEW s \in Slot, Reply(s) PROVE UploadGapsKnown'
  BY <1>25, <1>0, UploadGapsStay
  DEF Reply, clockVars, storeVars, uploadVars, pageVars, cursorVars,
      workerVars, historyVars
<1>26. CASE ServerCrash
  BY <1>26, <1>0, UploadGapsStay
  DEF ServerCrash, Forget, Fault, clockVars, storeVars, uploadVars, pageVars, cursorVars,
      workerVars, historyVars
<1>27. CASE UNCHANGED vars
  BY <1>27, <1>0, UploadGapsStay DEF vars, clockVars, storeVars, uploadVars, pageVars, cursorVars,
      workerVars, historyVars
<1> QED
  BY <1>1, <1>2, <1>3, <1>4, <1>5, <1>6, <1>7, <1>8, <1>9, <1>10, <1>11, <1>12, <1>13, <1>14, <1>15, <1>16, <1>17, <1>18, <1>19, <1>20, <1>21, <1>22, <1>23, <1>24, <1>25, <1>26, <1>27
  DEF Next, UserStep, UploadStep, DownloadStep, DeviceFault, HandlerStep

-----------------------------------------------------------------------------
(* The remote cursor *)

\* A page in progress has every event between its two cursors.
Paged ==
    \A d \in Device :
      /\ good[d] \in {0, remoteCursor[d]}
      /\ pc[d] = "pull" => next[d] = remoteCursor[d]
      /\ pc[d] = "page" =>
           /\ next[d] >= remoteCursor[d]
           /\ \A e \in log[Server] : stamp[e] <= next[d] =>
                e \in log[d] \/ e \in todo[d] \/ e \in late[d] \/ Tied(e)

\* A failed download leaves the cursor alone, or moves it to the end of a page
\* that was complete.
LEMMA RolledBack ==
  ASSUME TypeOK, Paged, NEW d \in Device, DownloadFails(d)
  PROVE  \/ remoteCursor' = remoteCursor
         \/ /\ pc[d] = "page" /\ PageComplete(d) /\ todo[d] = {} /\ cur[d] = NoEvent
            /\ remoteCursor' = [remoteCursor EXCEPT ![d] = next[d]]
<1>1. ~PageComplete(d) => Rollback(d) = remoteCursor[d]
  BY DEF Rollback, Paged
<1>2. PageComplete(d) => Rollback(d) = next[d] /\ todo[d] = {} /\ cur[d] = NoEvent
  BY DEF Rollback, PageComplete
<1> QED
  BY <1>1, <1>2 DEF DownloadFails, TypeOK

\* A page in progress keeps covering what is below its end as long as events
\* leave the page for the store only, and what the server gains is above the
\* device's reach or recorded as late; the same holds of the stored cursor.
LEMMA CoverageStays ==
  ASSUME TypeOK, TypeOK', Recorded, Kept, Paged, DownloadGapsKnown,
         UNCHANGED remoteCursor,
         \A d \in Device :
           /\ good'[d] \in {0, remoteCursor[d]}
           /\ pc'[d] = "pull" => next'[d] = remoteCursor[d]
           /\ pc'[d] = "page" =>
                /\ pc[d] = "page"
                /\ next'[d] = next[d]
                /\ todo[d] \subseteq todo'[d] \cup log'[d],
         \A d \in Device : \A e \in log'[Server] :
           stamp'[e] <= Reach(d) => e \in log[Server] \/ e \in late'[d]
  PROVE  Paged' /\ DownloadGapsKnown'
<1>1. \A e \in log[Server] : /\ e \in Event /\ e \in log[Home[e]]
                             /\ stamp'[e] = stamp[e] /\ (Tied(e) => Tied(e)')
  BY TiedKept DEF Recorded, Kept, TypeOK, Replica
<1>2. ASSUME NEW d \in Device, pc'[d] = "page",
             NEW e \in log'[Server], stamp'[e] <= next'[d]
      PROVE  e \in log'[d] \/ e \in todo'[d] \/ e \in late'[d] \/ Tied(e)'
  <2>1. pc[d] = "page" /\ next'[d] = next[d] /\ Reach(d) = next[d]
    BY <1>2 DEF Reach
  <2>2. CASE e \in log[Server]
    <3>1. e \in log[d] \/ e \in todo[d] \/ e \in late[d] \/ Tied(e)
      BY <1>1, <1>2, <2>1, <2>2 DEF Paged
    <3> QED
      BY <1>1, <1>2, <2>2, <3>1 DEF Kept, Replica
  <2> QED
    BY <1>2, <2>1, <2>2
<1>3. Paged'
  <2>1. \A d \in Device : pc'[d] = "page" => next'[d] >= remoteCursor'[d]
    BY DEF Paged
  <2> QED
    BY <1>2, <2>1 DEF Paged
<1>4. ASSUME NEW d \in Device, NEW e \in log'[Server], stamp'[e] <= remoteCursor[d]
      PROVE  e \in log'[d] \/ e \in late'[d] \/ Tied(e)'
  <2>1. CASE e \in log[Server]
    <3>1. e \in log[d] \/ e \in late[d] \/ Tied(e)
      BY <1>1, <1>4, <2>1 DEF DownloadGapsKnown
    <3> QED
      BY <1>1, <2>1, <3>1 DEF Kept, Replica
  <2>2. CASE e \notin log[Server]
    <3>1. Reach(d) \in Nat /\ remoteCursor[d] \in Nat /\ remoteCursor[d] <= Reach(d)
      BY DEF Reach, Paged, TypeOK, Time
    <3>2. stamp'[e] \in Nat
      BY DEF TypeOK, Time, Replica
    <3> QED
      BY <1>4, <2>2, <3>1, <3>2
  <2> QED
    BY <2>1, <2>2
<1> QED
  BY <1>3, <1>4 DEF DownloadGapsKnown

\* No step adds an unknown gap: a page is the oldest part of what is above the
\* cursor, and the cursor moves to its end when all of it was stored.
LEMMA DownloadGapsNext == TypeOK /\ Recorded /\ Paged /\ DownloadGapsKnown /\ [Next]_vars => Paged' /\ DownloadGapsKnown'
<1> SUFFICES ASSUME TypeOK, Recorded, Paged, DownloadGapsKnown, [Next]_vars PROVE Paged' /\ DownloadGapsKnown'
  OBVIOUS
<1>0. Kept /\ TypeOK'
  BY KeptNext, TypeNext
<1>1. CASE Tick
  BY <1>1, <1>0, CoverageStays, SetAssumption
  DEF Paged, Tick, clockVars, storeVars, uploadVars, pageVars, cursorVars,
      workerVars, historyVars, TypeOK, Replica, Worker
<1>2. ASSUME NEW e \in Event, Fill(e) PROVE Paged' /\ DownloadGapsKnown'
  BY <1>2, <1>0, CoverageStays, SetAssumption
  DEF Paged, Fill, clockVars, storeVars, uploadVars, pageVars, cursorVars,
      workerVars, historyVars, TypeOK, Replica, Worker
<1>3. ASSUME NEW e \in Event, StoreOwn(e) PROVE Paged' /\ DownloadGapsKnown'
  <2>1. /\ UNCHANGED <<stamp, pc, next, good, remoteCursor, todo>>
        /\ log' = [log EXCEPT ![Home[e]] = @ \cup {e}]
        /\ Home[e] = Server => late' = [d \in Device |->
              IF stamp[e] <= Reach(d) THEN late[d] \cup {e} ELSE late[d]]
    BY <1>3 DEF StoreOwn, ServerGains, clockVars, pageVars, cursorVars, workerVars
  <2>2. \A d \in Device : \A f \in log'[Server] :
          stamp'[f] <= Reach(d) => f \in log[Server] \/ f \in late'[d]
    BY <2>1, EventAssumption DEF TypeOK, Replica
  <2> QED
    BY <2>1, <2>2, <1>0, CoverageStays DEF Paged
<1>4. ASSUME NEW e \in Event, ApplyOwn(e) PROVE Paged' /\ DownloadGapsKnown'
  BY <1>4, <1>0, CoverageStays, SetAssumption
  DEF Paged, ApplyOwn, Finish, clockVars, storeVars, uploadVars, pageVars, cursorVars,
      workerVars, historyVars, TypeOK, Replica, Worker
<1>5. ASSUME NEW e \in Event, OwnError(e) PROVE Paged' /\ DownloadGapsKnown'
  BY <1>5, <1>0, CoverageStays, SetAssumption
  DEF Paged, OwnError, Fault, clockVars, storeVars, uploadVars, pageVars, cursorVars,
      workerVars, historyVars, TypeOK, Replica, Worker
<1>6. ASSUME NEW d \in Device, StartSync(d) PROVE Paged' /\ DownloadGapsKnown'
  BY <1>6, <1>0, CoverageStays, SetAssumption
  DEF Paged, StartSync, clockVars, storeVars, uploadVars, pageVars, cursorVars,
      workerVars, historyVars, TypeOK, Replica, Worker
<1>7. ASSUME NEW d \in Device, Check(d) PROVE Paged' /\ DownloadGapsKnown'
  BY <1>7, <1>0, CoverageStays, SetAssumption
  DEF Paged, Check, Fault, clockVars, storeVars, uploadVars, pageVars, cursorVars,
      workerVars, historyVars, TypeOK, Replica, Worker
<1>8. ASSUME NEW d \in Device, Fetch(d) PROVE Paged' /\ DownloadGapsKnown'
  BY <1>8, <1>0, CoverageStays, SetAssumption
  DEF Paged, Fetch, StartDownload, EventsSince, clockVars, storeVars, uploadVars, pageVars, cursorVars,
      workerVars, historyVars, TypeOK, Replica, Worker
<1>9. ASSUME NEW d \in Device, Push(d) PROVE Paged' /\ DownloadGapsKnown'
  BY <1>9, <1>0, CoverageStays, SetAssumption
  DEF Paged, Push, Post, Fault, IsFirst, clockVars, storeVars, uploadVars, pageVars, cursorVars,
      workerVars, historyVars, TypeOK, Replica, Worker
<1>10. ASSUME NEW d \in Device, Retry(d) PROVE Paged' /\ DownloadGapsKnown'
  BY <1>10, <1>0, CoverageStays, SetAssumption
  DEF Paged, Retry, Post, Fault, AttemptsLeft, clockVars, storeVars, uploadVars, pageVars, cursorVars,
      workerVars, historyVars, TypeOK, Replica, Worker
<1>11. ASSUME NEW d \in Device, GiveUp(d) PROVE Paged' /\ DownloadGapsKnown'
  BY <1>11, <1>0, CoverageStays, SetAssumption
  DEF Paged, GiveUp, Exhausted, clockVars, storeVars, uploadVars, pageVars, cursorVars,
      workerVars, historyVars, TypeOK, Replica, Worker
<1>12. ASSUME NEW d \in Device, Mark(d) PROVE Paged' /\ DownloadGapsKnown'
  BY <1>12, <1>0, CoverageStays, SetAssumption
  DEF Paged, Mark, ToMark, clockVars, storeVars, uploadVars, pageVars, cursorVars,
      workerVars, historyVars, TypeOK, Replica, Worker
<1>13. ASSUME NEW d \in Device, MoveLocalCursor(d) PROVE Paged' /\ DownloadGapsKnown'
  BY <1>13, <1>0, CoverageStays, SetAssumption
  DEF Paged, MoveLocalCursor, StartDownload, LastConfirmed, clockVars, storeVars, uploadVars, pageVars, cursorVars,
      workerVars, historyVars, TypeOK, Replica, Worker
<1>14. ASSUME NEW d \in Device, UploadFails(d) PROVE Paged' /\ DownloadGapsKnown'
  BY <1>14, <1>0, CoverageStays, SetAssumption
  DEF Paged, UploadFails, Fault, clockVars, storeVars, uploadVars, pageVars, cursorVars,
      workerVars, historyVars, TypeOK, Replica, Worker
<1>15. ASSUME NEW d \in Device, Pull(d) PROVE Paged' /\ DownloadGapsKnown'
  <2>1. PICK rows \in SUBSET log[Server] : Pull(d)!2!(rows)
    BY <1>15 DEF Pull
  <2>2. /\ UNCHANGED <<stamp, log, late, remoteCursor>> /\ pc[d] = "pull"
        /\ \A c \in Device \ {d} : /\ pc'[c] = pc[c] /\ next'[c] = next[c]
                                  /\ good'[c] = good[c] /\ todo'[c] = todo[c]
    BY <1>15 DEF Pull, Leave, TypeOK, Worker, clockVars, storeVars, cursorVars, historyVars
  <2>3. next[d] = remoteCursor[d]
    BY <2>2 DEF Paged
  <2>4. \A e \in Event : Tied(e)' <=> Tied(e)
    BY <2>2 DEF Tied
  <2>5. DownloadGapsKnown'
    BY <2>2, <2>4 DEF DownloadGapsKnown, TypeOK, Replica
  <2>6. CASE pc'[d] = "idle" /\ good'[d] = 0
    BY <2>2, <2>4, <2>5, <2>6 DEF Paged, TypeOK, Replica
  <2>7. ASSUME NEW last \in rows, Pull(d)!2!(rows)!3!2!(last)
        PROVE  Paged'
    <3>1. /\ todo'[d] = rows /\ next'[d] = stamp[last] /\ good'[d] = good[d]
          /\ pc'[d] = "page"
      BY <2>1, <2>7 DEF TypeOK, Worker
    <3>2. IsFirst(rows, EventsSince(Server, next[d]), PageSize)
      BY <2>1, <2>7
    <3>3. /\ last \in Event /\ last \in log[Home[last]]
          /\ stamp[last] \in Nat /\ next[d] \in Nat /\ stamp[last] > next[d]
      BY <3>2 DEF IsFirst, EventsSince, Recorded, TypeOK, Replica, Time
    <3>4. ASSUME NEW e \in log[Server], stamp[e] <= stamp[last], e \notin rows
          PROVE  e \in log[d] \/ e \in late[d] \/ Tied(e)
      <4>1. e \in Event /\ stamp[e] \in Nat
        BY DEF TypeOK, Replica, Time
      <4>2. CASE stamp[e] <= next[d]
        BY <2>3, <4>2 DEF DownloadGapsKnown
      <4>3. CASE stamp[e] > next[d]
        <5>1. stamp[last] <= stamp[e]
          BY <3>2, <3>4, <4>3 DEF IsFirst, EventsSince
        <5>2. stamp[last] = stamp[e] /\ last # e
          BY <3>3, <3>4, <4>1, <5>1
        <5> QED
          BY <3>3, <5>2 DEF Tied
      <4> QED
        BY <3>3, <4>1, <4>2, <4>3
    <3>5. next'[d] >= remoteCursor[d]
      BY <2>3, <3>1, <3>3
    <3>6. \A e \in log[Server] : stamp[e] <= next'[d] =>
            e \in log[d] \/ e \in todo'[d] \/ e \in late[d] \/ Tied(e)
      BY <3>1, <3>4
    <3> QED
      BY <2>2, <2>4, <3>1, <3>5, <3>6 DEF Paged, TypeOK, Replica
  <2> QED
    BY <2>1, <2>5, <2>6, <2>7 DEF Leave, TypeOK
<1>16. ASSUME NEW d \in Device, PageStore(d) PROVE Paged' /\ DownloadGapsKnown'
  <2>1. PICK e \in todo[d] : PageStore(d)!2!(e)
    BY <1>16 DEF PageStore
  <2>2. UNCHANGED <<stamp, pc, next, good, remoteCursor>> /\ pc[d] = "page"
    BY <1>16 DEF PageStore, clockVars, pageVars
  <2>3. log'[Server] = log[Server]
    BY <2>1, SetAssumption DEF TypeOK, Replica
  <2>4. \A c \in Device : todo[c] \subseteq todo'[c] \cup log'[c]
    BY <2>1 DEF Exists, TypeOK, Replica, Worker
  <2> QED
    BY <2>2, <2>3, <2>4, <1>0, CoverageStays DEF Paged
<1>17. ASSUME NEW d \in Device, PageApply(d) PROVE Paged' /\ DownloadGapsKnown'
  BY <1>17, <1>0, CoverageStays, SetAssumption
  DEF Paged, PageApply, Finish, clockVars, storeVars, uploadVars, pageVars, cursorVars,
      workerVars, historyVars, TypeOK, Replica, Worker
<1>18. ASSUME NEW d \in Device, PageDone(d) PROVE Paged' /\ DownloadGapsKnown'
  <2>1. /\ UNCHANGED <<stamp, log, late, todo>>
        /\ pc[d] = "page" /\ todo[d] = {}
        /\ remoteCursor'[d] = next[d]
        /\ \A c \in Device \ {d} : /\ pc'[c] = pc[c] /\ next'[c] = next[c]
                                  /\ good'[c] = good[c]
                                  /\ remoteCursor'[c] = remoteCursor[c]
    BY <1>18 DEF PageDone, PageComplete, Leave, TypeOK, clockVars, storeVars,
                 workerVars, historyVars
  <2>2. \/ pc'[d] = "pull" /\ good'[d] = next[d] /\ next'[d] = next[d]
        \/ pc'[d] = "idle" /\ good'[d] = 0
    BY <1>18 DEF PageDone, Leave, TypeOK
  <2>3. \A e \in Event : Tied(e)' <=> Tied(e)
    BY <2>1 DEF Tied
  <2>4. Paged'
    BY <2>1, <2>2, <2>3 DEF Paged, TypeOK, Replica
  <2>5. DownloadGapsKnown'
    <3>1. \A e \in log[Server] : stamp[e] <= next[d] =>
            e \in log[d] \/ e \in late[d] \/ Tied(e)
      BY <2>1 DEF Paged
    <3> QED
      BY <2>1, <2>3, <3>1 DEF DownloadGapsKnown, TypeOK, Replica
  <2> QED
    BY <2>4, <2>5
<1>19. ASSUME NEW d \in Device, Cut(d) PROVE Paged' /\ DownloadGapsKnown'
  BY <1>19, <1>0, CoverageStays, SetAssumption
  DEF Paged, Cut, Fault, clockVars, storeVars, uploadVars, pageVars, cursorVars,
      workerVars, historyVars, TypeOK, Replica, Worker
<1>20. ASSUME NEW d \in Device, DownloadFails(d) PROVE Paged' /\ DownloadGapsKnown'
  <2>1. UNCHANGED <<stamp, log, late>>
    BY <1>20 DEF DownloadFails, storeVars, clockVars
  <2>2. /\ pc'[d] = "idle" /\ good'[d] = 0
        /\ \A c \in Device \ {d} : /\ pc'[c] = pc[c] /\ next'[c] = next[c]
                                  /\ good'[c] = good[c] /\ todo'[c] = todo[c]
    BY <1>20 DEF DownloadFails, Leave, TypeOK, Worker
  <2>3. CASE remoteCursor' = remoteCursor
    BY <2>1, <2>2, <2>3, <1>0, CoverageStays DEF Paged
  <2>4. CASE /\ pc[d] = "page" /\ todo[d] = {}
             /\ remoteCursor' = [remoteCursor EXCEPT ![d] = next[d]]
    <3>1. \A e \in Event : Tied(e)' <=> Tied(e)
      BY <2>1 DEF Tied
    <3>2. /\ remoteCursor'[d] = next[d]
          /\ \A c \in Device \ {d} : remoteCursor'[c] = remoteCursor[c]
      BY <2>4 DEF TypeOK
    <3>3. Paged'
      BY <2>1, <2>2, <2>4, <3>1, <3>2 DEF Paged, TypeOK, Replica
    <3>4. \A e \in log[Server] : stamp[e] <= next[d] =>
            e \in log[d] \/ e \in late[d] \/ Tied(e)
      BY <2>4 DEF Paged
    <3>5. DownloadGapsKnown'
      BY <2>1, <3>1, <3>2, <3>4 DEF DownloadGapsKnown, TypeOK, Replica
    <3> QED
      BY <3>3, <3>5
  <2> QED
    BY <1>20, <2>3, <2>4, RolledBack
<1>21. ASSUME NEW d \in Device, DeviceCrash(d) PROVE Paged' /\ DownloadGapsKnown'
  <2>1. UNCHANGED <<log, remoteCursor>>
    BY <1>21 DEF DeviceCrash, storeVars, cursorVars
  <2>2. /\ pc'[d] = "idle" /\ good'[d] = 0
        /\ \A c \in Device \ {d} : /\ pc'[c] = pc[c] /\ next'[c] = next[c]
                                  /\ good'[c] = good[c] /\ todo'[c] = todo[c]
    BY <1>21 DEF DeviceCrash, Leave, TypeOK, Worker
  <2> QED
    BY <2>1, <2>2, <1>0, CoverageStays DEF Paged
<1>22. ASSUME NEW s \in Slot, HandlerStore(s) PROVE Paged' /\ DownloadGapsKnown'
  <2>1. PICK e \in todo[s] : HandlerStore(s)!2!(e)
    BY <1>22 DEF HandlerStore
  <2>2. /\ UNCHANGED <<stamp, pc, next, good, remoteCursor>>
        /\ \A d \in Device : todo'[d] = todo[d]
    BY <1>22, <2>1, SetAssumption
    DEF HandlerStore, TypeOK, Replica, Worker, clockVars, pageVars, cursorVars
  <2>3. \A d \in Device : \A f \in log'[Server] :
          stamp'[f] <= Reach(d) => f \in log[Server] \/ f \in late'[d]
    <3>1. CASE UNCHANGED log
      BY <3>1
    <3>2. CASE ServerGains(e)
      BY <2>2, <3>2 DEF ServerGains, TypeOK, Replica
    <3> QED
      BY <2>1, <3>1, <3>2
  <2> QED
    BY <2>2, <2>3, <1>0, CoverageStays DEF Paged
<1>23. ASSUME NEW s \in Slot, HandlerApply(s) PROVE Paged' /\ DownloadGapsKnown'
  BY <1>23, <1>0, CoverageStays, SetAssumption
  DEF Paged, HandlerApply, Finish, clockVars, storeVars, uploadVars, pageVars, cursorVars,
      workerVars, historyVars, TypeOK, Replica, Worker
<1>24. ASSUME NEW s \in Slot, HandlerError(s) PROVE Paged' /\ DownloadGapsKnown'
  <2>1. UNCHANGED <<pc, next, good, remoteCursor, log>>
    BY <1>24 DEF HandlerError, storeVars, pageVars, cursorVars
  <2>2. \A d \in Device : todo'[d] = todo[d]
    <3>1. CASE UNCHANGED todo
      BY <3>1
    <3>2. CASE \E gone \in SUBSET todo[s] : todo' = [todo EXCEPT ![s] = @ \ gone]
      BY <3>2, SetAssumption DEF TypeOK, Replica, Worker
    <3> QED
      BY <1>24, <3>1, <3>2 DEF HandlerError
  <2> QED
    BY <2>1, <2>2, <1>0, CoverageStays DEF Paged
<1>25. ASSUME NEW s \in Slot, Reply(s) PROVE Paged' /\ DownloadGapsKnown'
  BY <1>25, <1>0, CoverageStays, SetAssumption
  DEF Paged, Reply, clockVars, storeVars, uploadVars, pageVars, cursorVars,
      workerVars, historyVars, TypeOK, Replica, Worker
<1>26. CASE ServerCrash
  BY <1>26, <1>0, CoverageStays, SetAssumption
  DEF Paged, ServerCrash, Forget, Fault, clockVars, storeVars, uploadVars, pageVars, cursorVars,
      workerVars, historyVars, TypeOK, Replica, Worker
<1>27. CASE UNCHANGED vars
  BY <1>27, <1>0, CoverageStays DEF Paged, vars, clockVars, storeVars, uploadVars, pageVars, cursorVars,
      workerVars, historyVars, TypeOK, Replica, Worker
<1> QED
  BY <1>1, <1>2, <1>3, <1>4, <1>5, <1>6, <1>7, <1>8, <1>9, <1>10, <1>11, <1>12, <1>13, <1>14, <1>15, <1>16, <1>17, <1>18, <1>19, <1>20, <1>21, <1>22, <1>23, <1>24, <1>25, <1>26, <1>27
  DEF Next, UserStep, UploadStep, DownloadStep, DeviceFault, HandlerStep

-----------------------------------------------------------------------------
(* What is behind the remote cursor *)

\* A downloaded event is applied, being applied, or torn, and what is under way
\* lies above the remote cursor.
Caught ==
    \A d \in Device :
      /\ pc[d] # "page" => cur[d] = NoEvent
      /\ pc[d] = "page" => \A e \in todo[d] : stamp[e] > remoteCursor[d]
      /\ cur[d] # NoEvent => stamp[cur[d]] > remoteCursor[d]
      /\ \A e \in log[d] : Home[e] # d => e \in applied[d] \cup torn[d] \/ cur[d] = e

\* The stamps of what is under way on a device stay, because it is stored.
LEMMA StampsStay ==
  ASSUME TypeOK, Recorded, Submitting, Kept, NEW c \in Device
  PROVE  /\ \A f \in todo[c] : stamp'[f] = stamp[f]
         /\ cur[c] # NoEvent => stamp'[cur[c]] = stamp[cur[c]]
<1>1. \A f \in todo[c] : stamp'[f] = stamp[f]
  BY DEF Kept, Recorded, TypeOK, Replica, Worker
<1>2. cur[c] # NoEvent => cur[c] \in log[c] /\ cur[c] \in Event
  BY SetAssumption DEF Submitting, Applying, TypeOK, Replica, Worker
<1> QED
  BY <1>1, <1>2 DEF Kept, Recorded, Replica

\* What a download is applying when it is given up becomes torn.
LEMMA TornStays ==
  ASSUME TypeOK, Recorded, Submitting, Kept, Caught, NEW d \in Device,
         UNCHANGED <<log, applied, remoteCursor>>, Leave(d), Tear(d),
         todo' = [todo EXCEPT ![d] = {}], cur' = [cur EXCEPT ![d] = NoEvent]
  PROVE  Caught'
<1>1. \A c \in Device \ {d} : /\ pc'[c] = pc[c] /\ todo'[c] = todo[c]
                               /\ cur'[c] = cur[c] /\ torn'[c] = torn[c]
  BY DEF Leave, Tear, TypeOK, Worker
<1>2. pc'[d] = "idle" /\ todo'[d] = {} /\ cur'[d] = NoEvent
  BY DEF Leave, TypeOK, Worker
<1>3. \A e \in log[d] : Home[e] # d => e \in applied[d] \cup torn'[d]
  BY SetAssumption DEF Caught, Tear, TypeOK, Replica, Worker
<1> QED
  BY <1>1, <1>2, <1>3, StampsStay DEF Caught

\* Caught is inductive.
LEMMA CaughtNext == TypeOK /\ Recorded /\ Submitting /\ Acknowledged /\ Paged /\ Caught /\ [Next]_vars => Caught'
<1> SUFFICES ASSUME TypeOK, Recorded, Submitting, Acknowledged, Paged, Caught, [Next]_vars PROVE Caught'
  OBVIOUS
<1>0. Kept
  BY KeptNext
<1>1. CASE Tick
  BY <1>1, SetAssumption
  DEF Caught, Tick, clockVars, storeVars, uploadVars, pageVars, cursorVars,
      workerVars, historyVars, TypeOK, Replica, Worker
<1>2. ASSUME NEW e \in Event, Fill(e) PROVE Caught'
  <2>1. UNCHANGED <<log, applied, pc, todo, cur, remoteCursor, torn>>
    BY <1>2 DEF Fill, storeVars, cursorVars, workerVars, historyVars
  <2>2. \A c \in Device : \A f \in todo[c] : stamp'[f] = stamp[f]
    BY <1>0 DEF Kept, Recorded, TypeOK, Replica, Worker
  <2>3. \A c \in Device : cur[c] # NoEvent => stamp'[cur[c]] = stamp[cur[c]]
    <3> TAKE c \in Device
    <3>1. cur[c] # NoEvent => cur[c] \in log[c] /\ cur[c] \in Event
      BY SetAssumption DEF Submitting, Applying, TypeOK, Replica, Worker
    <3> QED
      BY <1>0, <3>1 DEF Kept, Recorded, Replica
  <2> QED
    BY <2>1, <2>2, <2>3 DEF Caught
<1>3. ASSUME NEW e \in Event, StoreOwn(e) PROVE Caught'
  BY <1>3, SetAssumption, SMTT(60)
  DEF Caught, StoreOwn, ServerGains, clockVars, storeVars, uploadVars, pageVars, cursorVars,
      workerVars, historyVars, TypeOK, Replica, Worker
<1>4. ASSUME NEW e \in Event, ApplyOwn(e) PROVE Caught'
  BY <1>4, SetAssumption
  DEF Caught, ApplyOwn, Finish, clockVars, storeVars, uploadVars, pageVars, cursorVars,
      workerVars, historyVars, TypeOK, Replica, Worker
<1>5. ASSUME NEW e \in Event, OwnError(e) PROVE Caught'
  BY <1>5, SetAssumption
  DEF Caught, OwnError, Fault, clockVars, storeVars, uploadVars, pageVars, cursorVars,
      workerVars, historyVars, TypeOK, Replica, Worker
<1>6. ASSUME NEW d \in Device, StartSync(d) PROVE Caught'
  BY <1>6, SetAssumption
  DEF Caught, StartSync, clockVars, storeVars, uploadVars, pageVars, cursorVars,
      workerVars, historyVars, TypeOK, Replica, Worker
<1>7. ASSUME NEW d \in Device, Check(d) PROVE Caught'
  BY <1>7, SetAssumption, SMTT(60)
  DEF Caught, Check, Fault, clockVars, storeVars, uploadVars, pageVars, cursorVars,
      workerVars, historyVars, TypeOK, Replica, Worker
<1>8. ASSUME NEW d \in Device, Fetch(d) PROVE Caught'
  BY <1>8, SetAssumption
  DEF Caught, Fetch, StartDownload, EventsSince, clockVars, storeVars, uploadVars, pageVars, cursorVars,
      workerVars, historyVars, TypeOK, Replica, Worker
<1>9. ASSUME NEW d \in Device, Push(d) PROVE Caught'
  BY <1>9, SetAssumption
  DEF Caught, Push, Post, Fault, IsFirst, clockVars, storeVars, uploadVars, pageVars, cursorVars,
      workerVars, historyVars, TypeOK, Replica, Worker
<1>10. ASSUME NEW d \in Device, Retry(d) PROVE Caught'
  BY <1>10, SetAssumption, SMTT(60)
  DEF Caught, Retry, Post, Fault, AttemptsLeft, clockVars, storeVars, uploadVars, pageVars, cursorVars,
      workerVars, historyVars, TypeOK, Replica, Worker
<1>11. ASSUME NEW d \in Device, GiveUp(d) PROVE Caught'
  BY <1>11, SetAssumption
  DEF Caught, GiveUp, Exhausted, clockVars, storeVars, uploadVars, pageVars, cursorVars,
      workerVars, historyVars, TypeOK, Replica, Worker
<1>12. ASSUME NEW d \in Device, Mark(d) PROVE Caught'
  BY <1>12, SetAssumption, SMTT(60)
  DEF Caught, Mark, ToMark, clockVars, storeVars, uploadVars, pageVars, cursorVars,
      workerVars, historyVars, TypeOK, Replica, Worker
<1>13. ASSUME NEW d \in Device, MoveLocalCursor(d) PROVE Caught'
  BY <1>13, SetAssumption, SMTT(60)
  DEF Caught, MoveLocalCursor, StartDownload, LastConfirmed, clockVars, storeVars, uploadVars, pageVars, cursorVars,
      workerVars, historyVars, TypeOK, Replica, Worker
<1>14. ASSUME NEW d \in Device, UploadFails(d) PROVE Caught'
  BY <1>14, SetAssumption, SMTT(60)
  DEF Caught, UploadFails, Fault, clockVars, storeVars, uploadVars, pageVars, cursorVars,
      workerVars, historyVars, TypeOK, Replica, Worker
<1>15. ASSUME NEW d \in Device, Pull(d) PROVE Caught'
  <2>1. /\ UNCHANGED <<stamp, log, applied, cur, remoteCursor, torn>> /\ pc[d] = "pull"
        /\ \A c \in Device \ {d} : pc'[c] = pc[c] /\ todo'[c] = todo[c]
    BY <1>15 DEF Pull, Leave, TypeOK, Worker, clockVars, storeVars, cursorVars, historyVars
  <2>2. next[d] = remoteCursor[d] /\ cur[d] = NoEvent
    BY <2>1 DEF Paged, Caught
  <2>3. PICK rows \in SUBSET log[Server] : Pull(d)!2!(rows)
    BY <1>15 DEF Pull
  <2>4. \A e \in rows : stamp[e] > next[d]
    BY <2>3 DEF IsFirst, EventsSince
  <2>5. todo'[d] = rows
    BY <2>3 DEF TypeOK, Worker
  <2> QED
    BY <2>1, <2>2, <2>4, <2>5 DEF Caught
<1>16. ASSUME NEW d \in Device, PageStore(d) PROVE Caught'
  BY <1>16, SetAssumption
  DEF Caught, PageStore, clockVars, storeVars, uploadVars, pageVars, cursorVars,
      workerVars, historyVars, TypeOK, Replica, Worker
<1>17. ASSUME NEW d \in Device, PageApply(d) PROVE Caught'
  BY <1>17, SetAssumption
  DEF Caught, PageApply, Finish, clockVars, storeVars, uploadVars, pageVars, cursorVars,
      workerVars, historyVars, TypeOK, Replica, Worker
<1>18. ASSUME NEW d \in Device, PageDone(d) PROVE Caught'
  <2>1. /\ UNCHANGED <<stamp, log, applied, todo, cur, torn>>
        /\ todo[d] = {} /\ cur[d] = NoEvent
        /\ \A c \in Device \ {d} :
             pc'[c] = pc[c] /\ remoteCursor'[c] = remoteCursor[c]
    BY <1>18 DEF PageDone, PageComplete, Leave, TypeOK, clockVars, storeVars, workerVars, historyVars
  <2> QED
    BY <2>1 DEF Caught
<1>19. ASSUME NEW d \in Device, Cut(d) PROVE Caught'
  BY <1>19, SetAssumption
  DEF Caught, Cut, Fault, clockVars, storeVars, uploadVars, pageVars, cursorVars,
      workerVars, historyVars, TypeOK, Replica, Worker
<1>20. ASSUME NEW d \in Device, DownloadFails(d) PROVE Caught'
  <2>1. /\ UNCHANGED <<stamp, log, applied>>
        /\ Leave(d) /\ Tear(d)
        /\ todo' = [todo EXCEPT ![d] = {}] /\ cur' = [cur EXCEPT ![d] = NoEvent]
    BY <1>20 DEF DownloadFails, clockVars, storeVars
  <2>2. CASE remoteCursor' = remoteCursor
    BY <1>0, <2>1, <2>2, TornStays
  <2>3. CASE /\ PageComplete(d)
             /\ remoteCursor' = [remoteCursor EXCEPT ![d] = next[d]]
    <3>1. /\ todo[d] = {} /\ cur[d] = NoEvent
          /\ UNCHANGED <<todo, cur, torn>>
      BY <2>1, <2>3 DEF PageComplete, Tear, TypeOK, Worker, Replica
    <3>2. pc'[d] = "idle" /\ \A c \in Device \ {d} :
            pc'[c] = pc[c] /\ remoteCursor'[c] = remoteCursor[c]
      BY <2>1, <2>3 DEF Leave, TypeOK
    <3> QED
      BY <2>1, <3>1, <3>2 DEF Caught
  <2> QED
    BY <1>20, <2>2, <2>3, RolledBack
<1>21. ASSUME NEW d \in Device, DeviceCrash(d) PROVE Caught'
  <2>1. /\ UNCHANGED <<log, applied, remoteCursor>>
        /\ Leave(d) /\ Tear(d)
        /\ todo' = [todo EXCEPT ![d] = {}] /\ cur' = [cur EXCEPT ![d] = NoEvent]
    BY <1>21 DEF DeviceCrash, storeVars, cursorVars
  <2> QED
    BY <1>0, <2>1, TornStays
<1>22. ASSUME NEW s \in Slot, HandlerStore(s) PROVE Caught'
  <2>1. UNCHANGED <<stamp, applied, pc, remoteCursor, torn>>
    BY <1>22 DEF HandlerStore, clockVars, cursorVars
  <2>2. PICK e \in todo[s] : HandlerStore(s)!2!(e)
    BY <1>22 DEF HandlerStore
  <2>3. log' = log \/ log' = [log EXCEPT ![Server] = @ \cup {e}]
    BY <2>2 DEF ServerGains
  <2>4. cur' = cur \/ cur' = [cur EXCEPT ![s] = e]
    BY <2>2
  <2>5. \A c \in Device : log'[c] = log[c] /\ todo'[c] = todo[c] /\ cur'[c] = cur[c]
    BY <2>2, <2>3, <2>4, SetAssumption DEF TypeOK, Replica, Worker
  <2> QED
    BY <2>1, <2>5 DEF Caught
<1>23. ASSUME NEW s \in Slot, HandlerApply(s) PROVE Caught'
  BY <1>23, SetAssumption
  DEF Caught, HandlerApply, Finish, clockVars, storeVars, uploadVars, pageVars, cursorVars,
      workerVars, historyVars, TypeOK, Replica, Worker
<1>24. ASSUME NEW s \in Slot, HandlerError(s) PROVE Caught'
  BY <1>24, SetAssumption
  DEF Caught, HandlerError, Fault, clockVars, storeVars, uploadVars, pageVars, cursorVars,
      workerVars, historyVars, TypeOK, Replica, Worker
<1>25. ASSUME NEW s \in Slot, Reply(s) PROVE Caught'
  <2>1. UNCHANGED <<stamp, log, applied, todo, cur, remoteCursor, torn>>
    BY <1>25 DEF Reply, clockVars, storeVars, cursorVars, workerVars, historyVars
  <2>2. \A c \in Device : pc'[c] = pc[c] \/ (pc[c] = "await" /\ pc'[c] # "page")
    <3>1. CASE UNCHANGED pc
      BY <3>1
    <3>2. ASSUME NEW d \in Device, Reply(s)!3!2!(d)
          PROVE  <2>2
      BY <3>2, SetAssumption DEF Acknowledged, TypeOK
    <3> QED
      BY <1>25, <3>1, <3>2 DEF Reply
  <2> QED
    BY <2>1, <2>2 DEF Caught
<1>26. CASE ServerCrash
  <2>1. /\ UNCHANGED <<log, applied, pc, remoteCursor, torn>>
        /\ \A c \in Device : todo'[c] = todo[c] /\ cur'[c] = cur[c]
    BY <1>26, SetAssumption
    DEF ServerCrash, Forget, storeVars, cursorVars, historyVars, Replica, Worker
  <2> QED
    BY <1>0, <2>1, StampsStay DEF Caught
<1>27. CASE UNCHANGED vars
  BY <1>27 DEF Caught, vars, clockVars, storeVars, uploadVars, pageVars, cursorVars,
      workerVars, historyVars, TypeOK, Replica, Worker
<1> QED
  BY <1>1, <1>2, <1>3, <1>4, <1>5, <1>6, <1>7, <1>8, <1>9, <1>10, <1>11, <1>12, <1>13, <1>14, <1>15, <1>16, <1>17, <1>18, <1>19, <1>20, <1>21, <1>22, <1>23, <1>24, <1>25, <1>26, <1>27
  DEF Next, UserStep, UploadStep, DownloadStep, DeviceFault, HandlerStep

-----------------------------------------------------------------------------
(* Theorems *)

\* The layers about the cursors hold in every reachable state.
THEOREM CursorLayers ==
  Spec => [](Past /\ Ordered /\ Listed /\ UploadGapsKnown /\ Paged /\ DownloadGapsKnown)
<1> DEFINE Lower == TypeOK /\ Recorded /\ Acknowledged
           Upper == Past /\ Ordered /\ Listed /\ UploadGapsKnown /\ Paged /\ DownloadGapsKnown
<1>1. Init => Past /\ Ordered /\ Listed
  BY DEF Init, Past, Ordered, Listed, Uploading, Replica
<1>2. Init => UploadGapsKnown /\ Paged /\ DownloadGapsKnown
  BY DEF Init, UploadGapsKnown, Paged, DownloadGapsKnown, Replica
<1>3. Lower /\ Upper /\ [Next]_vars => Upper'
  BY PastNext, OrderedNext, ListedNext, UploadGapsNext, DownloadGapsNext
<1>4. Spec => []Lower
  BY Layers, PTL
<1> QED
  BY <1>1, <1>2, <1>3, <1>4, PTL DEF Spec

\* An event left behind the local cursor was stored too late for the list, is
\* tied with another one, or was dropped by a handler.
THEOREM UploadGaps == Spec => []UploadGapsKnown
  BY CursorLayers, PTL

\* An event left behind the remote cursor reached the server too late, or is
\* tied with another one.
THEOREM DownloadGaps == Spec => []DownloadGapsKnown
  BY CursorLayers, PTL

\* Neither the catch block of the upload nor the rollback of the download ever
\* takes a cursor back.
THEOREM CursorsOnlyAdvance == Spec => CursorsAdvance
<1> DEFINE Inv == TypeOK /\ Past /\ Ordered /\ Paged
           Step == \A d \in Device : /\ localCursor'[d] >= localCursor[d]
                                    /\ remoteCursor'[d] >= remoteCursor[d]
<1>1. Inv /\ [Next]_vars => Step
  <2> SUFFICES ASSUME Inv, [Next]_vars PROVE Step
    OBVIOUS
  <2>0. \A d \in Device : localCursor[d] \in Nat /\ remoteCursor[d] \in Nat
    BY DEF TypeOK, Time
  <2>1. CASE UNCHANGED <<localCursor, remoteCursor>>
    BY <2>0, <2>1
  <2>2. ASSUME NEW d \in Device, MoveLocalCursor(d) PROVE Step
    <3>1. UNCHANGED remoteCursor
      BY <2>2 DEF MoveLocalCursor
    <3>2. CASE localCursor' = [localCursor EXCEPT ![d] = clock]
      BY <2>0, <3>1, <3>2 DEF Past, TypeOK
    <3>3. CASE \E t \in LastConfirmed(d) : localCursor' = [localCursor EXCEPT ![d] = t]
      <4>1. \A t \in LastConfirmed(d) : t \in Nat /\ t > localCursor[d]
        BY DEF LastConfirmed, Ordered, TypeOK, Time
      <4> QED
        BY <2>0, <3>1, <3>3, <4>1 DEF TypeOK
    <3> QED
      BY <2>2, <3>2, <3>3 DEF MoveLocalCursor
  <2>3. ASSUME NEW d \in Device, PageDone(d) PROVE Step
    <3>1. /\ remoteCursor' = [remoteCursor EXCEPT ![d] = next[d]]
          /\ next[d] >= remoteCursor[d] /\ UNCHANGED localCursor
      BY <2>3 DEF PageDone, Paged
    <3> QED
      BY <2>0, <3>1 DEF TypeOK
  <2>4. ASSUME NEW d \in Device, DownloadFails(d) PROVE Step
    <3>1. UNCHANGED localCursor
      BY <2>4 DEF DownloadFails
    <3>2. CASE remoteCursor' = remoteCursor
      BY <2>0, <3>1, <3>2
    <3>3. CASE pc[d] = "page" /\ remoteCursor' = [remoteCursor EXCEPT ![d] = next[d]]
      <4>1. next[d] >= remoteCursor[d]
        BY <3>3 DEF Paged
      <4> QED
        BY <2>0, <3>1, <3>3, <4>1 DEF TypeOK
    <3> QED
      BY <2>4, <3>2, <3>3, RolledBack
  <2> QED
    BY <2>1, <2>2, <2>3, <2>4, SMTT(60)
    DEF Next, UserStep, UploadStep, DownloadStep, DeviceFault, HandlerStep, vars,
        cursorVars, Tick, Fill, StoreOwn, ApplyOwn, OwnError, StartSync, Check,
        Fetch, Push, Retry, GiveUp, Exhausted, Mark, UploadFails, Pull, PageStore, PageApply,
        Cut, DeviceCrash, HandlerStore, HandlerApply, HandlerError, Reply, ServerCrash
<1>2. Spec => []Inv
  BY Layers, CursorLayers, PTL
<1> QED
  BY <1>1, <1>2, PTL DEF Spec, CursorsAdvance

\* The remote cursor stands for applied events, but for those that were cut off
\* between being stored and being applied.
THEOREM CursorMeansApplied == Spec => []AppliedGapsKnown
<1> DEFINE Lower == TypeOK /\ Recorded /\ Submitting /\ Acknowledged /\ Paged
<1>1. Init => Caught
  BY DEF Init, Caught, Replica, Worker
<1>2. Lower /\ Caught /\ [Next]_vars => Caught'
  BY CaughtNext
<1>3. TypeOK /\ Caught => AppliedGapsKnown
  <2> SUFFICES ASSUME TypeOK, Caught, NEW d \in Device, NEW e \in log[d],
                      Home[e] # d, stamp[e] <= remoteCursor[d]
               PROVE  e \in applied[d] \/ e \in torn[d]
    BY DEF AppliedGapsKnown
  <2>1. e \in Event /\ stamp[e] \in Nat /\ remoteCursor[d] \in Nat
    BY DEF TypeOK, Replica, Time
  <2>2. cur[d] # e
    BY <2>1, SetAssumption DEF Caught
  <2> QED
    BY <2>2 DEF Caught
<1>4. Spec => []Lower
  BY Layers, CursorLayers, PTL
<1> QED
  BY <1>1, <1>2, <1>3, <1>4, PTL DEF Spec
=============================================================================

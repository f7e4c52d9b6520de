------------------------- MODULE ScanDispatchProofs -------------------------
(***************************************************************************)
(* Theorems about ScanDispatch for every set of nodes and requests, every  *)
(* prefetch and every number of faults.                                    *)
(***************************************************************************)
EXTENDS ScanDispatch, FiniteSetTheorems, TLAPS

USE DispatchAssumption

\* What a node is working on is a message, with a request of the right type.
LEMMA CurIsMessage ==
  ASSUME TypeOK, NEW n \in Nodes, pc[n] \notin {"down", "deaf", "idle"}
  PROVE  /\ cur[n] \in Messages
         /\ Request(n) \in Requests
         /\ cur[n] # None
<1>1. cur[n] # None /\ cur[n] \in Messages
  BY DEF TypeOK
<1>2. QED
  BY <1>1 DEF Messages, Request

\* Messages are pairs of a request and an attempt, and None is none of them.
LEMMA MessageFacts ==
  /\ None \notin Messages
  /\ \A r \in Requests, k \in Attempts : <<r, k>> \in Messages
  /\ 1 \in Attempts /\ Attempts \subseteq 1..2
<1>1. Attempts \subseteq 1..2 /\ 1 \in Attempts
  BY DEF Attempts
<1>2. None \notin Messages
  BY <1>1 DEF Messages
<1>3. QED
  BY <1>1, <1>2 DEF Messages

\* Taking messages back keeps every message at a place.
LEMMA RequeueType ==
  ASSUME TypeOK, NEW S, Requeue(S)
  PROVE  where' \in [Messages -> Places \cup Subs]
BY DEF TypeOK, Requeue, Places

\* The death of a process keeps the types.
LEMMA ExitType ==
  ASSUME TypeOK, NEW n \in Nodes, Exit(n)
  PROVE  /\ where' \in [Messages -> Places \cup Subs]
         /\ inbox' \in [Nodes -> SUBSET Messages]
         /\ pc' \in [Nodes -> Phases]
         /\ cur' \in [Nodes -> Messages \cup {None}]
         /\ \A i \in Nodes : cur'[i] = None <=> pc'[i] \in {"down", "deaf", "idle"}
         /\ photo' \in [Requests -> Nodes \cup {None}]
<1>1. where' \in [Messages -> Places \cup Subs]
  BY RequeueType DEF Exit
<1>2. QED
  BY <1>1 DEF Exit, Goto, TypeOK, Phases

\* TypeOK is invariant.
THEOREM TypeCorrect == Spec => []TypeOK
<1> USE DEF vars, brokerVars, nodeVars, tableVars, histVars
<1>1. Init => TypeOK
  BY MessageFacts DEF Init, TypeOK, Places, Phases
<1>2. ASSUME TypeOK, [Next]_vars PROVE TypeOK'
  <2>1. ASSUME NEW r \in Requests, NEW k \in Attempts, PutScan(r, k) PROVE TypeOK'
    BY <1>2, <2>1, MessageFacts DEF PutScan, TypeOK, Places
  <2>2. ASSUME NEW r \in Requests, RequestModulesList(r) PROVE TypeOK'
    BY <1>2, <2>2, MessageFacts DEF RequestModulesList, TypeOK, Places
  <2>3. ASSUME NEW m \in Messages, NEW c \in Subs, Dispatch(m, c) PROVE TypeOK'
    BY <1>2, <2>3 DEF Dispatch, TypeOK, Subs
  <2>4. ASSUME NEW m \in Messages, Expire(m) PROVE TypeOK'
    BY <1>2, <2>4 DEF Expire, Fault, TypeOK, Places
  <2>5. ASSUME BrokerRestart PROVE TypeOK'
    BY <1>2, <2>5 DEF BrokerRestart, Fault, TypeOK, Places
  <2>6. ASSUME NEW n \in Nodes, LoseConnection(n) PROVE TypeOK'
    <3>1. where' \in [Messages -> Places \cup Subs]
      BY <1>2, <2>6, RequeueType DEF LoseConnection
    <3>2. QED
      BY <1>2, <2>6, <3>1 DEF LoseConnection, Fault, TypeOK
  <2>7. ASSUME NEW r \in Requests, CollectPhotoConnection(r) PROVE TypeOK'
    <3>1. where' \in [Messages -> Places \cup Subs]
      BY <1>2, <2>7, RequeueType DEF CollectPhotoConnection
    <3>2. QED
      BY <1>2, <2>7, <3>1 DEF CollectPhotoConnection, TypeOK
  <2>8. ASSUME NEW n \in Nodes, RunServer(n) PROVE TypeOK'
    <3>1. CASE StartUp(n)
      BY <1>2, <3>1 DEF StartUp, Goto, Fault, TypeOK, Phases
    <3>2. ASSUME NEW m \in Messages, Receive(n, m) PROVE TypeOK'
      BY <1>2, <3>2, MessageFacts DEF Receive, Goto, TypeOK, Phases
    <3>3. CASE Ack(n)
      BY <1>2, <3>3 DEF Ack, Goto, TypeOK, Phases, Places
    <3>4. CASE SendModulesList(n)
      BY <1>2, <3>4, CurIsMessage DEF SendModulesList, BackToLoop, Goto, TypeOK, Phases
    <3>5. CASE CheckRunExists(n)
      BY <1>2, <3>5 DEF CheckRunExists, BackToLoop, Goto, Fault, TypeOK, Phases
    <3>6. CASE PutRun(n)
      <4>1. CASE KindOf[Request(n)] = "badinfo"
        BY <1>2, <3>6, <4>1, ExitType, CurIsMessage DEF PutRun, TypeOK
      <4>2. CASE KindOf[Request(n)] # "badinfo"
        BY <1>2, <3>6, <4>2, CurIsMessage
           DEF PutRun, BackToLoop, Goto, Fault, TypeOK, Phases, Working
      <4>3. QED
        BY <4>1, <4>2
    <3>7. CASE RunScan(n)
      BY <1>2, <3>7, CurIsMessage
         DEF RunScan, BackToLoop, Goto, TypeOK, Phases, Working
    <3>8. CASE ExecuteModules(n)
      BY <1>2, <3>8 DEF ExecuteModules, Goto, TypeOK, Phases, Working
    <3>9. CASE PhotoConnect(n)
      BY <1>2, <3>9 DEF PhotoConnect, Goto, Fault, TypeOK, Phases, Working
    <3>10. CASE PhotoPass(n)
      <4>1. where' \in [Messages -> Places \cup Subs]
        BY <1>2, <3>10, RequeueType DEF PhotoPass
      <4>2. Request(n) \in Requests
        BY <1>2, <3>10, CurIsMessage DEF PhotoPass
      <4>3. QED
        BY <1>2, <3>10, <4>1, <4>2 DEF PhotoPass, Goto, TypeOK, Phases, Working
    <3>11. CASE PhotoFail(n)
      BY <1>2, <3>11 DEF PhotoFail, Goto, TypeOK, Phases, Working
    <3>12. CASE UpdateRunEndTime(n)
      BY <1>2, <3>12 DEF UpdateRunEndTime, BackToLoop, Goto, Fault, TypeOK, Phases
    <3>13. QED
      BY <2>8, <3>1, <3>2, <3>3, <3>4, <3>5, <3>6, <3>7, <3>8, <3>9, <3>10, <3>11, <3>12
         DEF RunServer
  <2>9. ASSUME NEW n \in Nodes, Crash(n) PROVE TypeOK'
    BY <1>2, <2>9, ExitType DEF Crash, Fault, TypeOK
  <2>10. CASE UNCHANGED vars
    BY <1>2, <2>10 DEF TypeOK
  <2>11. QED
    BY <1>2, <2>1, <2>2, <2>3, <2>4, <2>5, <2>6, <2>7, <2>8, <2>9, <2>10
       DEF Next, RestNext, BrokerNext
<1>3. QED
  BY <1>1, <1>2, PTL DEF Spec

-----------------------------------------------------------------------------
(* Who runs what.                                                          *)

\* A step that leaves the rows and the count alone, and where a node that works
\* goes on working on the same run or stops, keeps RunInv.
LEMMA RunInvFrame ==
  ASSUME TypeOK, RunInv, db' = db, starts' = starts,
         \A n \in Nodes : \/ pc'[n] \notin Working
                          \/ cur'[n] = cur[n] /\ pc'[n] = pc[n]
                          \/ /\ cur'[n] = cur[n]
                             /\ pc[n] \in Executing /\ pc'[n] \in Executing
  PROVE  RunInv'
<1> DEFINE Stays(n) == cur'[n] = cur[n] /\ pc[n] \in Working
<1>1. ASSUME NEW n \in Nodes, pc'[n] \in Working
      PROVE  /\ Stays(n) /\ Request(n)' = Request(n)
             /\ pc'[n] = "start" => pc[n] = "start"
             /\ pc'[n] \in Executing => pc[n] \in Executing
  BY <1>1 DEF Request, Executing, Working
<1>2. RowOfWorker'
  BY <1>1 DEF RunInv, RowOfWorker
<1>3. OneWorkerPerRun'
  BY <1>1 DEF RunInv, OneWorkerPerRun, WorkingOn
<1>4. StartsMatchRow'
  BY <1>1 DEF RunInv, StartsMatchRow, Executing, Working
<1>5. QED
  BY <1>2, <1>3, <1>4 DEF RunInv

\* RunInv is preserved: only put_run makes a worker, and it needs a free id.
LEMMA RunInvStep ==
  ASSUME TypeOK, RunInv, [Next]_vars
  PROVE  RunInv'
<1> USE DEF vars, brokerVars, nodeVars, tableVars, histVars
<1>1. CASE UNCHANGED vars
  BY <1>1, RunInvFrame
<1>2. CASE RestNext
  BY <1>2, RunInvFrame DEF RestNext, PutScan, RequestModulesList
<1>3. CASE BrokerNext
  BY <1>3, RunInvFrame DEF BrokerNext, Expire, Dispatch, CollectPhotoConnection,
                           LoseConnection, BrokerRestart
<1>4. ASSUME NEW n \in Nodes, Crash(n) PROVE RunInv'
  BY <1>4, RunInvFrame DEF Crash, Exit, Goto, TypeOK, Working
<1>5. ASSUME NEW n \in Nodes, RunServer(n) PROVE RunInv'
  <2> USE <1>5 DEF Goto, BackToLoop
  <2>1. CASE \/ StartUp(n) \/ (\E m \in Messages : Receive(n, m)) \/ Ack(n)
             \/ SendModulesList(n) \/ CheckRunExists(n)
    BY <2>1, RunInvFrame
       DEF StartUp, Receive, Ack, SendModulesList, CheckRunExists, TypeOK, Working
  <2>2. CASE PutRun(n)
    <3> DEFINE r == Request(n)
    <3>1. r \in Requests
      BY <2>2, CurIsMessage DEF PutRun
    <3>2. CASE UNCHANGED db
      <4>1. pc' = [pc EXCEPT ![n] = "down"] \/ pc' = [pc EXCEPT ![n] = "idle"]
        BY <2>2, <3>1, <3>2 DEF PutRun, Exit, TypeOK
      <4>2. \A i \in Nodes \ {n} : cur'[i] = cur[i] /\ pc'[i] = pc[i]
        BY <2>2 DEF PutRun, Exit, TypeOK
      <4>3. QED
        BY <2>2, <3>2, <4>1, <4>2, RunInvFrame DEF PutRun, TypeOK, Working
    <3>3. CASE db[r] = "none" /\ db' = [db EXCEPT ![r] = "row"] /\ UNCHANGED cur
               /\ pc' = [pc EXCEPT ![n] = "start"]
      <4>1. starts' = starts /\ starts[r] = 0
        BY <2>2, <3>1, <3>3 DEF PutRun, RunInv, StartsMatchRow
      <4>2. \A i \in Nodes : Request(i)' = Request(i)
        BY <3>3 DEF Request
      <4>3. \A i \in Nodes \ {n} : pc[i] \in Working => Request(i) # r
        BY <3>3 DEF RunInv, RowOfWorker
      <4>4. \A i \in Nodes : pc'[i] = IF i = n THEN "start" ELSE pc[i]
        BY <3>3 DEF TypeOK
      <4>5. \A q \in Requests : db'[q] = IF q = r THEN "row" ELSE db[q]
        BY <3>3 DEF TypeOK
      <4>6. \A i \in Nodes : pc[i] \in Working => Request(i) \in Requests
        BY CurIsMessage DEF Working
      <4>7. RowOfWorker'
        BY <3>1, <4>2, <4>4, <4>5, <4>6 DEF RunInv, RowOfWorker
      <4>8. OneWorkerPerRun'
        BY <4>2, <4>3, <4>4 DEF RunInv, OneWorkerPerRun, WorkingOn
      <4>9. StartsMatchRow'
        BY <3>1, <4>1, <4>2, <4>4, <4>5 DEF RunInv, StartsMatchRow, Executing
      <4>10. QED
        BY <4>7, <4>8, <4>9 DEF RunInv
    <3>4. QED
      BY <2>2, <3>2, <3>3 DEF PutRun
  <2>3. CASE RunScan(n)
    <3> DEFINE r == Request(n)
    <3>1. r \in Requests /\ pc[n] = "start" /\ db[r] = "row" /\ starts[r] = 0
      BY <2>3, CurIsMessage DEF RunScan, RunInv, RowOfWorker, StartsMatchRow, Working
    <3>2. CASE UNCHANGED starts
      BY <2>3, <3>1, <3>2, RunInvFrame DEF RunScan, TypeOK, Working
    <3>3. CASE /\ starts' = [starts EXCEPT ![r] = @ + 1] /\ UNCHANGED cur
               /\ pc' \in {[pc EXCEPT ![n] = "connect"], [pc EXCEPT ![n] = "scan"]}
      <4>1. db' = db /\ starts'[r] = 1 /\ \A q \in Requests \ {r} : starts'[q] = starts[q]
        BY <2>3, <3>1, <3>3 DEF RunScan, TypeOK
      <4>2. \A i \in Nodes : Request(i)' = Request(i)
        BY <3>3 DEF Request
      <4>3. pc'[n] \in Executing /\ \A i \in Nodes \ {n} : pc'[i] = pc[i]
        BY <3>3 DEF TypeOK, Executing, Working
      <4>4. \A i \in Nodes : /\ pc'[i] \in Working <=> pc[i] \in Working
                             /\ pc[i] \in Working => Request(i) \in Requests
        BY <3>1, <4>3, CurIsMessage DEF Executing, Working
      <4>5. RowOfWorker' /\ OneWorkerPerRun'
        BY <4>1, <4>2, <4>4 DEF RunInv, RowOfWorker, OneWorkerPerRun, WorkingOn
      <4>6. \A i \in Nodes \ {n} : pc[i] \in Working => Request(i) # r
        BY <3>1 DEF RunInv, OneWorkerPerRun, WorkingOn, Working
      <4>7. StartsMatchRow'
        BY <3>1, <4>1, <4>2, <4>3, <4>4, <4>6 DEF RunInv, StartsMatchRow, Executing, Working
      <4>8. QED
        BY <4>5, <4>7 DEF RunInv
    <3>4. QED
      BY <2>3, <3>2, <3>3 DEF RunScan
  <2>4. CASE ExecuteModules(n) \/ PhotoConnect(n) \/ PhotoPass(n) \/ PhotoFail(n)
    BY <2>4, RunInvFrame
       DEF ExecuteModules, PhotoConnect, PhotoPass, PhotoFail, TypeOK, Executing, Working
  <2>5. CASE UpdateRunEndTime(n)
    <3> DEFINE r == Request(n)
    <3>1. /\ r \in Requests /\ pc[n] = "end" /\ starts[r] = 1
          /\ \A i \in Nodes \ {n} : pc[i] \in Working => Request(i) # r
      BY <2>5, CurIsMessage DEF UpdateRunEndTime, RunInv, StartsMatchRow,
                                OneWorkerPerRun, WorkingOn, Executing, Working
    <3>2. CASE UNCHANGED db
      BY <2>5, <3>2, RunInvFrame DEF UpdateRunEndTime, TypeOK, Working
    <3>3. CASE db' = [db EXCEPT ![r] = "ended"]
      <4>1. starts' = starts /\ pc'[n] = "idle"
            /\ \A i \in Nodes \ {n} : pc'[i] = pc[i] /\ Request(i)' = Request(i)
        BY <2>5 DEF UpdateRunEndTime, TypeOK, Request
      <4>2. \A q \in Requests : db'[q] = IF q = r THEN "ended" ELSE db[q]
        BY <3>3 DEF TypeOK
      <4>3. \A i \in Nodes : pc[i] \in Working => Request(i) \in Requests
        BY CurIsMessage DEF Working
      <4>4. RowOfWorker' /\ OneWorkerPerRun'
        BY <3>1, <4>1, <4>2, <4>3 DEF RunInv, RowOfWorker, OneWorkerPerRun, WorkingOn, Working
      <4>5. StartsMatchRow'
        BY <3>1, <4>1, <4>2, <4>3 DEF RunInv, StartsMatchRow, Executing, Working
      <4>6. QED
        BY <4>4, <4>5 DEF RunInv
    <3>4. QED
      BY <2>5, <3>2, <3>3 DEF UpdateRunEndTime
  <2>6. QED
    BY <2>1, <2>2, <2>3, <2>4, <2>5 DEF RunServer
<1>6. QED
  BY <1>1, <1>2, <1>3, <1>4, <1>5 DEF Next

LEMMA RunInvCorrect == Spec => []RunInv
<1>1. Init => RunInv
  BY DEF Init, RunInv, RowOfWorker, OneWorkerPerRun, StartsMatchRow, WorkingOn,
         Executing, Working
<1>2. QED
  BY <1>1, RunInvStep, TypeCorrect, PTL DEF Spec

\* A request is executed at most once by all nodes together.
THEOREM AtMostOnce == Spec => []ScannedAtMostOnce
<1>1. RunInv => ScannedAtMostOnce
  BY DEF RunInv, StartsMatchRow, ScannedAtMostOnce
<1>2. QED
  BY <1>1, RunInvCorrect, PTL

\* The row of a run belongs to one node.
THEOREM OneWorker == Spec => []OneWorkerPerRun
<1>1. RunInv => OneWorkerPerRun
  BY DEF RunInv
<1>2. QED
  BY <1>1, RunInvCorrect, PTL

\* A closed row was scanned, and nobody works on it.
THEOREM ClosedAfterScan == Spec => []EndedMeansScanned
<1>1. RunInv => EndedMeansScanned
  BY DEF RunInv, RowOfWorker, StartsMatchRow, EndedMeansScanned, WorkingOn
<1>2. QED
  BY <1>1, RunInvCorrect, PTL

-----------------------------------------------------------------------------
(* Who holds which message.                                                *)

\* A published message is never unpublished, and faults are never undone.
LEMMA OneWay ==
  ASSUME TypeOK, [Next]_vars
  PROVE  /\ \A m \in Messages : where[m] # "unsent" => where'[m] # "unsent"
         /\ ~RestNext => \A m \in Messages : where'[m] # "unsent" => where[m] # "unsent"
         /\ faults' = 0 => faults = 0
<1> USE DEF vars, brokerVars, nodeVars, tableVars, histVars
<1> DEFINE Goal == /\ \A m \in Messages : where[m] # "unsent" <=> where'[m] # "unsent"
                   /\ faults' = 0 => faults = 0
<1>0. "unsent" \notin Subs
  BY DEF Subs, Places
<1>1. CASE UNCHANGED vars
  BY <1>1
<1>2. CASE RestNext
  <2>1. faults' = faults
    BY <1>2 DEF RestNext, PutScan, RequestModulesList
  <2>2. where' = where \/ \E r \in Requests, k \in Attempts :
                            where' = [where EXCEPT ![<<r, k>>] = "queued"]
    BY <1>2, MessageFacts DEF RestNext, PutScan, RequestModulesList
  <2>3. QED
    BY <1>2, <2>1, <2>2 DEF TypeOK
<1>3. CASE BrokerNext
  <2>1. ASSUME NEW m \in Messages, Expire(m) \/ \E c \in Subs : Dispatch(m, c) PROVE Goal
    BY <1>0, <2>1 DEF Expire, Dispatch, Fault, TypeOK
  <2>2. ASSUME NEW S \in SUBSET Subs, Requeue(S), UNCHANGED faults \/ Fault PROVE Goal
    BY <1>0, <2>2 DEF Requeue, Fault, TypeOK
  <2>3. CASE BrokerRestart
    BY <2>3 DEF BrokerRestart, Fault, TypeOK
  <2>4. QED
    BY <1>3, <2>1, <2>2, <2>3
       DEF BrokerNext, CollectPhotoConnection, LoseConnection, Subs
<1>4. ASSUME NEW n \in Nodes, Crash(n) \/ RunServer(n) PROVE Goal
  <2>1. /\ faults' = faults \/ faults' = faults + 1
        /\ \/ where' = where
           \/ \E S \in SUBSET Subs : Requeue(S)
           \/ \E m \in Messages : where[m] = n /\ where' = [where EXCEPT ![m] = "acked"]
    <3>1. \A r \in Requests : {r} \in SUBSET Subs
      BY DEF Subs
    <3>2. {n} \cup PhotosOf(n) \in SUBSET Subs
      BY DEF Subs, PhotosOf
    <3>3. CASE Crash(n)
      BY <3>2, <3>3 DEF Crash, Fault, Exit
    <3>4. CASE PutRun(n)
      BY <3>2, <3>4 DEF PutRun, Fault, Exit
    <3>5. CASE Ack(n)
      BY <3>5, CurIsMessage DEF Ack
    <3>6. CASE PhotoPass(n)
      BY <3>1, <3>6, CurIsMessage DEF PhotoPass
    <3>7. CASE ~(Crash(n) \/ PutRun(n) \/ Ack(n) \/ PhotoPass(n))
      BY <1>4, <3>7 DEF RunServer, StartUp, Receive, SendModulesList, CheckRunExists, RunScan,
           ExecuteModules, PhotoConnect, PhotoFail, UpdateRunEndTime, Fault
    <3>8. QED
      BY <3>3, <3>4, <3>5, <3>6, <3>7
  <2>2. faults' = 0 => faults = 0
    BY <2>1 DEF TypeOK
  <2>3. QED
    BY <1>0, <2>1, <2>2 DEF Requeue, TypeOK, Subs
<1>5. QED
  BY <1>1, <1>2, <1>3, <1>4 DEF Next

\* HeldWasPublished is preserved.
LEMMA HeldStep ==
  ASSUME TypeOK, HeldWasPublished, [Next]_vars
  PROVE  HeldWasPublished'
<1> USE DEF vars, brokerVars, nodeVars, tableVars, histVars
<1>1. ASSUME \A n \in Nodes :
               /\ cur'[n] # None => cur[n] # None /\ cur'[n] = cur[n]
               /\ inbox'[n] \subseteq inbox[n]
               /\ pc'[n] \in {"check", "insert"} \cup Working
                    => pc[n] \in {"check", "insert"} \cup Working \/ Request(n) \in Scans
               /\ pc'[n] \in {"check", "insert"} \cup Working => cur'[n] = cur[n]
      PROVE  HeldWasPublished'
  BY <1>1, OneWay DEF HeldWasPublished, Request, TypeOK
<1>2. CASE UNCHANGED vars
  BY <1>1, <1>2
<1>3. CASE RestNext
  BY <1>1, <1>3 DEF RestNext, PutScan, RequestModulesList
<1>4. ASSUME NEW m \in Messages, NEW c \in Subs, Dispatch(m, c) PROVE HeldWasPublished'
  <2>1. "unsent" \notin Subs
    BY DEF Subs, Places
  <2>2. where'[m] # "unsent"
    BY <1>4, <2>1 DEF Dispatch, TypeOK
  <2>3. \A n \in Nodes : inbox'[n] \subseteq inbox[n] \cup {m}
    BY <1>4 DEF Dispatch, TypeOK
  <2>4. cur' = cur /\ pc' = pc
    BY <1>4 DEF Dispatch
  <2>5. QED
    BY <2>2, <2>3, <2>4, OneWay DEF HeldWasPublished, Request, TypeOK
<1>5. CASE BrokerNext /\ ~ \E m \in Messages, c \in Subs : Dispatch(m, c)
  <2>1. /\ cur' = cur /\ pc' = pc
        /\ \A n \in Nodes : inbox'[n] \subseteq inbox[n]
    <3>1. CASE BrokerRestart
      BY <3>1 DEF BrokerRestart, TypeOK
    <3>2. CASE ~BrokerRestart
      BY <1>5, <3>2 DEF BrokerNext, Expire, CollectPhotoConnection, LoseConnection, TypeOK
    <3>3. QED
      BY <3>1, <3>2
  <2>2. QED
    BY <1>1, <2>1
<1>6. ASSUME NEW n \in Nodes, Crash(n) PROVE HeldWasPublished'
  BY <1>1, <1>6 DEF Crash, Exit, Goto, TypeOK, Working
<1>7. ASSUME NEW n \in Nodes, RunServer(n) PROVE HeldWasPublished'
  <2> USE <1>7 DEF Goto, BackToLoop
  <2>1. ASSUME NEW m \in Messages, Receive(n, m) PROVE HeldWasPublished'
    BY <2>1, OneWay DEF Receive, HeldWasPublished, Request, TypeOK, Working
  <2>2. CASE Ack(n)
    BY <1>1, <2>2, CurIsMessage DEF Ack, TypeOK, Scans, Working
  <2>3. CASE StartUp(n) \/ SendModulesList(n) \/ CheckRunExists(n)
    BY <1>1, <2>3 DEF StartUp, SendModulesList, CheckRunExists, TypeOK, Working
  <2>4. CASE PutRun(n)
    BY <1>1, <2>4 DEF PutRun, Exit, TypeOK, Working
  <2>5. CASE RunScan(n) \/ ExecuteModules(n) \/ PhotoConnect(n)
    BY <1>1, <2>5 DEF RunScan, ExecuteModules, PhotoConnect, TypeOK, Working
  <2>6. CASE PhotoPass(n) \/ PhotoFail(n) \/ UpdateRunEndTime(n)
    BY <1>1, <2>6 DEF PhotoPass, PhotoFail, UpdateRunEndTime, TypeOK, Working
  <2>7. QED
    BY <2>1, <2>2, <2>3, <2>4, <2>5, <2>6 DEF RunServer
<1>8. QED
  BY <1>2, <1>3, <1>4, <1>5, <1>6, <1>7 DEF Next, BrokerNext

\* What the REST server publishes is the message of a fresh attempt.
LEMMA QueuesOneUnsent ==
  ASSUME TypeOK, AttemptIsFresh, NEW r \in Requests, NEW k \in Attempts,
         PutScan(r, k) \/ RequestModulesList(r)
  PROVE  /\ \A m \in Messages : where[m] # "unsent" => where'[m] = where[m]
         /\ \A m \in Messages : where'[m] \in {where[m], "queued"}
<1>1. CASE PutScan(r, k)
  <2>1. where[<<r, k>>] = "unsent"
    <3>1. k = 1 \/ k = 2
      BY DEF Attempts
    <3>2. KindOf[r] # "list" /\ answer[r] = IF k = 1 THEN "none" ELSE "retry"
      BY <1>1 DEF PutScan
    <3>3. QED
      BY <3>1, <3>2 DEF AttemptIsFresh
  <2>2. where' = where \/ where' = [where EXCEPT ![<<r, k>>] = "queued"]
    BY <1>1 DEF PutScan
  <2>3. QED
    BY <2>1, <2>2 DEF TypeOK
<1>2. CASE RequestModulesList(r)
  <2>1. where[<<r, 1>>] = "unsent" /\ where' = [where EXCEPT ![<<r, 1>>] = "queued"]
    BY <1>2 DEF RequestModulesList
  <2>2. QED
    BY <2>1 DEF TypeOK
<1>3. QED
  BY <1>1, <1>2

\* HolderKnown is preserved.
LEMMA HolderStep ==
  ASSUME TypeOK, AttemptIsFresh, HolderKnown, [Next]_vars
  PROVE  HolderKnown'
<1> USE DEF vars, brokerVars, nodeVars, tableVars, histVars
<1>0. SUFFICES ASSUME faults' = 0, NEW i \in Nodes
      PROVE  /\ pc'[i] = "got" => where'[cur'[i]] = i /\ cur'[i] \notin inbox'[i]
             /\ \A m \in inbox'[i] : where'[m] = i
  BY DEF HolderKnown
<1>1. faults = 0 /\ faults \in Nat
  BY <1>0, OneWay
<1>2. /\ pc[i] = "got" => where[cur[i]] = i /\ cur[i] \notin inbox[i]
      /\ \A m \in inbox[i] : where[m] = i
      /\ pc[i] = "got" => cur[i] \in Messages
      /\ inbox[i] \subseteq Messages
  BY <1>1, CurIsMessage DEF HolderKnown, TypeOK
<1>3. i \notin Requests /\ i \notin Places
  OBVIOUS
<1>4. ASSUME \A m \in Messages : where[m] = i => where'[m] = i,
             inbox'[i] \subseteq inbox[i],
             pc'[i] = "got" => pc[i] = "got" /\ cur'[i] = cur[i]
      PROVE  /\ pc'[i] = "got" => where'[cur'[i]] = i /\ cur'[i] \notin inbox'[i]
             /\ \A m \in inbox'[i] : where'[m] = i
  BY <1>2, <1>4
<1>5. CASE UNCHANGED vars
  BY <1>4, <1>5
<1> HIDE <1>0
<1> DEFINE Goal == /\ pc'[i] = "got" => where'[cur'[i]] = i /\ cur'[i] \notin inbox'[i]
                   /\ \A m \in inbox'[i] : where'[m] = i
<1>6. ASSUME NEW r \in Requests, NEW k \in Attempts,
             PutScan(r, k) \/ RequestModulesList(r)
      PROVE  Goal
  <2>1. \A m \in Messages : where[m] # "unsent" => where'[m] = where[m]
    BY <1>6, QueuesOneUnsent
  <2>2. QED
    BY <1>3, <1>4, <1>6, <2>1 DEF PutScan, RequestModulesList, Places
<1>7. ASSUME NEW m \in Messages, NEW c \in Subs, Dispatch(m, c) PROVE Goal
  <2>1. where[m] # i
    BY <1>3, <1>7 DEF Dispatch, Places
  <2>2. CASE c = i
    BY <1>2, <1>7, <2>1, <2>2 DEF Dispatch, TypeOK
  <2>3. CASE c # i
    BY <1>4, <1>7, <2>1, <2>3 DEF Dispatch, TypeOK
  <2>4. QED
    BY <2>2, <2>3
<1>8. ASSUME NEW r \in Requests, CollectPhotoConnection(r) PROVE Goal
  BY <1>3, <1>4, <1>8 DEF CollectPhotoConnection, Requeue
<1>9. ~Fault
  BY <1>0, <1>1 DEF Fault
<1>10. ASSUME NEW n \in Nodes, RunServer(n) PROVE Goal
  <2> USE <1>9 DEF Goto, BackToLoop
  <2>1. ASSUME NEW m \in Messages, Receive(n, m) PROVE Goal
    <3>1. CASE n = i
      BY <1>2, <2>1, <3>1 DEF Receive, TypeOK
    <3>2. CASE n # i
      BY <1>4, <2>1, <3>2 DEF Receive, TypeOK
    <3>3. QED
      BY <3>1, <3>2
  <2>2. CASE Ack(n)
    <3>0. cur[n] \in Messages
      BY <2>2, CurIsMessage DEF Ack
    <3>1. CASE n = i
      BY <1>2, <2>2, <3>0, <3>1 DEF Ack, TypeOK
    <3>2. CASE n # i
      BY <1>4, <2>2, <3>0, <3>2 DEF Ack, TypeOK
    <3>3. QED
      BY <3>1, <3>2
  <2>3. CASE PutRun(n) /\ Exit(n)
    <3>1. CASE n = i
      BY <2>3, <3>1 DEF Exit, TypeOK
    <3>2. CASE n # i
      BY <1>3, <1>4, <2>3, <3>2 DEF Exit, Requeue, PhotosOf, TypeOK
    <3>3. QED
      BY <3>1, <3>2
  <2>4. CASE PutRun(n) /\ ~Exit(n)
    BY <1>4, <2>4 DEF PutRun, TypeOK
  <2>5. CASE StartUp(n) \/ SendModulesList(n) \/ CheckRunExists(n) \/ RunScan(n)
    BY <1>4, <2>5 DEF StartUp, SendModulesList, CheckRunExists, RunScan, TypeOK
  <2>6. CASE PhotoPass(n)
    <3>1. Request(n) # i
      BY <1>3, <2>6, CurIsMessage DEF PhotoPass
    <3>2. QED
      BY <1>4, <2>6, <3>1 DEF PhotoPass, Requeue, TypeOK
  <2>7. CASE ExecuteModules(n) \/ PhotoConnect(n) \/ PhotoFail(n) \/ UpdateRunEndTime(n)
    BY <1>4, <2>7 DEF ExecuteModules, PhotoConnect, PhotoFail, UpdateRunEndTime, TypeOK
  <2>8. QED
    BY <1>10, <2>1, <2>2, <2>3, <2>4, <2>5, <2>6, <2>7 DEF RunServer
<1>11. Goal
  BY <1>5, <1>6, <1>7, <1>8, <1>9, <1>10, MessageFacts
     DEF Next, RestNext, BrokerNext, Crash, Expire, BrokerRestart, LoseConnection
<1>12. QED
  BY <1>11

\* AttemptIsFresh is preserved.
LEMMA FreshStep ==
  ASSUME TypeOK, AttemptIsFresh, [Next]_vars
  PROVE  AttemptIsFresh'
<1> USE DEF vars, brokerVars, nodeVars, tableVars, histVars
<1>1. ASSUME NEW r \in Requests, NEW k \in Attempts, PutScan(r, k) PROVE AttemptIsFresh'
  BY <1>1, MessageFacts DEF PutScan, AttemptIsFresh, TypeOK
<1>2. ASSUME NEW r \in Requests, RequestModulesList(r) PROVE AttemptIsFresh'
  BY <1>2, MessageFacts DEF RequestModulesList, AttemptIsFresh, TypeOK
<1>3. CASE ~RestNext
  <2>1. answer' = answer
    BY <1>3 DEF Next, BrokerNext, RunServer, Expire, Dispatch, CollectPhotoConnection,
         LoseConnection, BrokerRestart, Crash, StartUp, Receive, Ack, SendModulesList,
         CheckRunExists, PutRun, RunScan, ExecuteModules, PhotoConnect, PhotoPass, PhotoFail,
         UpdateRunEndTime
  <2>2. QED
    BY <1>3, <2>1, OneWay, MessageFacts DEF AttemptIsFresh
<1>4. QED
  BY <1>1, <1>2, <1>3 DEF RestNext

\* AckedIsTakenUp is preserved.
LEMMA TakenUpStep ==
  ASSUME TypeOK, HolderKnown, AckedIsTakenUp, AttemptIsFresh, [Next]_vars
  PROVE  AckedIsTakenUp'
<1> USE DEF vars, brokerVars, nodeVars, tableVars, histVars
<1>0. SUFFICES ASSUME NEW r \in Requests, NEW k \in Attempts, faults' = 0,
                      KindOf[r] \in {"scan", "shot"},
                      where'[<<r, k>>] = "acked", db'[r] = "none"
      PROVE  \E i \in Nodes : pc'[i] \in {"check", "insert"} /\ Request(i)' = r
  BY DEF AckedIsTakenUp
<1> DEFINE m == <<r, k>>
<1> DEFINE Takes(i) == pc[i] \in {"check", "insert"} /\ Request(i) = r
<1> DEFINE Goal == \E i \in Nodes : pc'[i] \in {"check", "insert"} /\ Request(i)' = r
<1>1. faults = 0 /\ ~Fault /\ m \in Messages
  BY <1>0, OneWay, MessageFacts DEF Fault
<1>2. ASSUME where[m] = "acked", db[r] = "none",
             \A i \in Nodes : Takes(i) => pc'[i] \in {"check", "insert"} /\ cur'[i] = cur[i]
      PROVE  Goal
  BY <1>0, <1>1, <1>2 DEF AckedIsTakenUp, Request
<1>3. CASE UNCHANGED vars
  BY <1>0, <1>2, <1>3
<1>4. CASE RestNext
  <2>1. /\ db' = db /\ pc' = pc /\ cur' = cur
    BY <1>4 DEF RestNext, PutScan, RequestModulesList
  <2>2. where'[m] \in {where[m], "queued"}
    BY <1>1, <1>4, QueuesOneUnsent, MessageFacts DEF RestNext
  <2>3. QED
    BY <1>0, <1>2, <2>1, <2>2
<1>5. CASE BrokerNext
  <2>1. "acked" \notin Subs
    BY DEF Subs, Places
  <2>2. QED
    BY <1>0, <1>1, <1>2, <1>5, <2>1
       DEF BrokerNext, Expire, Dispatch, CollectPhotoConnection, LoseConnection, BrokerRestart,
           Requeue, TypeOK
<1>6. ASSUME NEW n \in Nodes, RunServer(n) PROVE Goal
  <2> USE <1>1 DEF Goto, BackToLoop
  <2>1. CASE Ack(n)
    <3>1. cur[n] \in Messages
      BY <2>1, CurIsMessage DEF Ack
    <3>2. CASE where[m] = "acked"
      BY <1>0, <1>2, <2>1, <3>2 DEF Ack, TypeOK
    <3>3. CASE where[m] # "acked"
      <4>1. cur[n] = m
        BY <1>0, <2>1, <3>1, <3>3 DEF Ack, TypeOK
      <4>2. pc'[n] = "check" /\ Request(n)' = r
        BY <1>0, <2>1, <4>1 DEF Ack, TypeOK, Request
      <4>3. QED
        BY <4>2
    <3>4. QED
      BY <3>2, <3>3
  <2>2. CASE PutRun(n)
    <3>1. ~Takes(n)
      <4>1. SUFFICES ASSUME Request(n) = r, db[r] # "none" \/ db'[r] # "none" PROVE FALSE
        BY <1>0, <2>2 DEF PutRun, TypeOK
      <4>2. db'[r] # "none"
        BY <4>1, <2>2 DEF PutRun, TypeOK
      <4>3. QED
        BY <1>0, <4>2
    <3>2. db[r] = "none"
      BY <1>0, <2>2 DEF PutRun, TypeOK
    <3>3. where[m] = "acked"
      BY <1>0, <2>2 DEF PutRun, Exit, Requeue
    <3>4. \A i \in Nodes \ {n} : pc'[i] = pc[i] /\ cur'[i] = cur[i]
      BY <2>2 DEF PutRun, Exit, TypeOK
    <3>5. QED
      BY <1>2, <3>1, <3>2, <3>3, <3>4
  <2>3. CASE CheckRunExists(n)
    BY <1>0, <1>2, <2>3 DEF CheckRunExists, TypeOK
  <2>4. CASE UpdateRunEndTime(n)
    <3>1. Request(n) \in Requests
      BY <2>4, CurIsMessage DEF UpdateRunEndTime
    <3>2. QED
      BY <1>0, <1>2, <2>4, <3>1 DEF UpdateRunEndTime, TypeOK
  <2>5. CASE PhotoPass(n)
    BY <1>0, <1>2, <2>5 DEF PhotoPass, Requeue, TypeOK
  <2>6. CASE StartUp(n) \/ (\E x \in Messages : Receive(n, x)) \/ SendModulesList(n)
    BY <1>0, <1>2, <2>6 DEF StartUp, Receive, SendModulesList, TypeOK
  <2>7. CASE RunScan(n) \/ ExecuteModules(n) \/ PhotoConnect(n) \/ PhotoFail(n)
    BY <1>0, <1>2, <2>7 DEF RunScan, ExecuteModules, PhotoConnect, PhotoFail, TypeOK
  <2>8. QED
    BY <1>6, <2>1, <2>2, <2>3, <2>4, <2>5, <2>6, <2>7 DEF RunServer
<1>7. QED
  BY <1>1, <1>3, <1>4, <1>5, <1>6 DEF Next, Crash

LEMMA HoldInvCorrect == Spec => []HoldInv
<1>1. Init => HoldInv
  BY MessageFacts
     DEF Init, HoldInv, HeldWasPublished, AttemptIsFresh, HolderKnown, AckedIsTakenUp, Working
<1>2. TypeOK /\ HoldInv /\ [Next]_vars => HoldInv'
  BY HeldStep, FreshStep, HolderStep, TakenUpStep DEF HoldInv
<1>3. QED
  BY <1>1, <1>2, TypeCorrect, PTL DEF Spec

\* Without a fault no well-formed request disappears between ack and insert.
THEOREM NoRequestIsLost == Spec => []NoSilentLoss
<1>1. HoldInv => NoSilentLoss
  BY DEF HoldInv, AckedIsTakenUp, NoSilentLoss, Published
<1>2. QED
  BY <1>1, HoldInvCorrect, PTL

\* The strengthening that TLC checks is an invariant for every instance.
THEOREM InvCorrect == Spec => []Inv
<1>1. RunInv /\ HoldInv => Inv
  BY DEF Inv
<1>2. QED
  BY <1>1, RunInvCorrect, HoldInvCorrect, PTL

-----------------------------------------------------------------------------
(* Open rows.                                                              *)

\* A node stops working on a run only when it closes the row, or by a fault, or
\* because run_scan has raised; and put_run makes a worker with the row.
LEMMA OpenRowStep ==
  ASSUME TypeOK, TypeOK', RunInv, OpenRowHasWorker, [Next]_vars
  PROVE  OpenRowHasWorker'
<1> USE DEF vars, brokerVars, nodeVars, tableVars, histVars
<1> SUFFICES ASSUME NEW r \in Requests, db'[r] = "row", faults' = 0, KindOf[r] # "nomodules"
             PROVE  \E n \in Nodes : WorkingOn(n, r)'
  BY DEF OpenRowHasWorker, TypeOK
<1>0. faults = 0
  BY OneWay
<1>1. ASSUME NEW n \in Nodes, WorkingOn(n, r), cur'[n] = cur[n], pc'[n] \in Working
      PROVE  WorkingOn(n, r)'
  BY <1>1 DEF WorkingOn, Request
<1>2. CASE UNCHANGED <<pc, cur, db>>
  BY <1>0, <1>2 DEF OpenRowHasWorker, WorkingOn, Request
<1>3. ASSUME NEW n \in Nodes, RunServer(n)
      PROVE  \E i \in Nodes : WorkingOn(i, r)'
  <2> USE <1>3 DEF Goto, BackToLoop
  <2>1. \A i \in Nodes \ {n} : pc'[i] = pc[i] /\ cur'[i] = cur[i]
    BY DEF RunServer, StartUp, Receive, Ack, SendModulesList, CheckRunExists, PutRun, Exit, RunScan,
           ExecuteModules, PhotoConnect, PhotoPass, PhotoFail, UpdateRunEndTime, TypeOK
  <2>2. ASSUME NEW i \in Nodes \ {n}, WorkingOn(i, r) PROVE WorkingOn(i, r)'
    BY <2>1, <2>2 DEF WorkingOn, Request
  <2>3. ASSUME db[r] = "row", WorkingOn(n, r) PROVE WorkingOn(n, r)'
    <3>1. CASE RunScan(n)
      BY <1>1, <2>3, <3>1 DEF RunScan, WorkingOn, Working, TypeOK
    <3>2. CASE ExecuteModules(n) \/ PhotoConnect(n) \/ PhotoPass(n) \/ PhotoFail(n)
      BY <1>1, <2>3, <3>2
         DEF ExecuteModules, PhotoConnect, PhotoPass, PhotoFail, WorkingOn, Working, TypeOK
    <3>3. ~UpdateRunEndTime(n)
      BY <1>0, <2>3 DEF UpdateRunEndTime, WorkingOn, Fault, TypeOK
    <3>4. QED
      BY <2>3, <3>1, <3>2, <3>3
         DEF RunServer, StartUp, Receive, Ack, SendModulesList, CheckRunExists, PutRun, WorkingOn, Working
  <2>4. CASE db[r] = "row"
    BY <1>0, <2>2, <2>3, <2>4 DEF OpenRowHasWorker
  <2>5. CASE db[r] # "row"
    <3>1. PutRun(n)
      BY <2>5, CurIsMessage
         DEF RunServer, StartUp, Receive, Ack, SendModulesList, CheckRunExists, RunScan,
             ExecuteModules, PhotoConnect, PhotoPass, PhotoFail, UpdateRunEndTime, TypeOK
    <3>2. /\ db' = [db EXCEPT ![Request(n)] = "row"] /\ cur' = cur
          /\ pc' = [pc EXCEPT ![n] = "start"]
      BY <2>5, <3>1 DEF PutRun, TypeOK
    <3>3. Request(n) = r
      BY <2>5, <3>2 DEF TypeOK
    <3>4. WorkingOn(n, r)'
      BY <3>2, <3>3 DEF WorkingOn, Request, Working, TypeOK
    <3>5. QED
      BY <3>4
  <2>6. QED
    BY <2>4, <2>5
<1>4. ~ \E n \in Nodes : Crash(n)
  BY <1>0 DEF Crash, Fault, TypeOK
<1>5. QED
  BY <1>2, <1>3, <1>4
     DEF Next, RestNext, BrokerNext, PutScan, RequestModulesList, Expire, Dispatch,
         CollectPhotoConnection, LoseConnection, BrokerRestart

\* A row that stays open for ever is explained by a fault or by a request without
\* modules.
THEOREM OpenRowExplained == Spec => []OpenRowHasWorker
<1>1. Init => OpenRowHasWorker
  BY DEF Init, OpenRowHasWorker
<1>2. QED
  BY <1>1, OpenRowStep, TypeCorrect, RunInvCorrect, PTL DEF Spec

-----------------------------------------------------------------------------
(* The dispatch protocol implements ScanService.                           *)

\* The refinement mapping by cases: a request with a worker, one without.
LEMMA Mapping ==
  OneWorkerPerRun => \A r \in Requests :
    /\ \A n \in Nodes : WorkingOn(n, r) => JobOf(r) = "running" /\ WorkerOf(r) = n
    /\ (\A n \in Nodes : ~WorkingOn(n, r)) =>
         /\ WorkerOf(r) = None
         /\ db[r] = "ended" => JobOf(r) = "finished"
         /\ db[r] = "row" => JobOf(r) = "aborted"
         /\ db[r] = "none" => JobOf(r) = IF Published(r) = {} THEN "new" ELSE "accepted"
BY DEF OneWorkerPerRun, JobOf, WorkerOf

LEMMA MappingNext == OneWorkerPerRun' => \A r \in Requests :
    /\ \A n \in Nodes : WorkingOn(n, r)' => JobOf(r)' = "running" /\ WorkerOf(r)' = n
    /\ (\A n \in Nodes : ~WorkingOn(n, r)') =>
         /\ WorkerOf(r)' = None
         /\ db'[r] = "ended" => JobOf(r)' = "finished"
         /\ db'[r] = "row" => JobOf(r)' = "aborted"
         /\ db'[r] = "none" => JobOf(r)' = IF Published(r)' = {} THEN "new" ELSE "accepted"
BY DEF OneWorkerPerRun, JobOf, WorkerOf

\* A request whose row, workers and messages look the same is the same job.
LEMMA SameJob ==
  ASSUME TypeOK, OneWorkerPerRun, OneWorkerPerRun', NEW r \in Requests,
         \A n \in Nodes : WorkingOn(n, r)' <=> WorkingOn(n, r),
         db'[r] = db[r], db[r] = "none" => (Published(r)' = {} <=> Published(r) = {})
  PROVE  JobOf(r)' = JobOf(r) /\ WorkerOf(r)' = WorkerOf(r)
<1>1. CASE \E n \in Nodes : WorkingOn(n, r)
  BY <1>1, Mapping, MappingNext
<1>2. CASE \A n \in Nodes : ~WorkingOn(n, r)
  <2>1. db[r] \in {"none", "row", "ended"}
    BY DEF TypeOK
  <2>2. QED
    BY <1>2, <2>1, Mapping, MappingNext
<1>3. QED
  BY <1>1, <1>2

\* No worker of another request is made or lost by a step of node n.
LEMMA OthersWork ==
  ASSUME NEW n \in Nodes, \A i \in Nodes \ {n} : pc'[i] = pc[i] /\ cur'[i] = cur[i]
  PROVE  /\ \A i \in Nodes \ {n}, r \in Requests : WorkingOn(i, r)' <=> WorkingOn(i, r)
BY DEF WorkingOn, Request

\* What each step does to the jobs of all requests, and hence to the service.
LEMMA ServiceStep ==
  ASSUME TypeOK, Inv, OneWorkerPerRun', [Next]_vars
  PROVE  [Service!Next]_(Service!vars)
<1> USE DEF vars, brokerVars, nodeVars, tableVars, histVars
<1> DEFINE job == [r \in Scans |-> JobOf(r)]
<1> DEFINE worker == [r \in Scans |-> WorkerOf(r)]
<1> DEFINE Same(r) == JobOf(r)' = JobOf(r) /\ WorkerOf(r)' = WorkerOf(r)
<1>0. OneWorkerPerRun /\ RowOfWorker /\ HeldWasPublished /\ Scans \subseteq Requests
  BY DEF Inv, RunInv, HoldInv, Scans
<1>1. ASSUME \A r \in Scans : Same(r) PROVE UNCHANGED Service!vars
  BY <1>1 DEF Service!vars
<1>2. ASSUME NEW s \in Scans, \A r \in Scans \ {s} : Same(r)
      PROVE  /\ job' = [job EXCEPT ![s] = JobOf(s)']
             /\ worker' = [worker EXCEPT ![s] = WorkerOf(s)']
  BY <1>2
<1>3. ASSUME NEW s \in Scans, \A r \in Scans \ {s} : Same(r), WorkerOf(s)' = WorkerOf(s),
             JobOf(s) = "new", JobOf(s)' = "accepted"
      PROVE  Service!Next
  <2>1. Service!Accept(s)
    BY <1>2, <1>3 DEF Service!Accept
  <2>2. QED
    BY <2>1 DEF Service!Next
<1>4. ASSUME NEW s \in Scans, NEW n \in Nodes, \A r \in Scans \ {s} : Same(r),
             JobOf(s) = "accepted", JobOf(s)' = "running", WorkerOf(s)' = n,
             \A t \in Scans : WorkerOf(t) # n
      PROVE  Service!Next
  <2>1. Service!Start(s, n)
    BY <1>2, <1>4 DEF Service!Start
  <2>2. QED
    BY <2>1 DEF Service!Next
<1>5. ASSUME NEW s \in Scans, NEW how \in {"finished", "aborted"},
             \A r \in Scans \ {s} : Same(r),
             JobOf(s) = "running", JobOf(s)' = how, WorkerOf(s)' = None
      PROVE  Service!Next
  <2>1. Service!Leave(s, how)
    BY <1>2, <1>5 DEF Service!Leave
  <2>2. QED
    BY <2>1 DEF Service!Next
<1>6. ASSUME db' = db, \A r \in Requests : Published(r)' = {} <=> Published(r) = {},
             \A r \in Requests, n \in Nodes : WorkingOn(n, r)' <=> WorkingOn(n, r)
      PROVE  UNCHANGED Service!vars
  BY <1>0, <1>1, <1>6, SameJob
<1>7. CASE UNCHANGED vars
  BY <1>6, <1>7 DEF Published, WorkingOn, Request
<1>8. ASSUME ~RestNext, NEW r \in Requests PROVE Published(r)' = {} <=> Published(r) = {}
  BY <1>8, OneWay, MessageFacts DEF Published
<1>9. CASE RestNext
  <2>1. db' = db /\ \A r \in Requests, n \in Nodes : WorkingOn(n, r)' <=> WorkingOn(n, r)
    BY <1>9 DEF RestNext, PutScan, RequestModulesList, WorkingOn, Request
  <2>2. PICK r \in Requests, k \in Attempts : PutScan(r, k) \/ RequestModulesList(r)
    BY <1>9, MessageFacts DEF RestNext
  <2>3. \A q \in Requests \ {r} : Published(q)' = Published(q)
    <3>1. where' = where \/ \E j \in Attempts : where' = [where EXCEPT ![<<r, j>>] = "queued"]
      BY <2>2, MessageFacts DEF PutScan, RequestModulesList
    <3>2. \A q \in Requests \ {r}, j \in Attempts : where'[<<q, j>>] = where[<<q, j>>]
      BY <3>1, MessageFacts DEF TypeOK
    <3>3. QED
      BY <3>2 DEF Published
  <2>4. \A q \in Requests \ {r} : Same(q)
    BY <1>0, <2>1, <2>3, SameJob
  <2>5. Published(r) \subseteq Published(r)'
    BY OneWay, MessageFacts DEF Published
  <2>6. CASE Published(r)' = Published(r) \/ db[r] # "none" \/ Published(r) # {}
    <3>1. Same(r)
      BY <1>0, <2>1, <2>5, <2>6, SameJob
    <3>2. QED
      BY <1>0, <1>1, <2>4, <3>1
  <2>7. CASE Published(r)' # {} /\ db[r] = "none" /\ Published(r) = {}
    <3>1. \A n \in Nodes : ~WorkingOn(n, r)
      BY <1>0, <2>7 DEF RowOfWorker, WorkingOn
    <3>2. /\ JobOf(r) = "new" /\ JobOf(r)' = "accepted"
          /\ WorkerOf(r) = None /\ WorkerOf(r)' = None
      BY <1>0, <2>1, <2>7, <3>1, Mapping, MappingNext
    <3>3. CASE r \in Scans
      BY <1>0, <1>3, <2>4, <3>2, <3>3
    <3>4. CASE r \notin Scans
      BY <1>0, <1>1, <2>4, <3>4
    <3>5. QED
      BY <3>3, <3>4
  <2>8. QED
    BY <2>5, <2>6, <2>7
<1>10. CASE BrokerNext /\ ~RestNext
  BY <1>6, <1>8, <1>10 DEF BrokerNext, Expire, Dispatch, CollectPhotoConnection,
                          LoseConnection, BrokerRestart, WorkingOn, Request
<1>11. ASSUME ~RestNext, NEW n \in Nodes, Crash(n) \/ RunServer(n)
       PROVE  Service!Next \/ UNCHANGED Service!vars
  <2>a. PICK s : s = Request(n)
    OBVIOUS
  <2> USE <2>a
  <2>0. \A i \in Nodes \ {n} : pc'[i] = pc[i] /\ cur'[i] = cur[i]
    BY <1>11 DEF Crash, RunServer, StartUp, Receive, Ack, SendModulesList, CheckRunExists,
         PutRun, RunScan, ExecuteModules, PhotoConnect, PhotoPass, PhotoFail, UpdateRunEndTime,
         Exit, Goto, BackToLoop, TypeOK
  <2>1. \A q \in Requests, i \in Nodes \ {n} : WorkingOn(i, q)' <=> WorkingOn(i, q)
    BY <2>0, OthersWork
  \* n does not start, change or stop working on a run.
  <2>2. ASSUME db' = db,
               \/ pc[n] \notin Working /\ pc'[n] \notin Working
               \/ pc[n] \in Working /\ pc'[n] \in Working /\ cur'[n] = cur[n]
        PROVE  UNCHANGED Service!vars
    <3>1. \A q \in Requests : WorkingOn(n, q)' <=> WorkingOn(n, q)
      BY <2>2 DEF WorkingOn, Request
    <3>2. QED
      BY <1>6, <1>8, <1>11, <2>1, <2>2, <3>1
  \* n stops working on s.
  <2>3. ASSUME pc[n] \in Working, pc'[n] \notin Working,
               db' = db \/ db' = [db EXCEPT ![s] = "ended"]
        PROVE  Service!Next
    <3>1. s \in Scans /\ s \in Requests /\ db[s] = "row"
      BY <1>0, <2>3 DEF HeldWasPublished, RowOfWorker
    <3>2. WorkingOn(n, s) /\ \A q \in Requests \ {s} : ~WorkingOn(n, q)
      BY <2>3 DEF WorkingOn
    <3>3. \A q \in Requests : ~WorkingOn(n, q)'
      BY <2>3 DEF WorkingOn
    <3>4. \A q \in Requests \ {s} : db'[q] = db[q] /\ Same(q)
      <4>1. \A q \in Requests \ {s} : db'[q] = db[q]
        BY <2>3 DEF TypeOK
      <4>2. QED
        BY <1>0, <1>8, <1>11, <2>1, <3>2, <3>3, <4>1, SameJob
    <3>5. \A i \in Nodes : ~WorkingOn(i, s)'
      BY <1>0, <2>1, <3>1, <3>2, <3>3 DEF OneWorkerPerRun
    <3>6. db'[s] \in {"row", "ended"}
      BY <2>3, <3>1 DEF TypeOK
    <3>7. JobOf(s) = "running" /\ WorkerOf(s)' = None /\ JobOf(s)' \in {"finished", "aborted"}
      BY <1>0, <3>1, <3>2, <3>5, <3>6, Mapping, MappingNext
    <3>8. QED
      BY <1>0, <1>5, <3>1, <3>4, <3>7
  <2>4. CASE Crash(n)
    <3>1. pc'[n] \notin Working /\ db' = db
      BY <2>4 DEF Crash, Exit, Goto, TypeOK, Working
    <3>2. QED
      BY <2>2, <2>3, <3>1
  <2>5. CASE \/ StartUp(n) \/ (\E m \in Messages : Receive(n, m)) \/ Ack(n)
             \/ SendModulesList(n) \/ CheckRunExists(n)
    BY <2>2, <2>5 DEF StartUp, Receive, Ack, SendModulesList, CheckRunExists, Goto, BackToLoop,
                      TypeOK, Working
  <2>6. CASE ExecuteModules(n) \/ PhotoConnect(n) \/ PhotoPass(n) \/ PhotoFail(n)
    BY <2>2, <2>6 DEF ExecuteModules, PhotoConnect, PhotoPass, PhotoFail, Goto, TypeOK, Working
  <2>7. CASE RunScan(n)
    BY <2>2, <2>3, <2>7 DEF RunScan, Goto, BackToLoop, TypeOK, Working
  <2>8. CASE UpdateRunEndTime(n)
    BY <2>3, <2>8 DEF UpdateRunEndTime, Goto, BackToLoop, TypeOK, Working
  <2>9. CASE PutRun(n) /\ UNCHANGED db
    <3>1. pc[n] = "insert" /\ s \in Requests
      BY <2>9, CurIsMessage DEF PutRun
    <3>2. pc' = [pc EXCEPT ![n] = "down"] \/ pc' = [pc EXCEPT ![n] = "idle"]
      BY <2>9, <3>1 DEF PutRun, Exit, Goto, BackToLoop, TypeOK
    <3>3. QED
      BY <2>2, <2>9, <3>1, <3>2 DEF TypeOK, Working
  <2>10. CASE PutRun(n) /\ db' # db
    <3>1. /\ pc[n] = "insert" /\ s \in Requests /\ s \in Scans
          /\ cur[n] \in Messages /\ where[cur[n]] # "unsent"
      BY <1>0, <2>10, CurIsMessage DEF PutRun, HeldWasPublished
    <3>2. /\ db[s] = "none" /\ db' = [db EXCEPT ![s] = "row"] /\ cur' = cur
          /\ pc' = [pc EXCEPT ![n] = "start"]
      BY <2>10 DEF PutRun, Goto
    <3>3. \A q \in Requests : ~WorkingOn(n, q)
      BY <3>1 DEF WorkingOn, Working
    <3>4. WorkingOn(n, s)' /\ \A q \in Requests \ {s} : ~WorkingOn(n, q)'
      BY <3>1, <3>2 DEF WorkingOn, Request, Working, TypeOK
    <3>5. \A q \in Requests \ {s} : Same(q)
      <4>1. \A q \in Requests \ {s} : db'[q] = db[q]
        BY <3>2 DEF TypeOK
      <4>2. QED
        BY <1>0, <1>8, <1>11, <2>1, <3>3, <3>4, <4>1, SameJob
    <3>6. Published(s) # {}
      BY <3>1 DEF Published, Messages, Request
    <3>7. \A i \in Nodes : ~WorkingOn(i, s)
      BY <1>0, <3>2 DEF RowOfWorker, WorkingOn
    <3>8. JobOf(s) = "accepted" /\ JobOf(s)' = "running" /\ WorkerOf(s)' = n
      BY <1>0, <3>1, <3>2, <3>4, <3>6, <3>7, Mapping, MappingNext
    <3>9. \A t \in Scans : WorkerOf(t) # n
      <4>1. SUFFICES ASSUME NEW t \in Scans PROVE WorkerOf(t) # n
        OBVIOUS
      <4>2. CASE \E i \in Nodes : WorkingOn(i, t)
        BY <1>0, <3>3, <4>2, Mapping
      <4>3. CASE \A i \in Nodes : ~WorkingOn(i, t)
        BY <1>0, <4>3, Mapping
      <4>4. QED
        BY <4>2, <4>3
    <3>10. QED
      BY <1>0, <1>4, <3>1, <3>5, <3>8, <3>9
  <2>11. QED
    BY <1>11, <2>4, <2>5, <2>6, <2>7, <2>8, <2>9, <2>10 DEF RunServer
<1>12. QED
  BY <1>7, <1>9, <1>10, <1>11 DEF Next

\* Whatever crashes, is repeated or is delivered twice: the nodes, the queue and
\* the table implement the service of running every accepted scan at most once.
THEOREM Implements == Spec => ImplementsService
<1>1. Init => Service!Init
  <2>1. SUFFICES ASSUME Init PROVE Service!Init
    OBVIOUS
  <2>2. \A r \in Requests, n \in Nodes : ~WorkingOn(n, r)
    BY <2>1 DEF Init, WorkingOn, Working
  <2>3. \A r \in Requests : Published(r) = {} /\ db[r] = "none"
    BY <2>1, MessageFacts DEF Init, Published
  <2>4. \A r \in Scans : JobOf(r) = "new" /\ WorkerOf(r) = None
    BY <2>2, <2>3 DEF JobOf, WorkerOf, Scans
  <2>5. QED
    BY <2>4 DEF Service!Init
<1>2. TypeOK /\ Inv /\ Inv' /\ [Next]_vars => [Service!Next]_(Service!vars)
  BY ServiceStep DEF Inv, RunInv
<1>3. QED
  BY <1>1, <1>2, TypeCorrect, InvCorrect, PTL DEF Spec, ImplementsService, Service!Spec
=============================================================================

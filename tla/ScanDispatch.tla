---------------------------- MODULE ScanDispatch ----------------------------
(***************************************************************************)
(* How a scan request travels from the REST server through the work queue  *)
(* of the ActiveMQ broker to one of the Caroline nodes, and what the node  *)
(* does with it: rest/rest.rb and rest/activemq.rb (put_scan, publish),    *)
(* caroline/core/runserver.rb (start, get_run, save_run2db, run_scan),     *)
(* caroline/core/dbms.rb (table run), caroline/core/activemq.rb (the       *)
(* node's STOMP client) and caroline/modules/screenshot.rb (Photographer,  *)
(* which opens a second STOMP client of its own).  The broker is external: *)
(* it is modelled from how the two clients use it.                         *)
(***************************************************************************)
EXTENDS Naturals, FiniteSets

CONSTANTS
  Nodes,      \* Caroline nodes: one RunServer process each
  Requests,   \* request ids: the uuid the console gives to a request
  KindOf,     \* what each request asks for and what is wrong with it
  Prefetch,   \* messages the broker leaves unacknowledged per subscription
  Retry,      \* 1: Net::HTTP repeats a PUT whose answer was lost; 0: it does not
  MaxFaults,  \* bound on crashes, broken connections, database errors, ...
  None        \* no message, no node

(***************************************************************************)
(* "scan": modules to run.  "shot": the module list names Photographer.    *)
(* "nomodules": no module list.  "badinfo": target_info is not base64 of   *)
(* JSON.  "badid": the id is no uuid.  put_scan accepts all of these.      *)
(* "list": a list_modules request.                                         *)
(***************************************************************************)
Kinds == {"scan", "shot", "nomodules", "badinfo", "badid", "list"}

Places == {"unsent", "queued", "acked", "dropped"}

ASSUME DispatchAssumption ==
  /\ IsFiniteSet(Nodes) /\ IsFiniteSet(Requests)
  /\ KindOf \in [Requests -> Kinds]
  /\ Prefetch \in Nat \ {0} /\ Retry \in 0..1 /\ MaxFaults \in Nat
  /\ Nodes \cap Requests = {}
  /\ Places \cap (Nodes \cup Requests) = {}
  /\ None \notin Nodes \cup Requests \cup (Requests \X (1..2))

Attempts == 1..(1 + Retry)      \* tries of one HTTP request
Messages == Requests \X Attempts \* one message per try: same id, same content
Subs     == Nodes \cup Requests  \* a node's subscription, or Photographer's for a shot
Scans    == {r \in Requests : KindOf[r] # "list"}

VARIABLES
  answer,   \* what the console has been told of each request
  where,    \* broker: where it keeps each message; a subscription: not acked yet
  inbox,    \* node: messages sent to its socket and not received yet
  pc,       \* node: what RunServer.start is doing
  cur,      \* node: the message get_run has received, then the run in to_run
  photo,    \* shot: the node whose Photographer connection is open
  db,       \* table run: no row, a row, a row with an end_time
  info,     \* column target_info of the row
  starts,   \* how often run_scan began to execute the modules
  replies,  \* requests answered through the return queue
  exits,    \* how often a request made a node process exit
  faults    \* number of faults so far

brokerVars == <<where, inbox>>
nodeVars   == <<pc, cur>>
tableVars  == <<db, info>>
histVars   == <<starts, exits>>
vars == <<answer, brokerVars, nodeVars, photo, tableVars, histVars, replies, faults>>

Request(n) == cur[n][1]
Working == {"start", "scan", "connect", "shoot", "end"}
Phases  == {"down", "deaf", "idle", "got", "list", "check", "insert"} \cup Working
UnackedBy(c) == {m \in Messages : where[m] = c}
PhotosOf(n)  == {r \in Requests : photo[r] = n}

Init ==
  /\ answer  = [r \in Requests |-> "none"]
  /\ where   = [m \in Messages |-> "unsent"]
  /\ inbox   = [n \in Nodes |-> {}]
  /\ pc      = [n \in Nodes |-> "down"]
  /\ cur     = [n \in Nodes |-> None]
  /\ photo   = [r \in Requests |-> None]
  /\ db      = [r \in Requests |-> "none"]
  /\ info    = [r \in Requests |-> "none"]
  /\ starts  = [r \in Requests |-> 0]
  /\ exits   = [r \in Requests |-> 0]
  /\ replies = {}
  /\ faults  = 0

Goto(n, phase) == pc' = [pc EXCEPT ![n] = phase]
Fault == faults < MaxFaults /\ faults' = faults + 1

\* One step of several places for all messages the broker takes back.
Requeue(subs) ==
  where' = [m \in Messages |-> IF where[m] \in subs THEN "queued" ELSE where[m]]

-----------------------------------------------------------------------------
(* Console and REST server.                                                *)

\* put_scan, one HTTP attempt: published or not (no connection, exception),
\* its answer delivered or lost.  Net::HTTP repeats a lost PUT once.
PutScan(r, k) ==
  /\ KindOf[r] # "list"
  /\ answer[r] = IF k = 1 THEN "none" ELSE "retry"
  /\ \E published, delivered \in BOOLEAN :
       /\ where' = IF published THEN [where EXCEPT ![<<r, k>>] = "queued"] ELSE where
       /\ answer' = [answer EXCEPT ![r] =
            IF delivered THEN IF published THEN "201" ELSE "409"
            ELSE IF k = 1 /\ Retry = 1 THEN "retry" ELSE "problem"]
  /\ UNCHANGED <<inbox, nodeVars, photo, tableVars, histVars, replies, faults>>

\* get_modules_list publishes its request; the answer comes by the return queue.
RequestModulesList(r) ==
  /\ KindOf[r] = "list" /\ where[<<r, 1>>] = "unsent"
  /\ where' = [where EXCEPT ![<<r, 1>>] = "queued"]
  /\ UNCHANGED <<answer, inbox, nodeVars, photo, tableVars, histVars, replies, faults>>

-----------------------------------------------------------------------------
(* The broker.                                                             *)

OpenSubs == {n \in Nodes : pc[n] \notin {"down", "deaf"}}
              \cup {r \in Requests : photo[r] # None}

\* A mistake: a subscription with ack "auto", settled when it is sent.
DispatchAutoAck(m, c) ==
  /\ where[m] = "queued" /\ c \in OpenSubs
  /\ Cardinality(UnackedBy(c)) < Prefetch
  /\ where' = [where EXCEPT ![m] = IF c \in Nodes THEN "acked" ELSE c]
  /\ inbox' = IF c \in Nodes THEN [inbox EXCEPT ![c] = @ \cup {m}] ELSE inbox
  /\ UNCHANGED <<answer, nodeVars, photo, tableVars, histVars, replies, faults>>

\* Work queue and return queue hand a message to any subscription with room.
\* Which one is left open: redelivery makes the order of messages arbitrary.
Dispatch(m, c) ==
  /\ where[m] = "queued" /\ c \in OpenSubs
  /\ Cardinality(UnackedBy(c)) < Prefetch
  /\ where' = [where EXCEPT ![m] = c]
  /\ inbox' = IF c \in Nodes THEN [inbox EXCEPT ![c] = @ \cup {m}] ELSE inbox
  /\ UNCHANGED <<answer, nodeVars, photo, tableVars, histVars, replies, faults>>

\* Messages are not persistent and expire: the broker may drop one it still keeps.
Expire(m) ==
  /\ Fault /\ where[m] = "queued"
  /\ where' = [where EXCEPT ![m] = "dropped"]
  /\ UNCHANGED <<answer, inbox, nodeVars, photo, tableVars, histVars, replies>>

\* A restarted broker has lost every message it kept; the reliable STOMP clients
\* of the nodes connect again, what is in their sockets may be gone or not.
BrokerRestart ==
  /\ Fault
  /\ where' = [m \in Messages |-> IF where[m] \in {"unsent", "acked"} THEN where[m]
                                                                     ELSE "dropped"]
  /\ \E flushed \in SUBSET Nodes :
       inbox' = [n \in Nodes |-> IF n \in flushed THEN {} ELSE inbox[n]]
  /\ photo' = [r \in Requests |-> None]
  /\ UNCHANGED <<answer, nodeVars, tableVars, histVars, replies>>

\* A node's connection breaks; the STOMP client connects and subscribes again.
LoseConnection(n) ==
  /\ Fault /\ n \in OpenSubs
  /\ Requeue({n})
  /\ inbox' = [inbox EXCEPT ![n] = {}]
  /\ UNCHANGED <<answer, nodeVars, photo, tableVars, histVars, replies>>

\* A Photographer connection nobody refers to any more is garbage collected.
CollectPhotoConnection(r) ==
  /\ photo[r] # None
  /\ ~ \E n \in Nodes : pc[n] = "shoot" /\ Request(n) = r
  /\ photo' = [photo EXCEPT ![r] = None]
  /\ Requeue({r})
  /\ UNCHANGED <<answer, inbox, nodeVars, tableVars, histVars, replies, faults>>

-----------------------------------------------------------------------------
(* A Caroline node.                                                        *)

\* The loop in the carolined script runs the process again: load the modules,
\* connect, subscribe.  A connect that raises leaves no connection at all.
StartUp(n) ==
  /\ pc[n] = "down"
  /\ \/ Goto(n, "idle") /\ UNCHANGED faults
     \/ Goto(n, "deaf") /\ Fault
  /\ UNCHANGED <<answer, brokerVars, cur, photo, tableVars, histVars, replies>>

\* A mistake: what is in the node's socket goes down with it.
ExitWithoutRequeue(n) ==
  /\ Goto(n, "down")
  /\ cur'   = [cur EXCEPT ![n] = None]
  /\ inbox' = [inbox EXCEPT ![n] = {}]
  /\ photo' = [r \in Requests |-> IF photo[r] = n THEN None ELSE photo[r]]
  /\ Requeue(PhotosOf(n))

\* The process is gone: its connections close, what it had not acked is requeued.
Exit(n) ==
  /\ Goto(n, "down")
  /\ cur'   = [cur EXCEPT ![n] = None]
  /\ inbox' = [inbox EXCEPT ![n] = {}]
  /\ photo' = [r \in Requests |-> IF photo[r] = n THEN None ELSE photo[r]]
  /\ Requeue({n} \cup PhotosOf(n))

Crash(n) ==
  /\ Fault /\ pc[n] # "down"
  /\ Exit(n)
  /\ UNCHANGED <<answer, tableVars, histVars, replies>>

\* get_run, first half: receive and parse.
Receive(n, m) ==
  /\ pc[n] = "idle" /\ m \in inbox[n]
  /\ inbox' = [inbox EXCEPT ![n] = @ \ {m}]
  /\ cur'   = [cur EXCEPT ![n] = m]
  /\ Goto(n, "got")
  /\ UNCHANGED <<answer, where, photo, tableVars, histVars, replies, faults>>

\* A mistake: the acknowledgement is left to the end of the run.
AckLater(n) ==
  /\ pc[n] = "got"
  /\ Goto(n, IF KindOf[Request(n)] = "list" THEN "list" ELSE "check")
  /\ UNCHANGED <<answer, brokerVars, cur, photo, tableVars, histVars, replies, faults>>

\* get_run, second half: acknowledge, before anything is saved.  The broker
\* ignores an acknowledgement of a message it has taken back meanwhile.
Ack(n) ==
  /\ pc[n] = "got"
  /\ where' = IF where[cur[n]] = n THEN [where EXCEPT ![cur[n]] = "acked"] ELSE where
  /\ Goto(n, IF KindOf[Request(n)] = "list" THEN "list" ELSE "check")
  /\ UNCHANGED <<answer, inbox, cur, photo, tableVars, histVars, replies, faults>>

\* A mistake: the run stays in to_run.
BackToLoopKeepingRun(n) == Goto(n, "idle") /\ UNCHANGED cur

\* to_run.delete(run), or the next turn of the loop.
BackToLoop(n) == Goto(n, "idle") /\ cur' = [cur EXCEPT ![n] = None]

\* A mistake: the error of a failed publish is swallowed.
SendModulesListLost(n) ==
  /\ pc[n] = "list"
  /\ BackToLoop(n)
  /\ UNCHANGED <<answer, brokerVars, photo, tableVars, histVars, replies, faults>>

SendModulesList(n) ==
  /\ pc[n] = "list"
  /\ replies' = replies \cup {Request(n)}
  /\ BackToLoop(n)
  /\ UNCHANGED <<answer, brokerVars, photo, tableVars, histVars, faults>>

\* save_run2db, first half: look the id up.  An id that is no uuid or an error
\* of the database makes it return false: the request is dropped.
CheckRunExists(n) ==
  /\ pc[n] = "check"
  /\ \/ /\ KindOf[Request(n)] # "badid" /\ db[Request(n)] = "none"
        /\ Goto(n, "insert") /\ UNCHANGED <<cur, faults>>
     \/ /\ KindOf[Request(n)] = "badid" \/ db[Request(n)] # "none"
        /\ BackToLoop(n) /\ UNCHANGED faults
     \/ Fault /\ BackToLoop(n)
  /\ UNCHANGED <<answer, brokerVars, photo, tableVars, histVars, replies>>

\* A mistake: table run without a primary key.
PutRunWithoutKey(n) ==
  /\ pc[n] = "insert"
  /\ db'   = [db EXCEPT ![Request(n)] = "row"]
  /\ info' = [info EXCEPT ![Request(n)] = "full"]
  /\ Goto(n, "start")
  /\ UNCHANGED <<answer, brokerVars, cur, photo, histVars, replies, faults>>

\* save_run2db, second half: the stripped copy of target_info is computed, the
\* run itself is inserted.  target_info that cannot be decoded is not rescued.
PutRun(n) ==
  /\ pc[n] = "insert"
  /\ UNCHANGED <<answer, starts, replies>>
  /\ \/ /\ KindOf[Request(n)] = "badinfo"
        /\ exits' = [exits EXCEPT ![Request(n)] = @ + 1]
        /\ Exit(n) /\ UNCHANGED <<tableVars, faults>>
     \/ /\ KindOf[Request(n)] # "badinfo" /\ db[Request(n)] = "none"
        /\ db'   = [db EXCEPT ![Request(n)] = "row"]
        /\ info' = [info EXCEPT ![Request(n)] = "full"]
        /\ Goto(n, "start")
        /\ UNCHANGED <<brokerVars, cur, photo, exits, faults>>
     \/ /\ KindOf[Request(n)] # "badinfo" /\ db[Request(n)] # "none"
        /\ BackToLoop(n)
        /\ UNCHANGED <<brokerVars, photo, tableVars, exits, faults>>
     \/ /\ KindOf[Request(n)] # "badinfo" /\ Fault /\ BackToLoop(n)
        /\ UNCHANGED <<brokerVars, photo, tableVars, exits>>

\* A mistake: the end time is written before the modules are executed.
RunScanEndFirst(n) ==
  /\ pc[n] = "start"
  /\ starts' = [starts EXCEPT ![Request(n)] = @ + 1]
  /\ db' = [db EXCEPT ![Request(n)] = "ended"]
  /\ Goto(n, IF KindOf[Request(n)] = "shot" THEN "connect" ELSE "scan")
  /\ UNCHANGED <<answer, brokerVars, cur, photo, info, exits, replies, faults>>

\* run_scan until the modules are executed; no module list raises before that.
RunScan(n) ==
  /\ pc[n] = "start"
  /\ IF KindOf[Request(n)] = "nomodules"
     THEN BackToLoop(n) /\ UNCHANGED starts
     ELSE /\ starts' = [starts EXCEPT ![Request(n)] = @ + 1]
          /\ Goto(n, IF KindOf[Request(n)] = "shot" THEN "connect" ELSE "scan")
          /\ UNCHANGED cur
  /\ UNCHANGED <<answer, brokerVars, photo, tableVars, exits, replies, faults>>

ExecuteModules(n) ==
  /\ pc[n] = "scan"
  /\ Goto(n, "end")
  /\ UNCHANGED <<answer, brokerVars, cur, photo, tableVars, histVars, replies, faults>>

\* Photographer.run: ActiveMQClient.connect subscribes to the work queue as well.
PhotoConnect(n) ==
  /\ pc[n] = "connect"
  /\ \/ photo' = [photo EXCEPT ![Request(n)] = n] /\ UNCHANGED faults
     \/ Fault /\ UNCHANGED photo
  /\ Goto(n, "shoot")
  /\ UNCHANGED <<answer, brokerVars, cur, tableVars, histVars, replies>>

\* The page could be rendered: send the picture, then disconnect.
PhotoPass(n) ==
  /\ pc[n] = "shoot"
  /\ replies' = IF photo[Request(n)] = n THEN replies \cup {Request(n)} ELSE replies
  /\ photo'   = [photo EXCEPT ![Request(n)] = None]
  /\ Requeue({Request(n)})
  /\ Goto(n, "end")
  /\ UNCHANGED <<answer, inbox, cur, tableVars, histVars, faults>>

\* The page could not be rendered: no picture, and no disconnect either.
PhotoFail(n) ==
  /\ pc[n] = "shoot"
  /\ Goto(n, "end")
  /\ UNCHANGED <<answer, brokerVars, cur, photo, tableVars, histVars, replies, faults>>

\* A mistake: run_scan does not reach update_run_end_time.
UpdateRunEndTimeSkipped(n) ==
  /\ pc[n] = "end"
  /\ BackToLoop(n)
  /\ UNCHANGED <<answer, brokerVars, photo, tableVars, histVars, replies, faults>>

\* run_scan, after execute; an error of the database is only logged.
UpdateRunEndTime(n) ==
  /\ pc[n] = "end"
  /\ \/ db' = [db EXCEPT ![Request(n)] = "ended"] /\ UNCHANGED faults
     \/ Fault /\ UNCHANGED db
  /\ BackToLoop(n)
  /\ UNCHANGED <<answer, brokerVars, photo, info, histVars, replies>>

-----------------------------------------------------------------------------
RestNext ==
  \E r \in Requests : RequestModulesList(r) \/ \E k \in Attempts : PutScan(r, k)

BrokerNext ==
  \/ \E m \in Messages : Expire(m) \/ \E c \in Subs : Dispatch(m, c)
  \/ \E r \in Requests : CollectPhotoConnection(r)
  \/ \E n \in Nodes : LoseConnection(n)
  \/ BrokerRestart

\* What the process of a node does by itself.
RunServer(n) ==
  \/ StartUp(n) \/ (\E m \in Messages : Receive(n, m)) \/ Ack(n)
  \/ SendModulesList(n) \/ CheckRunExists(n) \/ PutRun(n)
  \/ RunScan(n) \/ ExecuteModules(n)
  \/ PhotoConnect(n) \/ PhotoPass(n) \/ PhotoFail(n)
  \/ UpdateRunEndTime(n)

Next == RestNext \/ BrokerNext \/ \E n \in Nodes : RunServer(n) \/ Crash(n)

Spec == Init /\ [][Next]_vars

\* The broker keeps dispatching, a running node keeps running.  No user must
\* submit anything, and nothing makes the garbage collector run.
Fairness ==
  /\ \A m \in Messages : WF_vars(\E c \in Subs : Dispatch(m, c))
  /\ \A n \in Nodes : WF_vars(RunServer(n))

FairSpec == Spec /\ Fairness

-----------------------------------------------------------------------------
TypeOK ==
  /\ answer \in [Requests -> {"none", "retry", "201", "409", "problem"}]
  /\ where \in [Messages -> Places \cup Subs]
  /\ inbox \in [Nodes -> SUBSET Messages]
  /\ pc \in [Nodes -> Phases]
  /\ cur \in [Nodes -> Messages \cup {None}]
  /\ \A n \in Nodes : cur[n] = None <=> pc[n] \in {"down", "deaf", "idle"}
  /\ photo \in [Requests -> Nodes \cup {None}]
  /\ db \in [Requests -> {"none", "row", "ended"}]
  /\ info \in [Requests -> {"none", "full", "stripped"}]
  /\ starts \in [Requests -> Nat]
  /\ exits \in [Requests -> Nat]
  /\ replies \in SUBSET Requests
  /\ faults \in 0..MaxFaults

-----------------------------------------------------------------------------
(* Safety.                                                                 *)

WorkingOn(n, r) == pc[n] \in Working /\ Request(n) = r
Published(r)    == {k \in Attempts : where[<<r, k>>] # "unsent"}

\* A request is executed at most once by all nodes together, whatever is
\* delivered twice (a repeated PUT, a message acknowledged on a connection that
\* had broken): the look-up in save_run2db is stale by the time of the insert,
\* only the primary key of table run decides.
ScannedAtMostOnce == \A r \in Requests : starts[r] <= 1

\* The run that is in to_run and has its row belongs to one node.
OneWorkerPerRun ==
  \A r \in Requests : \A n1, n2 \in Nodes :
    WorkingOn(n1, r) /\ WorkingOn(n2, r) => n1 = n2

\* An end_time in table run says that the modules were executed and that no
\* node is still executing them: a late duplicate never touches a closed row.
EndedMeansScanned ==
  \A r \in Requests : db[r] = "ended" =>
    starts[r] = 1 /\ ~ \E n \in Nodes : WorkingOn(n, r)

\* A row without an end_time that nobody works on (a scan that looks as if it
\* ran forever) is left only by a fault, or by run_scan raising on the modules.
OpenRowHasWorker ==
  \A r \in Requests : db[r] = "row" =>
    (\E n \in Nodes : WorkingOn(n, r)) \/ faults > 0 \/ KindOf[r] = "nomodules"

\* Without a fault no well-formed request disappears although get_run
\* acknowledges before anything is saved: it has a row, a message of it is not
\* acknowledged yet, or a node is between ack and insert.
NoSilentLoss ==
  \A r \in Requests :
    (faults = 0 /\ KindOf[r] \in {"scan", "shot"} /\ Published(r) # {}) =>
      \/ db[r] # "none"
      \/ \E k \in Published(r) : where[<<r, k>>] # "acked"
      \/ \E n \in Nodes : pc[n] \in {"check", "insert"} /\ Request(n) = r

\* Nothing is left of r: no row, the broker has settled what was published (and has
\* not dropped any of it), and no node has r in its socket or its hand.
Vanished(r) ==
  /\ db[r] = "none" /\ Published(r) # {}
  /\ \A k \in Published(r) :
       /\ where[<<r, k>>] \in {"acked"} \cup Nodes
       /\ \A n \in Nodes : <<r, k>> \notin inbox[n]
  /\ \A n \in Nodes : pc[n] \in {"got", "check", "insert"} => Request(n) # r

\* get_run acknowledges before anything is saved, so a crash or an error of the
\* database may cost a request; but never more than the one in the node's hand.
\* Those behind it in the socket come back, whatever has ended the process.
EachFaultLosesOne ==
  Cardinality({r \in Requests :
    KindOf[r] \in {"scan", "shot", "nomodules"} /\ Vanished(r)}) <= faults

\* A request whose target_info kills the process does not kill it again and
\* again in the restart loop of carolined: at most once per message published,
\* and once more per fault.
ExitsAreBounded ==
  \A r \in Requests : exits[r] <= Cardinality(Published(r)) + faults

-----------------------------------------------------------------------------
(* Liveness.                                                               *)

SwallowedBy(r, c) == \E k \in Attempts : where[<<r, k>>] = c

\* A request answered with 201 is scanned and its row closed, unless the
\* subscription of a Photographer connection has taken its message (the
\* handler never reads from it) or a fault has intervened.
AcceptedIsScanned ==
  \A r \in Requests : KindOf[r] \in {"scan", "shot"} =>
    answer[r] = "201" ~> \/ db[r] = "ended" \/ faults > 0
                         \/ \E p \in Requests : SwallowedBy(r, p)

\* A list_modules request waits for the scan in progress and is then answered,
\* under the same exception.
ListIsSent ==
  \A r \in Requests : KindOf[r] = "list" =>
    where[<<r, 1>>] = "queued" ~> \/ r \in replies \/ faults > 0
                                  \/ \E p \in Requests : SwallowedBy(r, p)

\* README.md:21: "kept in a queue until Caroline nodes consume messages from
\* the queue".  Without any fault an accepted request is scanned.
KeptUntilConsumed ==
  \A r \in Requests : KindOf[r] = "scan" => (answer[r] = "201" ~> db[r] = "ended")

\* docs/CHANGELOG.md:68: "Discard credentials of target app"; the comment at
\* runserver.rb:115 says the same of save_run2db.
CredentialsDiscarded == \A r \in Requests : info[r] # "full"

-----------------------------------------------------------------------------
(* The promise kept to the user.                                           *)

JobOf(r) ==
  IF \E n \in Nodes : WorkingOn(n, r) THEN "running"
  ELSE [none  |-> IF Published(r) = {} THEN "new" ELSE "accepted",
        row   |-> "aborted",
        ended |-> "finished"][db[r]]

WorkerOf(r) ==
  IF \E n \in Nodes : WorkingOn(n, r)
  THEN CHOOSE n \in Nodes : WorkingOn(n, r)
  ELSE None

Service == INSTANCE ScanService WITH
  job    <- [r \in Scans |-> JobOf(r)],
  worker <- [r \in Scans |-> WorkerOf(r)]

\* Crashes, repeated PUTs, broken connections and all: the dispatch protocol
\* implements the service.
ImplementsService == Service!Spec

-----------------------------------------------------------------------------
(* The inductive invariant the theorems of ScanDispatchProofs rest on.     *)

\* Executing == the modules are, or have been, executed for the run in to_run.
Executing == Working \ {"start"}

RowOfWorker == \A n \in Nodes : pc[n] \in Working => db[Request(n)] = "row"

StartsMatchRow ==
  /\ \A r \in Requests :
       /\ starts[r] \in {0, 1}
       /\ db[r] = "none" => starts[r] = 0
       /\ db[r] = "ended" => starts[r] = 1
  /\ \A n \in Nodes :
       /\ pc[n] = "start" => starts[Request(n)] = 0
       /\ pc[n] \in Executing => starts[Request(n)] = 1

\* What a node holds was published, and it is no list once it is to be run.
HeldWasPublished ==
  \A n \in Nodes :
    /\ cur[n] # None => where[cur[n]] # "unsent"
    /\ \A m \in inbox[n] : where[m] # "unsent"
    /\ pc[n] \in {"check", "insert"} \cup Working => Request(n) \in Scans

\* A try of put_scan that has not been made has left no message.
AttemptIsFresh ==
  \A r \in Requests, k \in Attempts :
    KindOf[r] # "list" /\ (answer[r] = "none" \/ (answer[r] = "retry" /\ k = 2))
      => where[<<r, k>>] = "unsent"

\* Without faults the broker and the nodes agree on who holds what.
HolderKnown ==
  faults = 0 => \A n \in Nodes :
    /\ pc[n] = "got" => where[cur[n]] = n /\ cur[n] \notin inbox[n]
    /\ \A m \in inbox[n] : where[m] = n

\* NoSilentLoss, message by message.
AckedIsTakenUp ==
  \A r \in Requests, k \in Attempts :
    /\ faults = 0 /\ KindOf[r] \in {"scan", "shot"}
    /\ where[<<r, k>>] = "acked" /\ db[r] = "none"
    => \E n \in Nodes : pc[n] \in {"check", "insert"} /\ Request(n) = r

RunInv  == RowOfWorker /\ OneWorkerPerRun /\ StartsMatchRow
HoldInv == HeldWasPublished /\ AttemptIsFresh /\ HolderKnown /\ AckedIsTakenUp
Inv     == RunInv /\ HoldInv

=============================================================================

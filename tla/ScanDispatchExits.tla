-------------------------- MODULE ScanDispatchExits --------------------------
(***************************************************************************)
(* How often one request can end the processes of the nodes, for any       *)
(* number of nodes, requests and faults: never more often than it was      *)
(* published, and once more per fault.                                     *)
(*                                                                         *)
(* The argument counts the copies of a request that can still be executed: *)
(* those in the queue, those in the socket of a node, and those get_run    *)
(* has received and save_run2db has not inserted yet.  A step that makes a *)
(* second copy out of one is a fault; a step that ends a process uses one  *)
(* up.  The second theorem counts the requests that faults have cost.      *)
(***************************************************************************)
EXTENDS ScanDispatchProofs

USE DispatchAssumption

\* Photographer connections keep what they get, but give it back in the end.
InQueue == {"queued"} \cup Requests

\* A process can hold a request and not have inserted it.
Holding == {"got", "check", "insert"}

IsAt(m, kind, n) ==
  \/ kind = "queue" /\ n = None /\ where[m] \in InQueue
  \/ kind = "inbox" /\ n \in Nodes /\ m \in inbox[n]
  \/ kind = "hand"  /\ n \in Nodes /\ cur[n] = m /\ pc[n] \in Holding

Copy == Messages \X {"queue", "inbox", "hand"} \X (Nodes \cup {None})
Copies(r) == {c \in Copy : c[1][1] = r /\ IsAt(c[1], c[2], c[3])}

\* ExitsAreBounded, with the copies that are left.
Within(r)  == exits[r] + Cardinality(Copies(r)) <= Cardinality(Published(r)) + faults
ExitBudget == \A r \in Requests : Within(r)

\* What the broker waits for n to acknowledge is in n's socket or has been received.
UnackedIsThere ==
  \A n \in Nodes, m \in Messages :
    where[m] = n => m \in inbox[n] \/ (pc[n] = "got" /\ cur[n] = m)

-----------------------------------------------------------------------------
(* Counting.                                                               *)

\* There are finitely many copies, and attempts.
LEMMA CopiesAreFinite ==
  /\ \A r : IsFiniteSet(Copies(r)) /\ Cardinality(Copies(r)) \in Nat
  /\ \A r : IsFiniteSet(Published(r)) /\ Cardinality(Published(r)) \in Nat
  /\ \A r : IsFiniteSet(Copies(r)') /\ Cardinality(Copies(r)') \in Nat
  /\ \A r : IsFiniteSet(Published(r)') /\ Cardinality(Published(r)') \in Nat
<1>1. IsFiniteSet(Attempts)
  BY FS_Interval DEF Attempts
<1>2. IsFiniteSet(Messages)
  BY <1>1, FS_Product DEF Messages
<1> DEFINE Kind == {"queue", "inbox", "hand"}
           Holder == Nodes \cup {None}
<1>3. IsFiniteSet(Kind)
  <2>1. IsFiniteSet({"queue"} \cup {"inbox"})
    BY FS_Singleton, FS_AddElement
  <2>2. IsFiniteSet(({"queue"} \cup {"inbox"}) \cup {"hand"})
    BY <2>1, FS_AddElement
  <2>3. Kind = ({"queue"} \cup {"inbox"}) \cup {"hand"}
    OBVIOUS
  <2>4. QED
    BY <2>2, <2>3
<1>4. IsFiniteSet(Holder)
  BY FS_AddElement
<1> HIDE DEF Kind, Holder
<1>5. IsFiniteSet(Messages \X (Kind \X Holder))
  BY <1>2, <1>3, <1>4, FS_Product
<1>6. IsFiniteSet(Copy)
  <2> DEFINE f == [c \in Copy |-> <<c[1], <<c[2], c[3]>>>>]
  <2>1. f \in Injection(Copy, Messages \X (Kind \X Holder))
    BY DEF Injection, IsInjective, Copy, Kind, Holder
  <2>2. QED
    BY <1>5, <2>1, FS_Injection
<1>7. ASSUME NEW S, S \subseteq Copy \/ S \subseteq Attempts
      PROVE  IsFiniteSet(S) /\ Cardinality(S) \in Nat
  BY <1>1, <1>6, <1>7, FS_Subset, FS_CardinalityType
<1>8. \A r : /\ Copies(r) \subseteq Copy /\ Copies(r)' \subseteq Copy
             /\ Published(r) \subseteq Attempts /\ Published(r)' \subseteq Attempts
  BY DEF Copies, Published
<1>9. QED
  BY <1>7, <1>8

\* Sets with one element more, or one in place of another.
LEMMA CountFacts ==
  ASSUME NEW S, IsFiniteSet(S), NEW T, NEW b
  PROVE  /\ T \subseteq S => Cardinality(T) <= Cardinality(S)
         /\ T \subseteq S \cup {b} => Cardinality(T) <= Cardinality(S) + 1
         /\ \A a \in S : T \subseteq (S \ {a}) \cup {b} => Cardinality(T) <= Cardinality(S)
<1>1. ASSUME NEW U, IsFiniteSet(U)
      PROVE  /\ Cardinality(U) \in Nat
             /\ T \subseteq U => Cardinality(T) <= Cardinality(U)
  BY <1>1, FS_Subset, FS_CardinalityType
<1>2. /\ IsFiniteSet(S \cup {b})
      /\ \/ Cardinality(S \cup {b}) = Cardinality(S)
         \/ Cardinality(S \cup {b}) = Cardinality(S) + 1
  BY FS_AddElement
<1>3. T \subseteq S \cup {b} => Cardinality(T) <= Cardinality(S) + 1
  <2> SUFFICES ASSUME T \subseteq S \cup {b} PROVE Cardinality(T) <= Cardinality(S) + 1
    OBVIOUS
  <2>1. IsFiniteSet(T) /\ Cardinality(T) <= Cardinality(S \cup {b})
    BY <1>2, FS_Subset
  <2>2. /\ Cardinality(T) \in Nat /\ Cardinality(S) \in Nat /\ Cardinality(S \cup {b}) \in Nat
    BY <1>2, <2>1, FS_CardinalityType
  <2>3. QED
    BY <1>2, <2>1, <2>2
<1>4. ASSUME NEW a \in S, T \subseteq (S \ {a}) \cup {b}
      PROVE  Cardinality(T) <= Cardinality(S)
  <2>1. IsFiniteSet(S \ {a}) /\ Cardinality(S \ {a}) = Cardinality(S) - 1
    BY FS_RemoveElement
  <2>2. /\ IsFiniteSet((S \ {a}) \cup {b})
        /\ \/ Cardinality((S \ {a}) \cup {b}) = Cardinality(S \ {a})
           \/ Cardinality((S \ {a}) \cup {b}) = Cardinality(S \ {a}) + 1
    BY <2>1, FS_AddElement
  <2>3. IsFiniteSet(T) /\ Cardinality(T) <= Cardinality((S \ {a}) \cup {b})
    BY <1>4, <2>2, FS_Subset
  <2>4. Cardinality(T) \in Nat /\ Cardinality(S) \in Nat
    BY <2>3, FS_CardinalityType
  <2>5. QED
    BY <2>1, <2>2, <2>3, <2>4
<1>5. QED
  BY <1>1, <1>3, <1>4

\* What is published stays published.
LEMMA PublishedGrows ==
  ASSUME TypeOK, [Next]_vars
  PROVE  \A r \in Requests : Cardinality(Published(r)) <= Cardinality(Published(r)')
<1> SUFFICES ASSUME NEW r \in Requests
             PROVE  Cardinality(Published(r)) <= Cardinality(Published(r)')
  OBVIOUS
<1>1. Published(r) \subseteq Published(r)'
  BY OneWay, MessageFacts DEF Published
<1>2. IsFiniteSet(Published(r)')
  BY CopiesAreFinite
<1>3. QED
  BY <1>1, <1>2, FS_Subset

\* The budget of r after a step that uses no process up.
LEMMA BudgetFrame ==
  ASSUME TypeOK, TypeOK', [Next]_vars, NEW r \in Requests, Within(r), exits'[r] = exits[r],
         \/ faults' >= faults /\ Cardinality(Copies(r)') <= Cardinality(Copies(r))
         \/ faults' = faults + 1 /\ Cardinality(Copies(r)') <= Cardinality(Copies(r)) + 1
  PROVE  Within(r)'
<1> DEFINE C == Cardinality(Copies(r))
           P == Cardinality(Published(r))
           D == Cardinality(Copies(r)')
           Q == Cardinality(Published(r)')
<1>1. C \in Nat /\ P \in Nat /\ D \in Nat /\ Q \in Nat
  BY CopiesAreFinite
<1>2. P <= Q
  BY PublishedGrows
<1>3. exits[r] \in Nat /\ exits'[r] \in Nat /\ faults \in Nat /\ faults' \in Nat
  BY DEF TypeOK
<1>4. exits[r] + C <= P + faults
  BY DEF Within
<1>5. \/ faults' >= faults /\ D <= C
      \/ faults' = faults + 1 /\ D <= C + 1
  OBVIOUS
<1> HIDE DEF C, P, D, Q
<1>6. exits'[r] + D <= Q + faults'
  BY <1>1, <1>2, <1>3, <1>4, <1>5
<1>7. QED
  BY <1>6 DEF Within, D, Q

\* Steps that make no copy.
LEMMA NoNewCopy ==
  ASSUME TypeOK, TypeOK', [Next]_vars, NEW r \in Requests, Within(r),
         exits'[r] = exits[r], faults' >= faults,
         \A m \in Messages : where'[m] \in InQueue => where[m] \in InQueue,
         \A n \in Nodes : /\ inbox'[n] \subseteq inbox[n]
                          /\ pc'[n] \in Holding => pc[n] \in Holding /\ cur'[n] = cur[n]
  PROVE  Within(r)'
<1>1. ASSUME NEW m \in Messages, NEW kind, NEW n, IsAt(m, kind, n)'
      PROVE  IsAt(m, kind, n)
  BY <1>1 DEF IsAt
<1>2. Copies(r)' \subseteq Copies(r)
  BY <1>1 DEF Copies, Copy
<1>3. Cardinality(Copies(r)') <= Cardinality(Copies(r))
  BY <1>2, CopiesAreFinite, CountFacts
<1>4. QED
  BY <1>3, BudgetFrame

-----------------------------------------------------------------------------
(* What the broker waits for is there.                                     *)

\* Only Dispatch makes the broker wait, and what was received is acknowledged first.
LEMMA UnackedStep ==
  ASSUME TypeOK, TypeOK', UnackedIsThere, [Next]_vars
  PROVE  UnackedIsThere'
<1> USE DEF vars, brokerVars, nodeVars, tableVars, histVars
<1>0. /\ Places \cap Nodes = {} /\ Requests \cap Nodes = {}
      /\ \A m \in Messages : where[m] \in Places \cup Subs
  BY DEF TypeOK
<1>1. CASE UNCHANGED vars
  BY <1>1 DEF UnackedIsThere
<1>2. CASE RestNext
  <2>1. UNCHANGED <<inbox, pc, cur>>
    BY <1>2 DEF RestNext, PutScan, RequestModulesList
  <2>2. where' = where \/ \E m \in Messages : where' = [where EXCEPT ![m] = "queued"]
    BY <1>2, MessageFacts DEF RestNext, PutScan, RequestModulesList
  <2>3. \A n \in Nodes, m \in Messages : where'[m] = n => where[m] = n
    BY <1>0, <2>2 DEF Places, TypeOK
  <2>4. QED
    BY <2>1, <2>3 DEF UnackedIsThere
<1>3. ASSUME NEW m \in Messages, NEW c \in Subs, Dispatch(m, c) PROVE UnackedIsThere'
  <2>1. /\ where' = [where EXCEPT ![m] = c] /\ UNCHANGED <<pc, cur>>
        /\ inbox' = IF c \in Nodes THEN [inbox EXCEPT ![c] = @ \cup {m}] ELSE inbox
    BY <1>3 DEF Dispatch
  <2>2. \A n \in Nodes : inbox[n] \subseteq inbox'[n] /\ (n = c => m \in inbox'[n])
    BY <2>1 DEF TypeOK
  <2>3. \A n \in Nodes, i \in Messages : where'[i] = n => where[i] = n \/ (i = m /\ n = c)
    BY <2>1 DEF TypeOK
  <2>4. QED
    BY <2>1, <2>2, <2>3 DEF UnackedIsThere
<1>4. ASSUME NEW m \in Messages, Expire(m) PROVE UnackedIsThere'
  <2>1. \A n \in Nodes, i \in Messages : where'[i] = n => where[i] = n
    BY <1>0, <1>4 DEF Expire, Places, TypeOK
  <2>2. QED
    BY <1>4, <2>1 DEF Expire, UnackedIsThere
<1>5. CASE BrokerRestart
  <2>1. \A n \in Nodes, i \in Messages : where'[i] # n
    BY <1>0, <1>5 DEF BrokerRestart, Places
  <2>2. QED
    BY <2>1 DEF UnackedIsThere
<1>6. ASSUME NEW S, Requeue(S)
      PROVE  \A n \in Nodes, i \in Messages : where'[i] = n => where[i] = n /\ n \notin S
  BY <1>0, <1>6 DEF Requeue, Places
<1>7. ASSUME NEW n \in Nodes, LoseConnection(n) PROVE UnackedIsThere'
  <2>1. /\ Requeue({n}) /\ inbox' = [inbox EXCEPT ![n] = {}] /\ UNCHANGED <<pc, cur>>
    BY <1>7 DEF LoseConnection
  <2>2. \A i \in Nodes, m \in Messages : where'[m] = i => where[m] = i /\ i # n
    BY <1>6, <2>1
  <2>3. \A i \in Nodes \ {n} : inbox'[i] = inbox[i]
    BY <2>1 DEF TypeOK
  <2>4. QED
    BY <2>1, <2>2, <2>3 DEF UnackedIsThere
<1>8. ASSUME NEW r \in Requests, CollectPhotoConnection(r) PROVE UnackedIsThere'
  <2>1. Requeue({r}) /\ UNCHANGED <<inbox, pc, cur>>
    BY <1>8 DEF CollectPhotoConnection
  <2>2. QED
    BY <1>6, <2>1 DEF UnackedIsThere
<1>9. ASSUME NEW n \in Nodes, Exit(n) PROVE UnackedIsThere'
  <2>1. \A i \in Nodes, m \in Messages : where'[m] = i => where[m] = i /\ i # n
    BY <1>6, <1>9 DEF Exit
  <2>2. \A i \in Nodes \ {n} : inbox'[i] = inbox[i] /\ pc'[i] = pc[i] /\ cur'[i] = cur[i]
    BY <1>9 DEF Exit, Goto, TypeOK
  <2>3. QED
    BY <2>1, <2>2 DEF UnackedIsThere
<1>10. ASSUME NEW n \in Nodes, RunServer(n) PROVE UnackedIsThere'
  <2> USE DEF Goto, BackToLoop
  <2>1. ASSUME NEW m \in Messages, Receive(n, m) PROVE UnackedIsThere'
    <3>1. /\ where' = where /\ pc[n] = "idle" /\ pc'[n] = "got" /\ cur'[n] = m
          /\ inbox'[n] = inbox[n] \ {m}
          /\ \A i \in Nodes \ {n} : inbox'[i] = inbox[i] /\ pc'[i] = pc[i] /\ cur'[i] = cur[i]
      BY <2>1 DEF Receive, TypeOK
    <3>2. QED
      BY <3>1 DEF UnackedIsThere
  <2>2. CASE Ack(n)
    <3>1. /\ pc[n] = "got" /\ cur[n] \in Messages /\ inbox' = inbox /\ cur' = cur
          /\ \A i \in Nodes \ {n} : pc'[i] = pc[i]
      BY <2>2, CurIsMessage DEF Ack, TypeOK
    <3>2. \A i \in Nodes, m \in Messages : where'[m] = i => where[m] = i /\ (i = n => m # cur[n])
      BY <1>0, <2>2, <3>1 DEF Ack, Places, TypeOK
    <3>3. QED
      BY <3>1, <3>2 DEF UnackedIsThere
  <2>3. CASE PhotoPass(n)
    <3>1. Requeue({Request(n)}) /\ UNCHANGED <<inbox, cur>> /\ pc[n] = "shoot"
          /\ \A i \in Nodes \ {n} : pc'[i] = pc[i]
      BY <2>3 DEF PhotoPass, TypeOK
    <3>2. QED
      BY <1>6, <3>1 DEF UnackedIsThere
  <2>4. CASE PutRun(n)
    <3>1. CASE Exit(n)
      BY <1>9, <3>1
    <3>2. CASE ~Exit(n)
      <4>1. UNCHANGED <<where, inbox>> /\ pc[n] = "insert"
            /\ \A i \in Nodes \ {n} : pc'[i] = pc[i] /\ cur'[i] = cur[i]
        BY <2>4, <3>2 DEF PutRun, TypeOK
      <4>2. QED
        BY <4>1 DEF UnackedIsThere
    <3>3. QED
      BY <3>1, <3>2
  <2>5. CASE \/ StartUp(n) \/ SendModulesList(n) \/ CheckRunExists(n) \/ RunScan(n)
             \/ ExecuteModules(n) \/ PhotoConnect(n) \/ PhotoFail(n) \/ UpdateRunEndTime(n)
    <3>1. UNCHANGED <<where, inbox>> /\ pc[n] # "got"
          /\ \A i \in Nodes \ {n} : pc'[i] = pc[i] /\ cur'[i] = cur[i]
      BY <2>5 DEF StartUp, SendModulesList, CheckRunExists, RunScan, ExecuteModules, PhotoConnect,
                  PhotoFail, UpdateRunEndTime, TypeOK
    <3>2. QED
      BY <3>1 DEF UnackedIsThere
  <2>6. QED
    BY <1>10, <2>1, <2>2, <2>3, <2>4, <2>5 DEF RunServer
<1>11. QED
  BY <1>1, <1>2, <1>3, <1>4, <1>5, <1>7, <1>8, <1>9, <1>10 DEF Next, BrokerNext, Crash

-----------------------------------------------------------------------------
(* Steps that move a copy, or publish one.                                 *)

\* A message is sent to a node.
LEMMA DispatchBudget ==
  ASSUME TypeOK, TypeOK', [Next]_vars, NEW r \in Requests, Within(r),
         NEW m \in Messages, NEW c \in Subs, Dispatch(m, c)
  PROVE  Within(r)'
<1>1. /\ where[m] = "queued" /\ where' = [where EXCEPT ![m] = c]
      /\ UNCHANGED <<pc, cur, exits, faults>>
      /\ inbox' = IF c \in Nodes THEN [inbox EXCEPT ![c] = @ \cup {m}] ELSE inbox
  BY DEF Dispatch, nodeVars, histVars
<1>2. CASE c \in Requests
  <2>1. inbox' = inbox
    BY <1>1, <1>2
  <2>2. \A i \in Messages : where'[i] \in InQueue => where[i] \in InQueue
    BY <1>1 DEF InQueue, TypeOK
  <2>3. faults \in Nat
    BY DEF TypeOK
  <2>4. QED
    BY <1>1, <2>1, <2>2, <2>3, NoNewCopy
<1>3. CASE c \in Nodes
  <2> DEFINE a == <<m, "queue", None>>
             b == <<m, "inbox", c>>
  <2>1. c \notin InQueue
    BY <1>3 DEF InQueue, Places
  <2>2. ASSUME NEW i \in Messages, NEW kind, NEW n, IsAt(i, kind, n)'
        PROVE  (IsAt(i, kind, n) /\ <<i, kind, n>> # a) \/ <<i, kind, n>> = b
    BY <1>1, <1>3, <2>1, <2>2 DEF IsAt, TypeOK
  <2>3. Copies(r)' \subseteq (Copies(r) \ {a}) \cup {b}
    BY <2>2 DEF Copies, Copy
  <2>4. a \notin Copies(r) => b \notin Copies(r)'
    BY <1>1 DEF Copies, Copy, IsAt, InQueue
  <2>5. Cardinality(Copies(r)') <= Cardinality(Copies(r))
    <3>1. CASE a \in Copies(r)
      BY <2>3, <3>1, CopiesAreFinite, CountFacts
    <3>2. CASE a \notin Copies(r)
      <4>1. Copies(r)' \subseteq Copies(r)
        BY <2>3, <2>4, <3>2
      <4>2. QED
        BY <4>1, CopiesAreFinite, CountFacts
    <3>3. QED
      BY <3>1, <3>2
  <2>6. faults' >= faults
    BY <1>1 DEF TypeOK
  <2>7. QED
    BY <1>1, <2>5, <2>6, BudgetFrame
<1>4. QED
  BY <1>2, <1>3 DEF Subs

\* get_run takes a message out of the socket.
LEMMA ReceiveBudget ==
  ASSUME TypeOK, TypeOK', [Next]_vars, NEW r \in Requests, Within(r),
         NEW n \in Nodes, NEW m \in Messages, Receive(n, m)
  PROVE  Within(r)'
<1> DEFINE a == <<m, "inbox", n>>
           b == <<m, "hand", n>>
<1>1. /\ m \in inbox[n] /\ pc' = [pc EXCEPT ![n] = "got"] /\ cur' = [cur EXCEPT ![n] = m]
      /\ inbox' = [inbox EXCEPT ![n] = @ \ {m}] /\ UNCHANGED <<where, exits, faults>>
  BY DEF Receive, Goto, histVars
<1>2. ASSUME NEW i \in Messages, NEW kind, NEW p, IsAt(i, kind, p)'
      PROVE  (IsAt(i, kind, p) /\ <<i, kind, p>> # a) \/ <<i, kind, p>> = b
  BY <1>1, <1>2 DEF IsAt, TypeOK
<1>3. Copies(r)' \subseteq (Copies(r) \ {a}) \cup {b}
  BY <1>2 DEF Copies, Copy
<1>4. a \notin Copies(r) => b \notin Copies(r)'
  BY <1>1 DEF Copies, Copy, IsAt
<1>5. Cardinality(Copies(r)') <= Cardinality(Copies(r))
  <2>1. CASE a \in Copies(r)
    BY <1>3, <2>1, CopiesAreFinite, CountFacts
  <2>2. CASE a \notin Copies(r)
    <3>1. Copies(r)' \subseteq Copies(r)
      BY <1>3, <1>4, <2>2
    <3>2. QED
      BY <3>1, CopiesAreFinite, CountFacts
  <2>3. QED
    BY <2>1, <2>2
<1>6. faults' >= faults
  BY <1>1 DEF TypeOK
<1>7. QED
  BY <1>1, <1>5, <1>6, BudgetFrame

\* A new copy is a new message.
LEMMA PublishBudget ==
  ASSUME TypeOK, TypeOK', [Next]_vars, NEW r \in Requests, Within(r),
         NEW q \in Requests, NEW k \in Attempts, where[<<q, k>>] = "unsent",
         where' = [where EXCEPT ![<<q, k>>] = "queued"],
         UNCHANGED <<inbox, pc, cur, exits, faults>>
  PROVE  Within(r)'
<1> DEFINE m == <<q, k>>
           b == <<m, "queue", None>>
<1>1. m \in Messages
  BY MessageFacts
<1>2. \A i \in Messages : i # m => where'[i] = where[i]
  BY DEF TypeOK
<1>3. ASSUME NEW i \in Messages, NEW kind, NEW n, IsAt(i, kind, n)'
      PROVE  IsAt(i, kind, n) \/ <<i, kind, n>> = b
  BY <1>2, <1>3 DEF IsAt
<1>4. CASE q # r
  <2>1. \A i \in Messages, kind \in {"queue", "inbox", "hand"}, n \in Nodes \cup {None} :
          i[1] = r => <<i, kind, n>> # b
    BY <1>4
  <2>2. Copies(r)' \subseteq Copies(r)
    BY <1>3, <2>1 DEF Copies, Copy
  <2>3. Cardinality(Copies(r)') <= Cardinality(Copies(r))
    BY <2>2, CopiesAreFinite, CountFacts
  <2>4. faults' >= faults
    BY DEF TypeOK
  <2>5. QED
    BY <2>3, <2>4, BudgetFrame
<1>5. CASE q = r
  <2>1. Copies(r)' \subseteq Copies(r) \cup {b}
    BY <1>3 DEF Copies, Copy
  <2>2. Cardinality(Copies(r)') <= Cardinality(Copies(r)) + 1
    BY <2>1, CopiesAreFinite, CountFacts
  <2>3. k \notin Published(r) /\ Published(r) \cup {k} \subseteq Published(r)'
    <3>1. where'[m] = "queued"
      BY <1>1 DEF TypeOK
    <3>2. \A j \in Attempts : where[<<r, j>>] # "unsent" => where'[<<r, j>>] # "unsent"
      BY MessageFacts, OneWay
    <3>3. QED
      BY <1>5, <3>1, <3>2 DEF Published
  <2>4. Cardinality(Published(r)') >= Cardinality(Published(r)) + 1
    <3>1. /\ IsFiniteSet(Published(r)) /\ IsFiniteSet(Published(r)')
          /\ Cardinality(Published(r)) \in Nat
      BY CopiesAreFinite
    <3>2. Cardinality(Published(r) \cup {k}) = Cardinality(Published(r)) + 1
      BY <2>3, <3>1, FS_AddElement
    <3>3. Cardinality(Published(r) \cup {k}) <= Cardinality(Published(r)')
      BY <2>3, <3>1, FS_Subset
    <3>4. QED
      BY <3>2, <3>3
  <2>5. QED
    <3> DEFINE C == Cardinality(Copies(r))
               P == Cardinality(Published(r))
               D == Cardinality(Copies(r)')
               Q == Cardinality(Published(r)')
    <3>1. C \in Nat /\ P \in Nat /\ D \in Nat /\ Q \in Nat
      BY CopiesAreFinite
    <3>2. exits[r] \in Nat /\ faults \in Nat
      BY DEF TypeOK
    <3>3. exits[r] + C <= P + faults
      BY DEF Within
    <3>4. D <= C + 1 /\ Q >= P + 1
      BY <2>2, <2>4
    <3> HIDE DEF C, P, D, Q
    <3>5. exits[r] + D <= Q + faults
      BY <3>1, <3>2, <3>3, <3>4
    <3>6. QED
      BY <3>5 DEF Within, D, Q
<1>6. QED
  BY <1>4, <1>5

-----------------------------------------------------------------------------
(* Steps in which a connection ends, and messages go back.                 *)

\* The node goes on with what it has received: that is the one copy too many.
LEMMA LoseBudget ==
  ASSUME TypeOK, TypeOK', UnackedIsThere, [Next]_vars, NEW r \in Requests, Within(r),
         NEW n \in Nodes, LoseConnection(n)
  PROVE  Within(r)'
<1> DEFINE extra == <<cur[n], "queue", None>>
           D == Copies(r)' \ {extra}
           f == [c \in D |-> IF c[2] = "queue" /\ where[c[1]] = n THEN <<c[1], "inbox", n>> ELSE c]
<1>1. /\ faults' = faults + 1 /\ UNCHANGED <<pc, cur, exits>> /\ inbox' = [inbox EXCEPT ![n] = {}]
      /\ where' = [m \in Messages |-> IF where[m] \in {n} THEN "queued" ELSE where[m]]
  BY DEF LoseConnection, Fault, Requeue, nodeVars, histVars
<1>2. \A c \in D : /\ c \in Copy /\ c[1] \in Messages /\ c[1][1] = r
                   /\ c = <<c[1], c[2], c[3]>> /\ IsAt(c[1], c[2], c[3])'
  BY DEF Copies, Copy
<1>3. ASSUME NEW c \in D, c[2] = "queue", where[c[1]] = n
      PROVE  <<c[1], "inbox", n>> \in Copies(r) /\ c[3] = None
  <2>1. c[3] = None
    BY <1>2, <1>3 DEF IsAt
  <2>2. c[1] # cur[n]
    BY <1>2, <1>3, <2>1
  <2>3. c[1] \in inbox[n]
    BY <1>2, <1>3, <2>2 DEF UnackedIsThere
  <2>4. QED
    BY <1>2, <2>1, <2>3 DEF Copies, Copy, IsAt
<1>4. ASSUME NEW c \in D, ~(c[2] = "queue" /\ where[c[1]] = n)
      PROVE  c \in Copies(r) /\ ~(c[2] = "inbox" /\ c[3] = n)
  <2>1. IsAt(c[1], c[2], c[3])
    BY <1>1, <1>2, <1>4 DEF IsAt, TypeOK
  <2>2. ~(c[2] = "inbox" /\ c[3] = n)
    BY <1>1, <1>2 DEF IsAt, TypeOK
  <2>3. QED
    BY <1>2, <2>1, <2>2 DEF Copies
<1> HIDE DEF D
<1>5. f \in Injection(D, Copies(r))
  <2>1. f \in [D -> Copies(r)]
    BY <1>3, <1>4
  <2>2. ASSUME NEW c \in D, NEW d \in D, f[c] = f[d] PROVE c = d
    <3>1. CASE (c[2] = "queue" /\ where[c[1]] = n) /\ (d[2] = "queue" /\ where[d[1]] = n)
      <4>1. c[1] = d[1] /\ c[3] = None /\ d[3] = None
        BY <1>3, <2>2, <3>1
      <4>2. QED
        BY <1>2, <3>1, <4>1
    <3>2. CASE ~(c[2] = "queue" /\ where[c[1]] = n) /\ ~(d[2] = "queue" /\ where[d[1]] = n)
      BY <2>2, <3>2
    <3>3. CASE (c[2] = "queue" /\ where[c[1]] = n) /\ ~(d[2] = "queue" /\ where[d[1]] = n)
      BY <1>4, <2>2, <3>3
    <3>4. CASE ~(c[2] = "queue" /\ where[c[1]] = n) /\ (d[2] = "queue" /\ where[d[1]] = n)
      BY <1>4, <2>2, <3>4
    <3>5. QED
      BY <3>1, <3>2, <3>3, <3>4
  <2>3. QED
    BY <2>1, <2>2 DEF Injection, IsInjective
<1>6. IsFiniteSet(D) /\ Cardinality(D) <= Cardinality(Copies(r))
  BY <1>5, CopiesAreFinite, FS_Injection
<1>7. Cardinality(Copies(r)') <= Cardinality(Copies(r)) + 1
  <2>1. Copies(r)' \subseteq D \cup {extra}
    BY DEF D
  <2>2. Cardinality(Copies(r)') <= Cardinality(D) + 1
    BY <1>6, <2>1, CountFacts
  <2>3. Cardinality(D) \in Nat /\ Cardinality(Copies(r)) \in Nat /\ Cardinality(Copies(r)') \in Nat
    BY <1>6, CopiesAreFinite, FS_CardinalityType
  <2>4. QED
    BY <1>6, <2>2, <2>3
<1>8. QED
  BY <1>1, <1>7, BudgetFrame

\* A process ends: a copy it has received is back in the queue, or gone if it had been
\* acknowledged.
LEMMA ExitCopies ==
  ASSUME TypeOK, TypeOK', UnackedIsThere, NEW r \in Requests, NEW n \in Nodes, Exit(n),
         NEW used, used = {} \/ (used = {<<cur[n], "hand", n>>} /\ pc[n] # "got")
  PROVE  Cardinality(Copies(r)') <= Cardinality(Copies(r) \ used)
<1> DEFINE D == Copies(r)'
           Back(c) == c[2] = "queue" /\ where[c[1]] = n
           f == [c \in D |-> IF Back(c)
                             THEN IF c[1] \in inbox[n] THEN <<c[1], "inbox", n>> ELSE <<c[1], "hand", n>>
                             ELSE c]
<1>1. /\ pc' = [pc EXCEPT ![n] = "down"] /\ cur' = [cur EXCEPT ![n] = None]
      /\ inbox' = [inbox EXCEPT ![n] = {}]
      /\ where' = [m \in Messages |-> IF where[m] \in {n} \cup PhotosOf(n) THEN "queued" ELSE where[m]]
      /\ PhotosOf(n) \subseteq Requests
  BY DEF Exit, Goto, Requeue, PhotosOf
<1>2. \A c \in D : /\ c \in Copy /\ c[1] \in Messages /\ c[1][1] = r
                   /\ c = <<c[1], c[2], c[3]>> /\ IsAt(c[1], c[2], c[3])'
  BY DEF Copies, Copy
<1>3. ASSUME NEW c \in D, Back(c)
      PROVE  /\ f[c] \in Copies(r) \ used /\ f[c][1] = c[1] /\ f[c][3] = n
             /\ c = <<c[1], "queue", None>>
  <2>1. c[3] = None
    BY <1>2, <1>3 DEF IsAt
  <2>2. CASE c[1] \in inbox[n]
    BY <1>2, <1>3, <2>1, <2>2 DEF Copies, Copy, IsAt
  <2>3. CASE c[1] \notin inbox[n]
    <3>1. pc[n] = "got" /\ cur[n] = c[1]
      BY <1>2, <1>3, <2>3 DEF UnackedIsThere
    <3>2. used = {}
      BY <3>1
    <3>3. <<c[1], "hand", n>> \in Copies(r)
      BY <1>2, <3>1 DEF Copies, Copy, IsAt, Holding
    <3>4. QED
      BY <1>2, <1>3, <2>1, <2>3, <3>2, <3>3
  <2>4. QED
    BY <2>2, <2>3
<1>4. ASSUME NEW c \in D, ~Back(c)
      PROVE  f[c] = c /\ c \in Copies(r) \ used /\ c[3] # n
  <2>1. c[3] # n
    <3>1. inbox'[n] = {} /\ pc'[n] \notin Holding /\ n # None
      BY <1>1 DEF Holding, TypeOK
    <3>2. IsAt(c[1], c[2], c[3])'
      BY <1>2
    <3>3. QED
      BY <3>1, <3>2 DEF IsAt
  <2>2. IsAt(c[1], c[2], c[3])
    BY <1>1, <1>2, <1>4, <2>1 DEF IsAt, InQueue, TypeOK
  <2>3. c \notin used
    BY <2>1
  <2>4. QED
    BY <1>2, <1>4, <2>1, <2>2, <2>3 DEF Copies
<1>5. f \in Injection(D, Copies(r) \ used)
  <2>1. \A c \in D : f[c] \in Copies(r) \ used
    BY <1>3, <1>4
  <2>2. ASSUME NEW c \in D, NEW d \in D, f[c] = f[d] PROVE c = d
    <3> HIDE DEF f, Back, D
    <3>1. CASE Back(c) /\ Back(d)
      BY <1>3, <2>2, <3>1
    <3>2. CASE ~Back(c) /\ ~Back(d)
      BY <1>4, <2>2, <3>2
    <3>3. CASE Back(c) /\ ~Back(d)
      BY <1>3, <1>4, <2>2, <3>3
    <3>4. CASE ~Back(c) /\ Back(d)
      BY <1>3, <1>4, <2>2, <3>4
    <3>5. QED
      BY <3>1, <3>2, <3>3, <3>4
  <2>3. f \in [D -> Copies(r) \ used] /\ DOMAIN f = D
    BY <2>1
  <2> HIDE DEF f, D
  <2>4. QED
    BY <2>2, <2>3 DEF Injection, IsInjective
<1>6. IsFiniteSet(Copies(r) \ used)
  BY CopiesAreFinite, FS_Subset
<1>7. QED
  BY <1>5, <1>6, FS_Injection

-----------------------------------------------------------------------------
\* Every step of the nodes, the broker and the users stays within the budget.
LEMMA BudgetStep ==
  ASSUME TypeOK, TypeOK', UnackedIsThere, HoldInv, ExitBudget, [Next]_vars
  PROVE  ExitBudget'
<1> USE DEF vars, brokerVars, nodeVars, tableVars, histVars
<1> SUFFICES ASSUME NEW r \in Requests PROVE Within(r)'
  BY DEF ExitBudget
<1>0. Within(r) /\ faults \in Nat
  BY DEF ExitBudget, TypeOK
<1>1. CASE UNCHANGED vars
  BY <1>0, <1>1, NoNewCopy
<1>2. ASSUME NEW q \in Requests, NEW k \in Attempts, PutScan(q, k) PROVE Within(r)'
  <2>1. CASE where' = where
    BY <1>0, <1>2, <2>1, NoNewCopy DEF PutScan
  <2>2. CASE where' = [where EXCEPT ![<<q, k>>] = "queued"]
    <3>1. k = 1 \/ k = 2
      BY MessageFacts
    <3>2. where[<<q, k>>] = "unsent"
      BY <1>2, <3>1 DEF PutScan, HoldInv, AttemptIsFresh
    <3>3. QED
      BY <1>0, <1>2, <2>2, <3>2, PublishBudget DEF PutScan
  <2>3. QED
    BY <1>2, <2>1, <2>2 DEF PutScan
<1>3. ASSUME NEW q \in Requests, RequestModulesList(q) PROVE Within(r)'
  BY <1>0, <1>3, MessageFacts, PublishBudget DEF RequestModulesList
<1>4. ASSUME NEW m \in Messages, NEW c \in Subs, Dispatch(m, c) PROVE Within(r)'
  BY <1>0, <1>4, DispatchBudget
<1>5. ASSUME NEW m \in Messages, Expire(m) PROVE Within(r)'
  <2>1. \A i \in Messages : where'[i] \in InQueue => where[i] \in InQueue
    BY <1>5 DEF Expire, InQueue, Places, TypeOK
  <2>2. faults' >= faults /\ UNCHANGED <<inbox, pc, cur, exits>>
    BY <1>0, <1>5 DEF Expire, Fault
  <2>3. QED
    BY <1>0, <2>1, <2>2, NoNewCopy
<1>6. ASSUME NEW S, S \subseteq Requests, Requeue(S)
      PROVE  \A i \in Messages : where'[i] \in InQueue => where[i] \in InQueue
  BY <1>6 DEF Requeue, InQueue
<1>7. ASSUME NEW q \in Requests, CollectPhotoConnection(q) PROVE Within(r)'
  <2>1. Requeue({q}) /\ UNCHANGED <<inbox, pc, cur, exits, faults>>
    BY <1>7 DEF CollectPhotoConnection
  <2>2. \A i \in Messages : where'[i] \in InQueue => where[i] \in InQueue
    BY <1>6, <2>1
  <2>3. faults' >= faults
    BY <1>0, <2>1
  <2>4. QED
    BY <1>0, <2>1, <2>2, <2>3, NoNewCopy
<1>8. ASSUME NEW n \in Nodes, LoseConnection(n) PROVE Within(r)'
  BY <1>0, <1>8, LoseBudget
<1>9. CASE BrokerRestart
  <2>1. \A i \in Messages : where'[i] \in InQueue => where[i] \in InQueue
    BY <1>9 DEF BrokerRestart, InQueue, Places
  <2>2. \A n \in Nodes : inbox'[n] \subseteq inbox[n]
    BY <1>9 DEF BrokerRestart
  <2>3. faults' >= faults /\ UNCHANGED <<pc, cur, exits>>
    BY <1>0, <1>9 DEF BrokerRestart, Fault
  <2>4. QED
    BY <1>0, <2>1, <2>2, <2>3, NoNewCopy
<1>10. ASSUME NEW n \in Nodes, Exit(n), faults' >= faults, exits'[r] = exits[r] PROVE Within(r)'
  <2>1. Copies(r) \ {} = Copies(r)
    OBVIOUS
  <2>2. Cardinality(Copies(r)') <= Cardinality(Copies(r))
    BY <1>10, <2>1, ExitCopies
  <2>3. QED
    BY <1>0, <1>10, <2>2, BudgetFrame
<1>11. ASSUME NEW n \in Nodes, Crash(n) PROVE Within(r)'
  BY <1>0, <1>10, <1>11 DEF Crash, Fault
<1>12. ASSUME NEW n \in Nodes, PutRun(n), Exit(n) PROVE Within(r)'
  <2>1. pc[n] = "insert" /\ Request(n) \in Requests /\ cur[n] \in Messages
    BY <1>12, CurIsMessage DEF PutRun
  <2>2. /\ faults' = faults /\ exits' = [exits EXCEPT ![Request(n)] = @ + 1]
    BY <1>12, <2>1 DEF PutRun, Exit, BackToLoop, Goto, TypeOK
  <2>3. CASE Request(n) # r
    BY <1>0, <1>10, <1>12, <2>1, <2>2, <2>3 DEF TypeOK
  <2>4. CASE Request(n) = r
    <3> DEFINE hand == <<cur[n], "hand", n>>
    <3>1. hand \in Copies(r)
      BY <2>1, <2>4 DEF Copies, Copy, IsAt, Holding, Request
    <3>2. Cardinality(Copies(r)') <= Cardinality(Copies(r) \ {hand})
      BY <1>12, <2>1, ExitCopies
    <3>3. Cardinality(Copies(r) \ {hand}) = Cardinality(Copies(r)) - 1
      BY <3>1, CopiesAreFinite, FS_RemoveElement
    <3>4. exits'[r] = exits[r] + 1 /\ exits[r] \in Nat
      BY <2>2, <2>4 DEF TypeOK
    <3>5. Cardinality(Published(r)) <= Cardinality(Published(r)')
      BY PublishedGrows
    <3>6. QED
      <4> DEFINE C == Cardinality(Copies(r))
                 P == Cardinality(Published(r))
                 D == Cardinality(Copies(r)')
                 Q == Cardinality(Published(r)')
      <4>1. C \in Nat /\ P \in Nat /\ D \in Nat /\ Q \in Nat
        BY CopiesAreFinite
      <4>2. exits[r] + C <= P + faults
        BY <1>0 DEF Within
      <4>3. D <= C - 1 /\ P <= Q
        BY <3>2, <3>3, <3>5
      <4> HIDE DEF C, P, D, Q
      <4>4. exits'[r] + D <= Q + faults'
        BY <1>0, <2>2, <3>4, <4>1, <4>2, <4>3
      <4>5. QED
        BY <4>4 DEF Within, D, Q
  <2>5. QED
    BY <2>3, <2>4
<1>13. ASSUME NEW n \in Nodes, RunServer(n) PROVE Within(r)'
  <2> USE DEF Goto, BackToLoop
  <2>1. ASSUME NEW m \in Messages, Receive(n, m) PROVE Within(r)'
    BY <1>0, <2>1, ReceiveBudget
  <2>2. CASE PutRun(n)
    <3>1. CASE Exit(n)
      BY <1>12, <2>2, <3>1
    <3>2. CASE ~Exit(n)
      <4>1. UNCHANGED <<where, inbox, exits>> /\ faults' >= faults
        BY <1>0, <2>2, <3>2 DEF PutRun, Fault
      <4>2. \A i \in Nodes : pc'[i] \in Holding => pc[i] \in Holding /\ cur'[i] = cur[i]
        BY <2>2, <3>2 DEF PutRun, Holding, TypeOK
      <4>3. QED
        BY <1>0, <4>1, <4>2, NoNewCopy
    <3>3. QED
      BY <3>1, <3>2
  <2>3. CASE Ack(n) \/ PhotoPass(n)
    <3>1. UNCHANGED <<inbox, cur, exits, faults>>
      BY <2>3 DEF Ack, PhotoPass
    <3>2. \A i \in Messages : where'[i] \in InQueue => where[i] \in InQueue
      <4>1. CASE Ack(n)
        BY <4>1 DEF Ack, InQueue, Places, TypeOK
      <4>2. CASE PhotoPass(n)
        BY <1>6, <4>2, CurIsMessage DEF PhotoPass
      <4>3. QED
        BY <2>3, <4>1, <4>2
    <3>3. \A i \in Nodes : pc'[i] \in Holding => pc[i] \in Holding
      BY <2>3 DEF Ack, PhotoPass, Holding, TypeOK
    <3>4. faults' >= faults
      BY <1>0, <3>1
    <3>5. QED
      BY <1>0, <3>1, <3>2, <3>3, <3>4, NoNewCopy
  <2>4. CASE \/ StartUp(n) \/ SendModulesList(n) \/ CheckRunExists(n) \/ RunScan(n)
             \/ ExecuteModules(n) \/ PhotoConnect(n) \/ PhotoFail(n) \/ UpdateRunEndTime(n)
    <3>1. UNCHANGED <<where, inbox, exits>> /\ faults' >= faults
      BY <1>0, <2>4 DEF StartUp, SendModulesList, CheckRunExists, RunScan, ExecuteModules,
                        PhotoConnect, PhotoFail, UpdateRunEndTime, Fault
    <3>2. \A i \in Nodes : pc'[i] \in Holding => pc[i] \in Holding /\ cur'[i] = cur[i]
      BY <2>4 DEF StartUp, SendModulesList, CheckRunExists, RunScan, ExecuteModules,
                  PhotoConnect, PhotoFail, UpdateRunEndTime, Holding, TypeOK
    <3>3. QED
      BY <1>0, <3>1, <3>2, NoNewCopy
  <2>5. QED
    BY <1>13, <2>1, <2>2, <2>3, <2>4 DEF RunServer
<1>14. QED
  BY <1>1, <1>2, <1>3, <1>4, <1>5, <1>7, <1>8, <1>9, <1>11, <1>13
     DEF Next, RestNext, BrokerNext

\* A request that makes save_run2db raise does not keep the restart loop of
\* carolined going: it ends at most one process per message published and per fault.
THEOREM ExitsBounded == Spec => []ExitsAreBounded
<1>1. Init => UnackedIsThere /\ ExitBudget
  <2> SUFFICES ASSUME Init PROVE UnackedIsThere /\ ExitBudget
    OBVIOUS
  <2>1. UnackedIsThere
    BY DEF Init, UnackedIsThere, Places
  <2>2. ASSUME NEW r \in Requests PROVE Within(r)
    <3>1. ASSUME NEW m \in Messages, NEW kind, NEW n PROVE ~IsAt(m, kind, n)
      BY DEF Init, IsAt, InQueue, Holding, Places
    <3>2. Copies(r) = {}
      BY <3>1 DEF Copies, Copy
    <3>3. Cardinality(Copies(r)) = 0
      BY <3>2, FS_EmptySet
    <3>4. Cardinality(Published(r)) \in Nat
      BY CopiesAreFinite
    <3>5. exits[r] = 0 /\ faults = 0
      BY DEF Init
    <3>6. QED
      BY <3>3, <3>4, <3>5 DEF Within
  <2>3. QED
    BY <2>1, <2>2 DEF ExitBudget
<1>2. TypeOK /\ TypeOK' /\ HoldInv /\ UnackedIsThere /\ ExitBudget /\ [Next]_vars
        => UnackedIsThere' /\ ExitBudget'
  BY UnackedStep, BudgetStep
<1>3. TypeOK /\ ExitBudget => ExitsAreBounded
  <2> SUFFICES ASSUME TypeOK, ExitBudget, NEW r \in Requests
               PROVE  exits[r] <= Cardinality(Published(r)) + faults
    BY DEF ExitsAreBounded
  <2>1. /\ exits[r] + Cardinality(Copies(r)) <= Cardinality(Published(r)) + faults
        /\ Cardinality(Copies(r)) \in Nat /\ Cardinality(Published(r)) \in Nat
    BY CopiesAreFinite DEF ExitBudget, Within
  <2>2. exits[r] \in Nat /\ faults \in Nat
    BY DEF TypeOK
  <2>3. QED
    BY <2>1, <2>2
<1>4. QED
  BY <1>1, <1>2, <1>3, TypeCorrect, HoldInvCorrect, PTL DEF Spec
-----------------------------------------------------------------------------
(* What faults may cost.  A request is adrift if nobody has to deliver or  *)
(* to insert it any more: every request that has vanished is, and only the *)
(* one in the hand of the node a fault strikes comes to be.                *)

InHand(r) == \E n \in Nodes : pc[n] \in {"check", "insert"} /\ Request(n) = r

IsAdrift(r) ==
  /\ KindOf[r] \in {"scan", "shot", "nomodules"}
  /\ db[r] = "none" /\ Published(r) # {}
  /\ \A k \in Published(r) : where[<<r, k>>] = "acked"
  /\ ~InHand(r)

Adrift      == {r \in Requests : IsAdrift(r)}
DriftBudget == Cardinality(Adrift) <= faults

\* A request comes to be adrift by one of three things only.
LEMMA DriftFrame ==
  ASSUME TypeOK, [Next]_vars, NEW r \in Requests, IsAdrift(r)',
         db'[r] = "none" => db[r] = "none",
         \A k \in Attempts : where'[<<r, k>>] = "acked" => where[<<r, k>>] = "acked",
         \A n \in Nodes : pc[n] \in {"check", "insert"} /\ Request(n) = r
                            => pc'[n] \in {"check", "insert"} /\ cur'[n] = cur[n]
  PROVE  IsAdrift(r)
<1>1. \A k \in Attempts : where[<<r, k>>] # "unsent" => where'[<<r, k>>] # "unsent"
  BY OneWay, MessageFacts
<1>2. \A k \in Published(r) : where[<<r, k>>] = "acked"
  BY <1>1 DEF IsAdrift, Published
<1>3. Published(r) # {}
  BY DEF IsAdrift, Published
<1>4. ~InHand(r)
  BY DEF IsAdrift, InHand, Request
<1>5. QED
  BY <1>2, <1>3, <1>4 DEF IsAdrift

\* The budget after a step that sets no request adrift.
LEMMA DriftNone ==
  ASSUME TypeOK, TypeOK', DriftBudget, faults' >= faults,
         \A r \in Requests : IsAdrift(r)' => IsAdrift(r)
  PROVE  DriftBudget'
<1>1. IsFiniteSet(Adrift) /\ Cardinality(Adrift) \in Nat
  BY FS_Subset, FS_CardinalityType DEF Adrift
<1>2. Adrift' \subseteq Adrift
  BY DEF Adrift
<1>3. Cardinality(Adrift') <= Cardinality(Adrift) /\ Cardinality(Adrift') \in Nat
  BY <1>1, <1>2, FS_Subset, FS_CardinalityType
<1>4. faults \in Nat /\ faults' \in Nat
  BY DEF TypeOK
<1>5. QED
  BY <1>1, <1>3, <1>4 DEF DriftBudget

\* The budget after a fault that may set one adrift.
LEMMA DriftOne ==
  ASSUME TypeOK, DriftBudget, NEW b, faults' = faults + 1,
         \A r \in Requests \ {b} : IsAdrift(r)' => IsAdrift(r)
  PROVE  DriftBudget'
<1>1. IsFiniteSet(Adrift) /\ Cardinality(Adrift) \in Nat
  BY FS_Subset, FS_CardinalityType DEF Adrift
<1>2. Adrift' \subseteq Adrift \cup {b}
  BY DEF Adrift
<1>3. Cardinality(Adrift') <= Cardinality(Adrift) + 1
  BY <1>1, <1>2, CountFacts
<1>4. IsFiniteSet(Adrift') /\ Cardinality(Adrift') \in Nat
  BY <1>1, <1>2, FS_AddElement, FS_Subset, FS_CardinalityType
<1>5. faults \in Nat
  BY DEF TypeOK
<1>6. QED
  BY <1>1, <1>3, <1>4, <1>5 DEF DriftBudget

\* Steps that touch neither the table nor a request in a hand, and acknowledge nothing.
LEMMA DriftSame ==
  ASSUME TypeOK, TypeOK', DriftBudget, [Next]_vars, db' = db, faults' >= faults,
         \A m \in Messages : where'[m] = "acked" => where[m] = "acked",
         \A n \in Nodes : pc[n] \in {"check", "insert"}
                            => pc'[n] \in {"check", "insert"} /\ cur'[n] = cur[n]
  PROVE  DriftBudget'
<1>1. \A r \in Requests : IsAdrift(r)' => IsAdrift(r)
  BY DriftFrame, MessageFacts
<1>2. QED
  BY <1>1, DriftNone

\* A process ends, or lets go of its run, by a fault or for a request that is not counted.
LEMMA DriftDrop ==
  ASSUME TypeOK, TypeOK', DriftBudget, [Next]_vars, NEW n \in Nodes, db' = db,
         \A m \in Messages : where'[m] = "acked" => where[m] = "acked",
         \A i \in Nodes \ {n} : pc'[i] = pc[i] /\ cur'[i] = cur[i],
         \/ faults' = faults + 1
         \/ /\ faults' >= faults
            /\ \/ KindOf[Request(n)] \notin {"scan", "shot", "nomodules"}
               \/ db[Request(n)] # "none"
  PROVE  DriftBudget'
<1>1. \A r \in Requests \ {Request(n)} : IsAdrift(r)' => IsAdrift(r)
  <2> SUFFICES ASSUME NEW r \in Requests \ {Request(n)}, IsAdrift(r)' PROVE IsAdrift(r)
    OBVIOUS
  <2>1. \A i \in Nodes : pc[i] \in {"check", "insert"} /\ Request(i) = r
                           => pc'[i] \in {"check", "insert"} /\ cur'[i] = cur[i]
    OBVIOUS
  <2>2. QED
    BY <2>1, DriftFrame, MessageFacts
<1>2. CASE faults' = faults + 1
  BY <1>1, <1>2, DriftOne
<1>3. CASE /\ faults' >= faults
           /\ \/ KindOf[Request(n)] \notin {"scan", "shot", "nomodules"}
              \/ db[Request(n)] # "none"
  <2>1. \A r \in Requests : IsAdrift(r)' => r # Request(n)
    BY <1>3 DEF IsAdrift
  <2>2. \A r \in Requests : IsAdrift(r)' => IsAdrift(r)
    BY <1>1, <2>1
  <2>3. QED
    BY <1>3, <2>2, DriftNone
<1>4. QED
  BY <1>2, <1>3

\* Every step stays within the budget.
LEMMA DriftStep ==
  ASSUME TypeOK, TypeOK', DriftBudget, [Next]_vars
  PROVE  DriftBudget'
<1> USE DEF vars, brokerVars, nodeVars, tableVars, histVars
<1> DEFINE NoAck == \A m \in Messages : where'[m] = "acked" => where[m] = "acked"
           HandsKept == \A n \in Nodes : pc[n] \in {"check", "insert"}
                          => pc'[n] \in {"check", "insert"} /\ cur'[n] = cur[n]
<1>0. faults \in Nat /\ "acked" \notin Subs
  BY DEF TypeOK, Subs, Places
<1>1. CASE UNCHANGED vars
  BY <1>0, <1>1, DriftSame
<1>2. CASE RestNext
  <2>1. UNCHANGED <<db, faults, pc, cur>>
    BY <1>2 DEF RestNext, PutScan, RequestModulesList
  <2>2. where' = where \/ \E m \in Messages : where' = [where EXCEPT ![m] = "queued"]
    BY <1>2, MessageFacts DEF RestNext, PutScan, RequestModulesList
  <2>3. NoAck
    BY <2>2 DEF TypeOK
  <2>4. QED
    BY <1>0, <2>1, <2>3, DriftSame
<1>3. ASSUME NEW S, Requeue(S) PROVE NoAck
  BY <1>3 DEF Requeue
<1>4. CASE BrokerNext
  <2>1. UNCHANGED <<db, pc, cur>> /\ (faults' = faults \/ faults' = faults + 1)
    BY <1>4 DEF BrokerNext, Expire, Dispatch, CollectPhotoConnection, LoseConnection,
                BrokerRestart, Fault
  <2>2. NoAck
    <3>1. ASSUME NEW m \in Messages, Expire(m) \/ \E c \in Subs : Dispatch(m, c) PROVE NoAck
      BY <1>0, <3>1 DEF Expire, Dispatch, TypeOK
    <3>2. CASE BrokerRestart
      BY <3>2 DEF BrokerRestart
    <3>3. QED
      BY <1>3, <1>4, <3>1, <3>2 DEF BrokerNext, CollectPhotoConnection, LoseConnection
  <2>3. faults' >= faults
    BY <1>0, <2>1
  <2>4. QED
    BY <2>1, <2>2, <2>3, DriftSame
<1>5. ASSUME NEW n \in Nodes, Crash(n) PROVE DriftBudget'
  <2>1. db' = db /\ faults' = faults + 1 /\ Exit(n)
    BY <1>5 DEF Crash, Fault
  <2>2. NoAck
    BY <1>3, <2>1 DEF Exit
  <2>3. \A i \in Nodes \ {n} : pc'[i] = pc[i] /\ cur'[i] = cur[i]
    BY <2>1 DEF Exit, Goto, TypeOK
  <2>4. QED
    BY <2>1, <2>2, <2>3, DriftDrop
<1>6. ASSUME NEW n \in Nodes, RunServer(n) PROVE DriftBudget'
  <2> USE DEF Goto, BackToLoop
  <2>1. CASE Ack(n)
    <3>1. /\ pc[n] = "got" /\ cur[n] \in Messages /\ Request(n) \in Requests
          /\ UNCHANGED <<cur, db, faults>>
          /\ pc' = [pc EXCEPT ![n] = IF KindOf[Request(n)] = "list" THEN "list" ELSE "check"]
      BY <2>1, CurIsMessage DEF Ack
    <3>2. \A m \in Messages : where'[m] = "acked" => where[m] = "acked" \/ m = cur[n]
      BY <2>1 DEF Ack, TypeOK
    <3>3. ASSUME NEW r \in Requests, IsAdrift(r)' PROVE IsAdrift(r)
      <4>1. r # Request(n)
        <5> SUFFICES ASSUME r = Request(n) PROVE FALSE
          OBVIOUS
        <5>1. pc'[n] = "check" /\ cur'[n][1] = r
          BY <3>1, <3>3 DEF IsAdrift, Request, TypeOK
        <5>2. QED
          BY <3>3, <5>1 DEF IsAdrift, InHand, Request
      <4>2. \A k \in Attempts : where'[<<r, k>>] = "acked" => where[<<r, k>>] = "acked"
        BY <3>2, <4>1, MessageFacts DEF Request
      <4>3. \A i \in Nodes : pc[i] \in {"check", "insert"} => pc'[i] = pc[i]
        BY <3>1 DEF TypeOK
      <4>4. QED
        BY <3>1, <3>3, <4>2, <4>3, DriftFrame
    <3>4. QED
      BY <1>0, <3>1, <3>3, DriftNone
  <2>2. CASE CheckRunExists(n)
    <3>1. NoAck /\ db' = db
      BY <2>2 DEF CheckRunExists
    <3>2. CASE faults' = faults /\ pc' = [pc EXCEPT ![n] = "insert"] /\ cur' = cur
      <4>1. HandsKept
        BY <2>2, <3>2 DEF CheckRunExists, TypeOK
      <4>2. QED
        BY <1>0, <3>1, <3>2, <4>1, DriftSame
    <3>3. CASE ~(faults' = faults /\ pc' = [pc EXCEPT ![n] = "insert"] /\ cur' = cur)
      <4>1. \/ faults' = faults + 1
            \/ faults' = faults /\ (KindOf[Request(n)] = "badid" \/ db[Request(n)] # "none")
        BY <2>2, <3>3 DEF CheckRunExists, Fault
      <4>2. \A i \in Nodes \ {n} : pc'[i] = pc[i] /\ cur'[i] = cur[i]
        BY <2>2 DEF CheckRunExists, TypeOK
      <4>3. \/ faults' = faults + 1
            \/ /\ faults' >= faults
               /\ \/ KindOf[Request(n)] \notin {"scan", "shot", "nomodules"}
                  \/ db[Request(n)] # "none"
        BY <1>0, <4>1
      <4>4. QED
        BY <3>1, <4>2, <4>3, DriftDrop
    <3>4. QED
      BY <3>2, <3>3
  <2>3. CASE PutRun(n)
    <3>1. pc[n] = "insert" /\ Request(n) \in Requests
      BY <2>3, CurIsMessage DEF PutRun
    <3>2. NoAck
      BY <1>3, <2>3 DEF PutRun, Exit
    <3>3. \A i \in Nodes \ {n} : pc'[i] = pc[i] /\ cur'[i] = cur[i]
      BY <2>3 DEF PutRun, Exit, TypeOK
    <3>4. CASE db' = [db EXCEPT ![Request(n)] = "row"] /\ faults' = faults
      <4>1. ASSUME NEW r \in Requests, IsAdrift(r)' PROVE IsAdrift(r)
        <5>1. r # Request(n)
          BY <3>1, <3>4, <4>1 DEF IsAdrift, TypeOK
        <5>2. db'[r] = db[r]
          BY <3>4, <5>1 DEF TypeOK
        <5>3. \A i \in Nodes : pc[i] \in {"check", "insert"} /\ Request(i) = r
                                 => pc'[i] \in {"check", "insert"} /\ cur'[i] = cur[i]
          BY <3>3, <5>1
        <5>4. QED
          BY <3>2, <4>1, <5>2, <5>3, DriftFrame, MessageFacts
      <4>2. QED
        BY <1>0, <3>4, <4>1, DriftNone
    <3>5. CASE ~(db' = [db EXCEPT ![Request(n)] = "row"] /\ faults' = faults)
      <4>1. /\ db' = db
            /\ \/ faults' = faults + 1
               \/ /\ faults' = faults
                  /\ KindOf[Request(n)] = "badinfo" \/ db[Request(n)] # "none"
        BY <2>3, <3>5 DEF PutRun, Fault
      <4>2. \/ faults' = faults + 1
            \/ /\ faults' >= faults
               /\ \/ KindOf[Request(n)] \notin {"scan", "shot", "nomodules"}
                  \/ db[Request(n)] # "none"
        BY <1>0, <4>1
      <4>3. QED
        BY <3>2, <3>3, <4>1, <4>2, DriftDrop
    <3>6. QED
      BY <3>4, <3>5
  <2>4. CASE UpdateRunEndTime(n)
    <3>1. /\ pc[n] = "end" /\ where' = where /\ Request(n) \in Requests
          /\ db' = db \/ db' = [db EXCEPT ![Request(n)] = "ended"]
          /\ faults' >= faults
      BY <1>0, <2>4, CurIsMessage DEF UpdateRunEndTime, Fault
    <3>2. HandsKept
      BY <2>4 DEF UpdateRunEndTime, TypeOK
    <3>3. ASSUME NEW r \in Requests, IsAdrift(r)' PROVE IsAdrift(r)
      <4>1. db'[r] = "none" => db[r] = "none"
        BY <3>1 DEF TypeOK
      <4>2. QED
        BY <3>1, <3>2, <3>3, <4>1, DriftFrame
    <3>4. QED
      BY <3>1, <3>3, DriftNone
  <2>5. CASE \/ \E m \in Messages : Receive(n, m)
             \/ StartUp(n) \/ SendModulesList(n) \/ RunScan(n) \/ ExecuteModules(n)
             \/ PhotoConnect(n) \/ PhotoPass(n) \/ PhotoFail(n)
    <3>1. db' = db /\ faults' >= faults
      BY <1>0, <2>5 DEF Receive, StartUp, SendModulesList, RunScan, ExecuteModules,
                        PhotoConnect, PhotoPass, PhotoFail, Fault
    <3>2. NoAck
      BY <1>3, <2>5 DEF Receive, StartUp, SendModulesList, RunScan, ExecuteModules,
                        PhotoConnect, PhotoPass, PhotoFail
    <3>3. HandsKept
      BY <2>5 DEF Receive, StartUp, SendModulesList, RunScan, ExecuteModules,
                  PhotoConnect, PhotoPass, PhotoFail, TypeOK
    <3>4. QED
      BY <3>1, <3>2, <3>3, DriftSame
  <2>6. QED
    BY <1>6, <2>1, <2>2, <2>3, <2>4, <2>5 DEF RunServer
<1>7. QED
  BY <1>1, <1>2, <1>4, <1>5, <1>6 DEF Next

\* Acknowledging before saving costs at most one request per fault: those still in
\* the socket of a process that ends come back.
THEOREM LossesBounded == Spec => []EachFaultLosesOne
<1>1. Init => UnackedIsThere /\ DriftBudget
  <2> SUFFICES ASSUME Init PROVE UnackedIsThere /\ DriftBudget
    OBVIOUS
  <2>1. UnackedIsThere
    BY DEF Init, UnackedIsThere, Places
  <2>2. Adrift = {}
    BY MessageFacts DEF Init, Adrift, IsAdrift, Published
  <2>3. QED
    BY <2>1, <2>2, FS_EmptySet DEF Init, DriftBudget
<1>2. TypeOK /\ TypeOK' /\ UnackedIsThere /\ DriftBudget /\ [Next]_vars
        => UnackedIsThere' /\ DriftBudget'
  BY UnackedStep, DriftStep
<1>3. TypeOK /\ UnackedIsThere /\ DriftBudget => EachFaultLosesOne
  <2> SUFFICES ASSUME TypeOK, UnackedIsThere, DriftBudget PROVE EachFaultLosesOne
    OBVIOUS
  <2> DEFINE V == {r \in Requests : KindOf[r] \in {"scan", "shot", "nomodules"} /\ Vanished(r)}
  <2>1. ASSUME NEW r \in Requests, KindOf[r] \in {"scan", "shot", "nomodules"}, Vanished(r)
        PROVE  IsAdrift(r)
    <3>1. ASSUME NEW k \in Published(r), where[<<r, k>>] \in Nodes PROVE FALSE
      <4>1. <<r, k>> \in Messages
        BY MessageFacts DEF Published
      <4>2. PICK n \in Nodes : where[<<r, k>>] = n
        BY <3>1
      <4>3. pc[n] = "got" /\ cur[n] = <<r, k>>
        BY <2>1, <4>1, <4>2 DEF UnackedIsThere, Vanished
      <4>4. QED
        BY <2>1, <4>3 DEF Vanished, Request
    <3>2. \A k \in Published(r) : where[<<r, k>>] = "acked"
      BY <2>1, <3>1 DEF Vanished
    <3>3. ~InHand(r)
      BY <2>1 DEF Vanished, InHand
    <3>4. QED
      BY <2>1, <3>2, <3>3 DEF Vanished, IsAdrift
  <2>2. V \subseteq Adrift
    BY <2>1 DEF Adrift
  <2>3. IsFiniteSet(Adrift) /\ Cardinality(Adrift) \in Nat
    BY FS_Subset, FS_CardinalityType DEF Adrift
  <2>4. Cardinality(V) <= Cardinality(Adrift) /\ Cardinality(V) \in Nat
    BY <2>2, <2>3, FS_Subset, FS_CardinalityType
  <2>5. faults \in Nat
    BY DEF TypeOK
  <2> HIDE DEF V
  <2>6. Cardinality(V) <= faults
    BY <2>3, <2>4, <2>5 DEF DriftBudget
  <2>7. QED
    BY <2>6 DEF V, EachFaultLosesOne
<1>4. QED
  BY <1>1, <1>2, <1>3, TypeCorrect, PTL DEF Spec
=============================================================================

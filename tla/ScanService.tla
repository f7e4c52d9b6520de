----------------------------- MODULE ScanService -----------------------------
(***************************************************************************)
(* What the queue, the Caroline nodes and the table of runs promise        *)
(* together, without messages, acknowledgements or look-ups: an accepted   *)
(* scan is taken up by at most one node, once, a node runs one scan at a   *)
(* time, and a finished or aborted scan is never taken up again.           *)
(***************************************************************************)
CONSTANTS Scans, Nodes, None

VARIABLES
  job,     \* what has become of each scan
  worker   \* the node that runs it

vars == <<job, worker>>

Init ==
  /\ job = [s \in Scans |-> "new"]
  /\ worker = [s \in Scans |-> None]

Accept(s) ==
  /\ job[s] = "new"
  /\ job' = [job EXCEPT ![s] = "accepted"]
  /\ UNCHANGED worker

Start(s, n) ==
  /\ job[s] = "accepted"
  /\ \A t \in Scans : worker[t] # n
  /\ job' = [job EXCEPT ![s] = "running"]
  /\ worker' = [worker EXCEPT ![s] = n]

\* The row is closed, or left open for good.
Leave(s, how) ==
  /\ job[s] = "running"
  /\ job' = [job EXCEPT ![s] = how]
  /\ worker' = [worker EXCEPT ![s] = None]

Next ==
  \E s \in Scans :
    \/ Accept(s)
    \/ \E n \in Nodes : Start(s, n)
    \/ \E how \in {"finished", "aborted"} : Leave(s, how)

Spec == Init /\ [][Next]_vars
=============================================================================

--------------------------- MODULE MCScanDispatch ---------------------------
(* Small instances of ScanDispatch for TLC.                                *)
EXTENDS ScanDispatch, TLC

CONSTANTS s1, s2, p1, l1, b1, u1, o1

\* s* scans, p1 a screenshot, l1 a modules list, b1 a target_info that cannot be
\* decoded, u1 an id that is no uuid, o1 no module list.
MCKindOf ==
  [r \in Requests |->
     CASE r \in {s1, s2} -> "scan"
       [] r = p1 -> "shot"
       [] r = l1 -> "list"
       [] r = b1 -> "badinfo"
       [] r = u1 -> "badid"
       [] r = o1 -> "nomodules"]

NodeSymmetry == Permutations(Nodes)
=============================================================================

--------------------------- MODULE WorkloadHandoff ---------------------------
(***************************************************************************)
(* What migrating containers promises about the workload of each: at every *)
(* moment it runs on one node, or is frozen (stopped, with its process     *)
(* image on its way to another node), or is gone.  A workload that resumes *)
(* does so exactly where it was frozen, and one that is gone never runs    *)
(* again.  ContainerMigration implements this specification.               *)
(***************************************************************************)
EXTENDS Naturals

CONSTANTS Node,     \* hosts that run an agent
          Name      \* containers, by name

VARIABLE wl         \* wl[c]: the workload of container c

Running(n, k) == [at |-> "node", node |-> n, mem |-> k]
Frozen(k)     == [at |-> "transit", mem |-> k]
Gone          == [at |-> "gone"]

Init == \E home \in [Name -> Node] : wl = [c \in Name |-> Running(home[c], 1)]

\* The process advances, where it runs.
Work(c) ==
  /\ wl[c].at = "node"
  /\ wl' = [wl EXCEPT ![c] = Running(@.node, @.mem + 1)]

\* The process is stopped and its image taken, in one step.
Freeze(c) ==
  /\ wl[c].at = "node"
  /\ wl' = [wl EXCEPT ![c] = Frozen(@.mem)]

\* The process resumes on some node, from the very image that was taken.
Thaw(c) ==
  /\ wl[c].at = "transit"
  /\ \E n \in Node : wl' = [wl EXCEPT ![c] = Running(n, @.mem)]

\* Workloads end: they exit, or the calls that carry their images fail.
End(C) ==
  wl' = [c \in Name |-> IF c \in C THEN Gone ELSE wl[c]]

Next ==
  \/ \E c \in Name : Work(c) \/ Freeze(c) \/ Thaw(c)
  \/ \E C \in SUBSET Name : End(C)

Spec == Init /\ [][Next]_wl
=============================================================================

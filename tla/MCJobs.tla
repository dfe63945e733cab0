------------------------------- MODULE MCJobs -------------------------------
(* Small instances of Jobs: who owns which node and what each node can run. *)
EXTENDS Jobs

CONSTANTS n1, n2, n3, j1, alice, bob, carol

MCOwner == [n \in Nodes |-> CASE n = n1 -> alice [] n = n2 -> bob [] n = n3 -> carol]

MCConsumer == [j \in JobIds |-> carol]

MCFits == [j \in JobIds |-> Nodes]

=============================================================================

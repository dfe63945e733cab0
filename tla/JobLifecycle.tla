---------------------------- MODULE JobLifecycle ----------------------------
(***************************************************************************)
(* What the dispatch machinery promises about a job, whatever is           *)
(* interleaved, lost or restarted underneath: it may be offered to many    *)
(* nodes, but it starts executing at most once; the node named by its row  *)
(* at that moment is named for good; a closed job never reopens; and the   *)
(* only jobs metered are those that close successfully from execution, at  *)
(* the step that closes them.                                              *)
(***************************************************************************)

CONSTANTS JobIds, Nodes, NoNode

VARIABLES phase, worker, metered

lifecycleVars == <<phase, worker, metered>>

LifecycleInit ==
    /\ phase = [j \in JobIds |-> "absent"]
    /\ worker = [j \in JobIds |-> NoNode]
    /\ metered = {}

\* The job gets its row and its first node.
Place(j) ==
    /\ phase[j] = "absent"
    /\ phase' = [phase EXCEPT ![j] = "placing"]
    /\ UNCHANGED <<worker, metered>>

\* Some node starts the job, or no node is left and the job has failed.
Settle(j) ==
    /\ phase[j] = "placing"
    /\ \E p \in {"executing", "failed"} : phase' = [phase EXCEPT ![j] = p]
    /\ \E n \in Nodes : worker' = [worker EXCEPT ![j] = n]
    /\ UNCHANGED metered

\* Execution ends: failed, done, or (print) ready to be handed over.
Finish(j) ==
    /\ phase[j] = "executing"
    /\ \/ /\ \E p \in {"failed", "handover"} : phase' = [phase EXCEPT ![j] = p]
          /\ UNCHANGED metered
       \/ /\ phase' = [phase EXCEPT ![j] = "done"]
          /\ metered' \in {metered, metered \cup {j}}
    /\ UNCHANGED worker

\* The printed object changes hands, or nobody comes for it.
HandOver(j) ==
    /\ phase[j] = "handover"
    /\ \E p \in {"failed", "done"} : phase' = [phase EXCEPT ![j] = p]
    /\ UNCHANGED <<worker, metered>>

LifecycleNext ==
    \E j \in JobIds : Place(j) \/ Settle(j) \/ Finish(j) \/ HandOver(j)

LifecycleSpec == LifecycleInit /\ [][LifecycleNext]_lifecycleVars

=============================================================================

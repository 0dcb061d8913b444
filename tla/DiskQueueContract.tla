------------------------- MODULE DiskQueueContract -------------------------
(***************************************************************************)
(* DiskQueue implements QueueContract, read off the database: what a       *)
(* restarted process would find is at every moment a state the contract    *)
(* allows, and it changes only as the contract allows.                     *)
(***************************************************************************)
EXTENDS DiskQueue

PhaseOf(state) ==
  CASE state = "absent" -> "out"
    [] state = "queued" -> "waiting"
    [] state = "checking" -> "taken"
    [] state = "running" -> "working"
    [] OTHER -> "done"

QueueOf(state) ==
  CASE state = "running" -> "open"
    [] state = "stopping" -> "stopping"
    [] OTHER -> "closed"

StoredQueue == QueueOf(disk.state)
StoredPhase == [n \in Nodes |-> PhaseOf(disk.runs[n].state)]

Contract ==
  INSTANCE QueueContract WITH queue <- StoredQueue, phase <- StoredPhase

(* The queue keeps the order of the settings, finishes a node before it    *)
(* takes the next, never works on one twice and stops when told to, and    *)
(* none of this depends on how often the process dies on the way           *)
(* (orchestrator.go 720-850).                                              *)
ImplementsContract == Contract!ContractSpec

=============================================================================

-------------------------- MODULE DiskQueueHistory --------------------------
(***************************************************************************)
(* DiskQueue with history variables: what an observer who sees every node  *)
(* would note down. They constrain nothing and let the properties below    *)
(* speak about what happened since a request came in, since a job was      *)
(* admitted or since a stop was acknowledged.                              *)
(***************************************************************************)
EXTENDS DiskQueue

VARIABLES
  starts,  \* how often the current job's POSTs started a compaction on n
  worked,  \* nodes a compaction has succeeded on since the job was admitted
  clear,   \* nodes that were free to start since request r began
  frozen   \* nodes that were queued when the stop of the job was saved

history == <<starts, worked, clear, frozen>>

Admitted == pc = "free" /\ pc' = "pick"
StopSaved == job.state = "running" /\ job'.state = "stopping" /\ pc' = pc
Started(n) == node'[n].own /\ ~node[n].own

Observe ==
  /\ starts' = [n \in Nodes |-> IF Admitted THEN 0
                                ELSE starts[n] + (IF Started(n) THEN 1 ELSE 0)]
  /\ worked' = IF Admitted THEN {}
               ELSE worked \cup {n \in Nodes : /\ node[n].state = "running"
                                               /\ node'[n].state = "succeeded"}
  /\ clear' = [r \in Requesters |->
                 IF req'[r] = NoRequest THEN {}
                 ELSE clear[r] \cup {n \in Nodes : Available(n)'}]
  /\ frozen' = IF Admitted THEN {}
               ELSE IF StopSaved THEN {n \in Nodes : job.runs[n].state = "queued"}
               ELSE frozen

HistoryInit ==
  /\ Init
  /\ starts = [n \in Nodes |-> 0] /\ worked = {}
  /\ clear = [r \in Requesters |-> {}] /\ frozen = {}

HistorySpec == HistoryInit /\ [][Next /\ Observe]_<<vars, history>>

-----------------------------------------------------------------------------
(* One job compacts a node at most once: neither a lost answer nor a crash *)
(* around the POST makes the queue start a node again that it has already  *)
(* started (orchestrator.go 923-994, 1021-1048).                           *)
SingleStart == \A n \in Nodes : starts[n] <= 1

(* A run is reported as succeeded only if a compaction of that node really *)
(* succeeded after the job was admitted; the result of an earlier job is   *)
(* never taken for it (orchestrator.go 996-1008, 1050-1082).               *)
NoVacuousSuccess ==
  \A n \in Nodes : job.runs[n].state = "succeeded" => n \in worked

(* A job is admitted only if every enabled node of the group, whether or   *)
(* not the job will touch it, was reachable and idle at some moment since  *)
(* the request came in (orchestrator.go 586-600).                          *)
AdmissionFailsClosed ==
  [][Admitted => \E r \in Requesters : /\ req[r] # NoRequest
                                       /\ req'[r] = NoRequest
                                       /\ clear[r] = Nodes]_<<vars, history>>

(* Once a stop is acknowledged, no node that was still queued is started,  *)
(* also by a process that only reads of the stop in the database           *)
(* (orchestrator.go 699-718, 745-749).                                     *)
StoppedNodesNeverStart ==
  [][\A n \in frozen : ~Started(n)]_<<vars, history>>

=============================================================================

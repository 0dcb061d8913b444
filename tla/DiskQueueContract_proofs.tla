---------------------- MODULE DiskQueueContract_proofs ----------------------
(***************************************************************************)
(* DiskQueue implements QueueContract, for any number of nodes, requesters *)
(* and budgeted events, in a reliable system whose saves succeed and whose *)
(* process is not both stopped and restarted. Every step maps to a step of *)
(* the contract or to none: what a crash forgets, the contract does not    *)
(* speak of.                                                               *)
(***************************************************************************)
EXTENDS DiskQueueContract, DiskQueue_proofs

USE NodesAssumption, SwitchAssumption, BudgetAssumption

(* A queue that is stopped and then restarted may release its disk with a  *)
(* run still open (TLC shows it), so a process is one or the other.        *)
Undisturbed ==
  /\ Reliable
  /\ \A b \in Budgets : /\ b["failedSaves"] = 0
                        /\ b["stops"] = 0 \/ b["crashes"] = 0

(* The database is never behind the memory.                                *)
SavedInv == budget["failedSaves"] = 0 /\ disk = job

(* A queue that is, or may yet be, told to stop is not interrupted.        *)
StopInv == budget["stops"] > 0 \/ StopAfter => Quiet

LEMMA SavedStep ==
  ASSUME IInv, SavedInv, [Next]_vars
  PROVE  SavedInv'
<1> USE DEF IInv, SafetyInv
<1>0. "failedSaves" \in BudgetKinds
  BY DEF BudgetKinds
<1>1. budget'["failedSaves"] = 0
  <2>1. TypeOK'
    BY TypeStep
  <2>2. budget'["failedSaves"] \in Nat /\ budget'["failedSaves"] <= 0
    BY <1>0, <2>1, BudgetStep DEF TypeOK, SavedInv
  <2> QED BY <2>2
<1>2. ASSUME NEW j, Persist(j) PROVE disk' = j
  BY <1>0, <1>2 DEF Persist, Spend, SavedInv
<1>3. ASSUME NEW n \in Nodes, NEW s, FinishRun(n, s) PROVE disk' = job'
  BY <1>2, <1>3 DEF FinishRun
<1>4. ASSUME NEW n \in Nodes, NEW id, WaitFor(n, id) PROVE disk' = job'
  BY <1>2, <1>4 DEF WaitFor
<1>5. ASSUME NEW n \in Nodes, RunnerNext(n) PROVE disk' = job'
  <2>1. CASE SkipSettled(n) \/ SendStart(n) \/ StartAmbiguous(n)
    BY <2>1 DEF SkipSettled, SendStart, StartAmbiguous, SavedInv
  <2>2. CASE TakeQueued(n) \/ ProbeBaseline(n) \/ ReconcileRequeue(n)
    BY <1>2, <2>2 DEF TakeQueued, ProbeBaseline, ReconcileRequeue
  <2>3. CASE TakeRunning(n) \/ TakeChecking(n)
    BY <1>2, <1>3, <2>3 DEF TakeRunning, TakeChecking
  <2>4. CASE \/ ProbeFails(n) \/ ReceiveAccepted(n) \/ ReceiveRefused(n) \/ Resolve(n)
             \/ ReconcileAdopt(n) \/ AwaitForeign(n) \/ AwaitJob(n)
    BY <1>3, <1>4, <2>4 DEF ProbeFails, ReceiveAccepted, ReceiveRefused, Resolve,
                            ReconcileAdopt, AwaitForeign, AwaitJob
  <2>5. CASE ReconcileForeign(n)
    BY <1>3, <2>5 DEF ReconcileForeign, SavedInv
  <2> QED BY <1>5, <2>1, <2>2, <2>3, <2>4, <2>5 DEF RunnerNext
<1>6. ASSUME NEW n \in Nodes, NodeNext(n) PROVE disk' = job'
  BY <1>6 DEF NodeNext, HandleStart, NodeFinishes, ForeignStart, NodeRestarts,
              Disconnect, Reconnect, SavedInv
<1>7. ASSUME NEW r \in Requesters, RequestNext(r) PROVE disk' = job'
  BY <1>7 DEF RequestNext, RequestStart, PreflightVerify, PreflightReject, AdmitConflict,
              Admit, AdmitUnsaved, SavedInv
<1>8. CASE FinishQueue
  <2>1. disk' = job'
    BY <1>2, <1>8 DEF FinishQueue
  <2> QED BY <1>1, <2>1 DEF SavedInv
<1>9. CASE Stop \/ SaveElsewhere \/ Crash \/ Restart \/ RestartUnsaved \/ UNCHANGED vars
  <2>1. disk' = job'
    BY <1>9 DEF Stop, SaveElsewhere, Crash, Restart, RestartUnsaved, vars, SavedInv
  <2> QED BY <1>1, <2>1 DEF SavedInv
<1> QED BY <1>1, <1>5, <1>6, <1>7, <1>8, <1>9 DEF Next, SavedInv

(* Only a stop makes a job stop, and it takes one from the budget.         *)
LEMMA StopStep ==
  ASSUME IInv, PlaceInv, SavedInv, StopInv, [Next]_vars
  PROVE  StopInv'
<1> USE DEF IInv, SafetyInv
<1>1. budget["stops"] \in Nat /\ budget'["stops"] \in Nat
      /\ budget'["stops"] <= budget["stops"]
  <2>1. "stops" \in BudgetKinds /\ TypeOK'
    BY TypeStep DEF BudgetKinds
  <2> QED BY <2>1, BudgetStep DEF TypeOK
<1>2. budget'["stops"] > 0 => budget["stops"] > 0
  BY <1>1
<1>3. job'.state = "stopping" => budget["stops"] > 0 \/ job.state = "stopping"
  <2>1. ASSUME NEW n \in Nodes, RunnerNext(n) PROVE job'.state = job.state
    <3>1. Settles(n) \/ Advances(n) \/ Stays(n) \/ SkipSettled(n)
      BY <2>1, RunnerShape
    <3>2. CASE Settles(n)
      BY <3>2, FinishRunFacts DEF Settles, RunStates
    <3>3. CASE Advances(n)
      BY <3>3, UpdateFacts DEF Advances
    <3> QED BY <3>1, <3>2, <3>3 DEF Stays, SkipSettled
  <2>2. ASSUME NEW n \in Nodes, NodeNext(n) PROVE job' = job
    BY <2>2 DEF NodeNext, HandleStart, NodeFinishes, ForeignStart, NodeRestarts,
                Disconnect, Reconnect
  <2>3. ASSUME NEW r \in Requesters, RequestNext(r)
        PROVE  job' = job \/ job'.state = "running"
    BY <2>3 DEF RequestNext, RequestStart, PreflightVerify, PreflightReject,
                AdmitConflict, Admit, AdmitUnsaved, NewJob
  <2>4. CASE Stop
    <3>1. "stops" \in BudgetKinds
      BY DEF BudgetKinds
    <3> QED BY <2>4, <3>1 DEF Stop, Spend
  <2>5. CASE FinishQueue
    BY <2>5 DEF FinishQueue, TypeOK, Jobs
  <2>6. CASE Restart
    BY <2>6, RepairedSame DEF Restart, SavedInv
  <2>7. CASE SaveElsewhere \/ Crash \/ RestartUnsaved \/ UNCHANGED vars
    BY <2>7 DEF SaveElsewhere, Crash, RestartUnsaved, vars, SavedInv
  <2> QED BY <2>1, <2>2, <2>3, <2>4, <2>5, <2>6, <2>7 DEF Next
<1> QED BY <1>2, <1>3, QuietStep DEF StopInv, StopAfter

-----------------------------------------------------------------------------
(* The mapping of the states.                                              *)

(* Replacing one run moves one node of the contract.                       *)
LEMMA PhaseStep ==
  ASSUME TypeOK, SavedInv, disk' = job', NEW n \in Nodes,
         job'.state = job.state,
         \A m \in Nodes : m # n => job'.runs[m] = job.runs[m]
  PROVE  /\ StoredQueue' = StoredQueue
         /\ StoredPhase' = [StoredPhase EXCEPT ![n] = PhaseOf(job'.runs[n].state)]
         /\ StoredPhase[n] = PhaseOf(job.runs[n].state)
  BY DEF SavedInv, StoredQueue, StoredPhase

(* The loop is at the first node that has not come to its end.             *)
LEMMA TurnOf ==
  ASSUME IInv, SavedInv, NEW n \in Nodes, IsHead(n), pc \notin {"down", "free"}
  PROVE  Contract!Turn(n)
<1> USE DEF IInv, SafetyInv
<1>1. SUFFICES ASSUME NEW m \in Nodes, m < n
               PROVE  PhaseOf(job.runs[m].state) \in {"out", "done"}
  BY DEF Contract!Turn, StoredPhase, SavedInv
<1>2. m \notin todo
  BY <1>1 DEF IsHead
<1>3. job.runs[m].state \notin {"queued", "checking", "running"}
  BY <1>2 DEF RunnerInv
<1> QED BY <1>3 DEF PhaseOf

(* A step of the runner takes its node, works on it, ends it, puts it back *)
(* or does what the contract does not see.                                 *)
LEMMA RunnerStepContract ==
  ASSUME IInv, PlaceInv, SavedInv, SavedInv', NEW n \in Nodes, RunnerNext(n)
  PROVE  Contract!ContractNext \/ UNCHANGED <<StoredQueue, StoredPhase>>
<1> USE DEF IInv, SafetyInv
<1>0. /\ IsHead(n) /\ pc \notin {"down", "free"} /\ Active(job) /\ disk' = job'
      /\ Settles(n) \/ Advances(n) \/ Stays(n) \/ SkipSettled(n)
  BY RunnerShape DEF RunnerInv, SavedInv
<1>1. StoredQueue \in {"open", "stopping"} /\ (~StopAfter => StoredQueue = "open")
  BY <1>0 DEF Active, StoredQueue, QueueOf, SavedInv, StopAfter
<1>2. CASE Settles(n)
  <2>1. PICK s \in {"succeeded", "failed"} : FinishRun(n, s)
    BY <1>2 DEF Settles
  <2>2. /\ job'.state = job.state /\ job'.runs[n].state = s
        /\ \A m \in Nodes : m # n => job'.runs[m] = job.runs[m]
    BY <2>1, FinishRunFacts DEF RunStates
  <2>3. PhaseOf(job'.runs[n].state) = "done"
        /\ PhaseOf(job.runs[n].state) \in {"taken", "working"}
    BY <1>2, <2>2 DEF Settles, Open, PhaseOf
  <2>4. Contract!End(n)
    BY <1>0, <1>1, <2>2, <2>3, PhaseStep DEF Contract!End
  <2> QED BY <2>4 DEF Contract!ContractNext
<1>3. CASE Advances(n)
  <2>1. PICK run \in Runs :
          /\ job' = SetRun(n, run)
          /\ \/ pc' \in {"probe", "post"} /\ run.state = "checking"
             \/ pc' = "wait" /\ run.state = "running"
             \/ pc' = "pick" /\ run.state = "queued"
    BY <1>3 DEF Advances
  <2>2. /\ job'.state = job.state /\ job'.runs[n] = run
        /\ \A m \in Nodes : m # n => job'.runs[m] = job.runs[m]
    BY <2>1, UpdateFacts
  <2>3. /\ StoredQueue' = StoredQueue
        /\ StoredPhase' = [StoredPhase EXCEPT ![n] = PhaseOf(run.state)]
        /\ StoredPhase[n] = PhaseOf(job.runs[n].state)
    BY <1>0, <2>2, PhaseStep
  <2>4. CASE job.runs[n].state = "queued"
    <3>1. TakeQueued(n)
      BY <1>0, <2>4 DEF PlaceInv, RunnerNext, SkipSettled, TakeRunning, TakeChecking,
         ProbeFails, ProbeBaseline, SendStart, ReceiveAccepted, ReceiveRefused,
         StartAmbiguous, Resolve, ReconcileRequeue, ReconcileAdopt, ReconcileForeign,
         AwaitForeign, AwaitJob, At
    <3>2. ~StopAfter /\ pc' = "probe"
      BY <3>1 DEF TakeQueued
    <3>3. PhaseOf(run.state) = "taken" /\ PhaseOf(job.runs[n].state) = "waiting"
      BY <2>1, <2>4, <3>2 DEF PhaseOf
    <3>4. Contract!Take(n)
      BY <1>0, <1>1, <2>3, <3>2, <3>3, TurnOf DEF Contract!Take
    <3> QED BY <3>4 DEF Contract!ContractNext
  <2>5. CASE job.runs[n].state = "checking"
    <3>1. PhaseOf(job.runs[n].state) = "taken"
      BY <2>5 DEF PhaseOf
    <3>2. CASE run.state = "checking"
      <4>1. StoredPhase' = StoredPhase
        BY <2>3, <2>5, <3>2 DEF StoredPhase
      <4> QED BY <2>3, <4>1
    <3>3. CASE run.state = "running"
      <4>1. Contract!Work(n)
        BY <1>1, <2>3, <3>1, <3>3 DEF Contract!Work, PhaseOf
      <4> QED BY <4>1 DEF Contract!ContractNext
    <3>4. CASE run.state = "queued"
      <4>1. Contract!PutBack(n)
        BY <1>1, <2>3, <3>1, <3>4 DEF Contract!PutBack, PhaseOf
      <4> QED BY <4>1 DEF Contract!ContractNext
    <3> QED BY <2>1, <3>2, <3>3, <3>4
  <2> QED BY <1>3, <2>4, <2>5 DEF Advances
<1>4. CASE Stays(n) \/ SkipSettled(n)
  <2>1. disk' = disk
    BY <1>0, <1>4 DEF Stays, SkipSettled, SavedInv
  <2> QED BY <2>1 DEF StoredQueue, StoredPhase
<1> QED BY <1>0, <1>2, <1>3, <1>4

(* The verdict closes the queue: no node is open, and none waits unless it *)
(* was stopped.                                                            *)
LEMMA FinishContract ==
  ASSUME IInv, SavedInv, SavedInv', StopInv, FinishQueue
  PROVE  Contract!Close
<1> USE DEF IInv, SafetyInv
<1> DEFINE skipped == [n \in Nodes |->
                         IF job.runs[n].state = "queued"
                           THEN [job.runs[n] EXCEPT !.state = "skipped"]
                           ELSE job.runs[n]]
<1>0. pc = "pick" /\ Active(job) /\ disk = job /\ disk' = job'
  BY DEF FinishQueue, RunnerInv, SavedInv
<1>1. \A n \in Nodes : ~Open(job, n)
  <2>1. CASE StopAfter
    BY <1>0, <2>1 DEF StopInv, Quiet
  <2>2. CASE ~StopAfter
    <3>1. todo = {}
      BY <2>2 DEF FinishQueue
    <3> QED BY <1>0, <3>1 DEF RunnerInv, Open
  <2> QED BY <2>1, <2>2
<1>2. ~StopAfter => \A n \in Nodes : job.runs[n].state # "queued"
  BY <1>0 DEF FinishQueue, RunnerInv
<1>3. /\ job'.state \notin {"running", "stopping"}
      /\ (job'.runs = job.runs /\ ~StopAfter) \/ job'.runs = skipped
  BY DEF FinishQueue, TypeOK, Jobs
<1>4. StoredQueue # "closed" /\ (StoredQueue = "open" => ~StopAfter)
  BY <1>0 DEF Active, StoredQueue, QueueOf, StopAfter
<1>5. StoredQueue' = "closed"
  BY <1>0, <1>3 DEF StoredQueue, QueueOf
<1>6. ASSUME NEW n \in Nodes
      PROVE  /\ Contract!Idle(n)
             /\ ~StopAfter => StoredPhase[n] # "waiting"
             /\ StoredPhase'[n] = IF StoredPhase[n] = "out" THEN "out" ELSE "done"
  <2>1. job.runs[n].state \notin {"checking", "running"} /\ job.runs[n] \in Runs
    BY <1>1 DEF Open, TypeOK, Jobs
  <2>2. /\ StoredPhase[n] = PhaseOf(job.runs[n].state)
        /\ StoredPhase'[n] = PhaseOf(job'.runs[n].state)
    BY <1>0 DEF StoredPhase
  <2>3. CASE job.runs[n].state = "queued"
    <3>1. job'.runs[n].state = "skipped"
      BY <1>2, <1>3, <2>1, <2>3 DEF Runs
    <3> QED BY <1>2, <2>2, <2>3, <3>1 DEF Contract!Idle, PhaseOf
  <2>4. CASE job.runs[n].state # "queued"
    <3>1. job'.runs[n] = job.runs[n]
      BY <1>3, <2>4
    <3> QED BY <2>1, <2>2, <2>4, <3>1 DEF Contract!Idle, PhaseOf
  <2> QED BY <2>3, <2>4
<1>7. StoredPhase' = [n \in Nodes |-> IF StoredPhase[n] = "out" THEN "out" ELSE "done"]
  BY <1>6 DEF StoredPhase
<1> QED BY <1>4, <1>5, <1>6, <1>7 DEF Contract!Close

LEMMA ContractStep ==
  ASSUME IInv, PlaceInv, SavedInv, SavedInv', StopInv, [Next]_vars
  PROVE  [Contract!ContractNext]_<<StoredQueue, StoredPhase>>
<1> USE DEF IInv, SafetyInv
<1>1. ASSUME disk' = disk PROVE UNCHANGED <<StoredQueue, StoredPhase>>
  BY <1>1 DEF StoredQueue, StoredPhase
<1>2. ASSUME NEW n \in Nodes, RunnerNext(n)
      PROVE  Contract!ContractNext \/ UNCHANGED <<StoredQueue, StoredPhase>>
  BY <1>2, RunnerStepContract
<1>3. ASSUME NEW n \in Nodes, NodeNext(n) PROVE disk' = disk
  BY <1>3 DEF NodeNext, HandleStart, NodeFinishes, ForeignStart, NodeRestarts,
              Disconnect, Reconnect
<1>4. ASSUME NEW r \in Requesters, RequestNext(r)
      PROVE  disk' = disk \/ Contract!ContractNext
  <2>1. CASE Admit(r)
    <3> DEFINE S == req[r].target
    <3>1. S # {} /\ S \in SUBSET Nodes /\ disk' = NewJob(S) /\ ~Active(disk)
      BY <2>1 DEF Admit, TypeOK, Requests, RunnerInv, SavedInv
    <3> HIDE DEF S
    <3>2. StoredQueue = "closed" /\ StoredQueue' = "open"
      BY <3>1 DEF StoredQueue, QueueOf, NewJob, Active
    <3>3. StoredPhase' = [n \in Nodes |-> IF n \in S THEN "waiting" ELSE "out"]
      BY <3>1 DEF StoredPhase, PhaseOf, NewJob, Absent
    <3>4. Contract!Accept(S)
      BY <3>1, <3>2, <3>3 DEF Contract!Accept
    <3> QED BY <3>1, <3>4 DEF Contract!ContractNext
  <2>2. CASE ~Admit(r)
    BY <1>4, <2>2 DEF RequestNext, RequestStart, PreflightVerify, PreflightReject,
                      AdmitConflict, AdmitUnsaved
  <2> QED BY <2>1, <2>2
<1>5. CASE Stop
  <2>1. disk' = job' /\ job'.state = "stopping" /\ job'.runs = job.runs /\ Active(job)
    BY <1>5 DEF Stop, TypeOK, Jobs, RunnerInv
  <2>2. StoredQueue # "closed" /\ StoredQueue' = "stopping" /\ StoredPhase' = StoredPhase
    BY <2>1 DEF StoredQueue, StoredPhase, QueueOf, SavedInv, Active
  <2>3. Contract!Halt
    BY <2>2 DEF Contract!Halt
  <2> QED BY <2>3 DEF Contract!ContractNext
<1>6. CASE FinishQueue
  BY <1>6, FinishContract DEF Contract!ContractNext
<1>7. CASE Restart
  <2>1. disk' = disk
    BY <1>7, RepairedSame DEF Restart, SavedInv
  <2> QED BY <1>1, <2>1
<1>8. CASE SaveElsewhere \/ Crash \/ RestartUnsaved \/ UNCHANGED vars
  <2>1. disk' = disk
    BY <1>8 DEF SaveElsewhere, Crash, RestartUnsaved, vars, SavedInv
  <2> QED BY <1>1, <2>1
<1> QED BY <1>1, <1>2, <1>3, <1>4, <1>5, <1>6, <1>7, <1>8 DEF Next

-----------------------------------------------------------------------------
(* What is stored keeps the contract of the queue: its nodes in settings   *)
(* order, each brought to its end before the next is touched, none worked  *)
(* on twice, none taken after a stop (orchestrator.go 720-850).            *)
THEOREM ContractHolds ==
  ASSUME Undisturbed
  PROVE  Spec => ImplementsContract
<1>1. Init => SavedInv /\ StopInv /\ Contract!ContractInit
  <2> SUFFICES ASSUME Init PROVE SavedInv /\ StopInv /\ Contract!ContractInit
    OBVIOUS
  <2>1. disk = NoJob /\ job = disk /\ pc = "down" /\ budget \in Budgets
    BY DEF Init, Undisturbed, Reliable
  <2>2. /\ budget["failedSaves"] = 0
        /\ budget["stops"] = 0 \/ budget["crashes"] = 0
    BY <2>1 DEF Undisturbed
  <2>3. SavedInv
    BY <2>1, <2>2 DEF SavedInv
  <2>4. StopInv
    BY <2>1, <2>2 DEF StopInv, StopAfter, Quiet, NoJob, Active
  <2>5. Contract!ContractInit
    BY <2>1 DEF Contract!ContractInit, StoredQueue, StoredPhase, QueueOf, PhaseOf,
                NoJob, Absent
  <2> QED BY <2>3, <2>4, <2>5
<1>2. Init => IInv
  BY InitSafe DEF Undisturbed
<1>3. IInv /\ [Next]_vars => IInv'
  BY StepSafe DEF Undisturbed
<1>4. IInv /\ HonestInv /\ SavedInv /\ StopInv /\ [Next]_vars => SavedInv' /\ StopInv'
  BY SavedStep, StopStep DEF HonestInv
<1>5. IInv /\ HonestInv /\ SavedInv /\ SavedInv' /\ StopInv /\ [Next]_vars
        => [Contract!ContractNext]_<<StoredQueue, StoredPhase>>
  BY ContractStep DEF HonestInv
<1>6. Spec => Contract!ContractSpec
  BY <1>1, <1>2, <1>3, <1>4, <1>5, Honest, PTL DEF Spec, Contract!ContractSpec
<1> QED BY <1>6 DEF ImplementsContract
=============================================================================

-------------------------- MODULE DiskQueue_proofs --------------------------
(***************************************************************************)
(* Theorems about DiskQueue for any number of nodes, requesters and        *)
(* budgeted events: its type invariant, that one disk never runs two       *)
(* compactions of this orchestrator, that the verdict on a finished job    *)
(* agrees with its runs, and that committed results stay.                  *)
(***************************************************************************)
EXTENDS DiskQueue, TLAPS

USE NodesAssumption, SwitchAssumption, BudgetAssumption

(* TypeOK alone is not inductive: a node's "idle" is no run state, and it  *)
(* is only because job numbers start at 1 and are never awaited as 0 that  *)
(* no run is ever given it.                                                *)
NumberInv ==
  /\ \A n \in Nodes : node[n].state = "idle" <=> node[n].id = 0
  /\ reply.code = "accepted" => reply.id # 0
  /\ \A n \in Nodes : IsHead(n) =>
       /\ pc \in {"post", "posting", "resolve"} => job.runs[n].prev # NoBaseline
       /\ pc = "wait" => job.runs[n].id # 0

(* Spending from a budget leaves a budget.                                 *)
LEMMA SpendType ==
  ASSUME TypeOK, NEW kinds, Spend(kinds)
  PROVE  budget' \in [BudgetKinds -> Nat]
<1>1. SUFFICES ASSUME NEW k \in BudgetKinds
               PROVE  (IF k \in kinds THEN budget[k] - 1 ELSE budget[k]) \in Nat
  BY DEF Spend
<1>2. budget[k] \in Nat
  BY DEF TypeOK
<1>3. k \in kinds => budget[k] > 0
  BY DEF Spend
<1> QED BY <1>2, <1>3

(* Saving, whether it succeeds or not, leaves a job on disk and a budget.  *)
LEMMA PersistType ==
  ASSUME TypeOK, NEW j \in Jobs, Persist(j)
  PROVE  disk' \in Jobs /\ budget' \in [BudgetKinds -> Nat]
<1>1. CASE disk' = j /\ UNCHANGED budget
  BY <1>1 DEF TypeOK
<1>2. CASE disk' = disk /\ Spend({"failedSaves"})
  BY <1>2, SpendType DEF TypeOK
<1> QED BY <1>1, <1>2 DEF Persist

(* Replacing one run leaves a job whose state and other runs are the same. *)
LEMMA SetRunFacts ==
  ASSUME TypeOK, NEW n \in Nodes, NEW run \in Runs
  PROVE  /\ SetRun(n, run) \in Jobs
         /\ SetRun(n, run).state = job.state
         /\ SetRun(n, run).runs = [job.runs EXCEPT ![n] = run]
  BY DEF SetRun, TypeOK, Jobs

(* The new contents of a run are the old ones with one or two fields set.  *)
LEMMA RunFieldTypes ==
  ASSUME TypeOK, NEW n \in Nodes
  PROVE  /\ job.runs[n] \in Runs
         /\ \A s \in RunStates : [job.runs[n] EXCEPT !.state = s] \in Runs
         /\ \A i \in Nat : [job.runs[n] EXCEPT !.prev = i] \in Runs
         /\ \A i \in Nat :
              [job.runs[n] EXCEPT !.state = "running", !.id = i] \in Runs
<1>1. job.runs[n] \in Runs
  BY DEF TypeOK, Jobs
<1> QED BY <1>1 DEF Runs, RunStates

(* Ending a run, as finishNodeRun does, keeps every type.                  *)
LEMMA FinishRunType ==
  ASSUME TypeOK, NEW n \in Nodes, NEW s \in RunStates, FinishRun(n, s)
  PROVE  /\ job' \in Jobs /\ disk' \in Jobs /\ budget' \in [BudgetKinds -> Nat]
         /\ pc' \in PCs /\ todo' \subseteq Nodes
         /\ seen' \in [failed : BOOLEAN, stopped : BOOLEAN]
<1>1. SetRun(n, [job.runs[n] EXCEPT !.state = s]) \in Jobs
  BY SetRunFacts, RunFieldTypes
<1>2. disk' \in Jobs /\ budget' \in [BudgetKinds -> Nat]
  BY <1>1, PersistType DEF FinishRun
<1>3. seen' \in [failed : BOOLEAN, stopped : BOOLEAN]
  BY DEF FinishRun, TypeOK
<1> QED BY <1>1, <1>2, <1>3 DEF FinishRun, TypeOK, PCs

(* So does recording the node job that is waited for.                      *)
LEMMA WaitForType ==
  ASSUME TypeOK, NEW n \in Nodes, NEW id \in Nat, WaitFor(n, id)
  PROVE  /\ job' \in Jobs /\ disk' \in Jobs /\ budget' \in [BudgetKinds -> Nat]
         /\ pc' \in PCs /\ todo' \subseteq Nodes
         /\ seen' \in [failed : BOOLEAN, stopped : BOOLEAN]
<1>1. SetRun(n, [job.runs[n] EXCEPT !.state = "running", !.id = id]) \in Jobs
  BY SetRunFacts, RunFieldTypes
<1>2. disk' \in Jobs /\ budget' \in [BudgetKinds -> Nat]
  BY <1>1, PersistType DEF WaitFor
<1> QED BY <1>1, <1>2 DEF WaitFor, TypeOK, PCs

(* Both the empty database and a legacy one are well typed.                *)
LEMMA InitType == Init => TypeOK
<1> SUFFICES ASSUME Init PROVE TypeOK
  OBVIOUS
<1>1. \A S \in SUBSET Nodes : NewJob(S) \in Jobs
  BY DEF NewJob, Absent, Jobs, Runs, RunStates, JobStates
<1>2. disk \in Jobs /\ node \in [Nodes -> NodeRecords]
  <2>1. CASE disk = NoJob /\ node = [n \in Nodes |-> IdleNode]
    BY <2>1 DEF NoJob, Absent, Jobs, Runs, RunStates, JobStates,
                IdleNode, NodeRecords, NodeStates
  <2>2. ASSUME NEW n \in Nodes, NEW s \in {"cut", "running"}, NEW id \in {0, 1},
               disk = LegacyJob(n, s, id),
               node = [m \in Nodes |->
                          IF m = n THEN [IdleNode EXCEPT !.id = 1, !.own = TRUE,
                                                         !.state = "running"]
                                   ELSE IdleNode]
        PROVE  disk \in Jobs /\ node \in [Nodes -> NodeRecords]
    <3>1. disk \in Jobs
      <4>1. [state |-> s, prev |-> NoBaseline, id |-> id] \in Runs
        BY DEF Runs, RunStates
      <4> QED BY <1>1, <2>2, <4>1 DEF LegacyJob, Jobs
    <3> QED BY <2>2, <3>1 DEF IdleNode, NodeRecords, NodeStates
  <2> QED BY <2>1, <2>2 DEF Init
<1> QED BY <1>2 DEF Init, TypeOK, PCs, NothingSeen, NoRequest, NoReply, Requests, Replies

(* No step of a start request (startGroupWithTrigger) breaks a type.       *)
LEMMA RequestStepType ==
  ASSUME TypeOK, NEW r \in Requesters, RequestNext(r)
  PROVE  TypeOK'
<1>1. CASE \E S \in SUBSET Nodes : RequestStart(r, S)
  BY <1>1, SpendType DEF RequestStart, TypeOK, Requests
<1>2. CASE \E n \in Nodes : PreflightVerify(r, n)
  BY <1>2 DEF PreflightVerify, TypeOK, Requests
<1>3. CASE \E n \in Nodes : PreflightReject(r, n)
  BY <1>3 DEF PreflightReject, TypeOK, Requests, NoRequest
<1>4. CASE AdmitConflict(r)
  BY <1>4 DEF AdmitConflict, TypeOK, Requests, NoRequest
<1>5. CASE Admit(r)
  <2>1. req[r].target \subseteq Nodes
    BY DEF TypeOK, Requests
  <2>2. NewJob(req[r].target) \in Jobs
    BY <2>1 DEF NewJob, Absent, Jobs, Runs, RunStates, JobStates
  <2> QED BY <1>5, <2>1, <2>2 DEF Admit, TypeOK, Requests, NoRequest, PCs, NothingSeen
<1>6. CASE AdmitUnsaved(r)
  BY <1>6, SpendType DEF AdmitUnsaved, TypeOK, Requests, NoRequest
<1> QED BY <1>1, <1>2, <1>3, <1>4, <1>5, <1>6 DEF RequestNext

(* No step of the runner (runJob and what it calls) breaks a type.         *)
LEMMA RunnerStepType ==
  ASSUME TypeOK, NumberInv, NEW n \in Nodes, RunnerNext(n)
  PROVE  TypeOK'
<1> USE DEF TypeOK
<1>r. /\ job \in Jobs /\ job.runs[n] \in Runs
      /\ node[n] \in NodeRecords /\ node[n].id \in Nat /\ reply.id \in Nat
  BY DEF Jobs, NodeRecords, Replies
<1>n. NoReply \in Replies
  BY DEF NoReply, Replies
<1>s. {"failed", "succeeded", "queued", "checking", "running"} \subseteq RunStates
  BY DEF RunStates
<1>1. CASE SkipSettled(n)
  BY <1>1 DEF SkipSettled
<1>2. CASE TakeQueued(n)
  <2>1. SetRun(n, [job.runs[n] EXCEPT !.state = "checking"]) \in Jobs
    BY SetRunFacts, RunFieldTypes, <1>s
  <2> QED BY <1>2, <2>1, PersistType DEF TakeQueued, PCs
<1>3. CASE TakeRunning(n)
  <2>1. CASE pc' = "wait" /\ Persist(job) /\ UNCHANGED <<job, todo, seen>>
    BY <1>3, <2>1, <1>r, PersistType DEF TakeRunning, PCs
  <2>2. CASE FinishRun(n, "failed")
    BY <1>3, <2>2, <1>s, FinishRunType DEF TakeRunning
  <2> QED BY <1>3, <2>1, <2>2 DEF TakeRunning
<1>4. CASE TakeChecking(n)
  BY <1>4, <1>r, PersistType DEF TakeChecking, PCs
<1>5. CASE ProbeFails(n)
  BY <1>5, <1>s, FinishRunType DEF ProbeFails
<1>6. CASE ProbeBaseline(n)
  <2>1. SetRun(n, [job.runs[n] EXCEPT !.prev = node[n].id]) \in Jobs
    BY SetRunFacts, RunFieldTypes, <1>r
  <2> QED BY <1>6, <2>1, PersistType DEF ProbeBaseline, PCs
<1>7. CASE SendStart(n)
  BY <1>7, <1>n DEF SendStart, PCs
<1>8. CASE ReceiveAccepted(n)
  BY <1>8, <1>r, <1>n, WaitForType DEF ReceiveAccepted
<1>9. CASE ReceiveRefused(n)
  BY <1>9, <1>s, <1>n, FinishRunType DEF ReceiveRefused
<1>10. CASE StartAmbiguous(n)
  BY <1>10, <1>n DEF StartAmbiguous, PCs
<1>11. CASE Resolve(n)
  <2>1. CASE WaitFor(n, node[n].id)
    BY <1>11, <2>1, <1>r, WaitForType DEF Resolve
  <2>2. CASE FinishRun(n, "failed")
    BY <1>11, <2>2, <1>s, FinishRunType DEF Resolve
  <2> QED BY <1>11, <2>1, <2>2 DEF Resolve
<1>12. CASE ReconcileRequeue(n)
  <2>1. SetRun(n, [job.runs[n] EXCEPT !.state = "queued"]) \in Jobs
    BY SetRunFacts, RunFieldTypes, <1>s
  <2> QED BY <1>12, <2>1, PersistType DEF ReconcileRequeue, PCs
<1>13. CASE ReconcileAdopt(n)
  BY <1>13, <1>r, WaitForType DEF ReconcileAdopt
<1>14. CASE ReconcileForeign(n)
  <2>1. CASE pc' = "foreign" /\ UNCHANGED <<job, disk, todo, seen, budget>>
    BY <1>14, <2>1 DEF ReconcileForeign, PCs
  <2>2. CASE FinishRun(n, "failed")
    BY <1>14, <2>2, <1>s, FinishRunType DEF ReconcileForeign
  <2> QED BY <1>14, <2>1, <2>2 DEF ReconcileForeign
<1>15. CASE AwaitForeign(n)
  BY <1>15, <1>s, FinishRunType DEF AwaitForeign
<1>16. CASE AwaitJob(n)
  <2>1. node[n].id = job.runs[n].id => node[n].state # "idle"
    BY <1>16 DEF NumberInv, AwaitJob, At
  <2>2. node[n].state \in NodeStates
    BY DEF NodeRecords
  <2>3. (IF node[n].id = job.runs[n].id THEN node[n].state ELSE "failed") \in RunStates
    BY <2>1, <2>2 DEF NodeStates, RunStates
  <2> QED BY <1>16, <2>3, FinishRunType DEF AwaitJob
<1> QED BY <1>1, <1>2, <1>3, <1>4, <1>5, <1>6, <1>7, <1>8, <1>9, <1>10, <1>11,
           <1>12, <1>13, <1>14, <1>15, <1>16 DEF RunnerNext

(* No step of a storage node or of the network breaks a type.              *)
LEMMA NodeStepType ==
  ASSUME TypeOK, NEW n \in Nodes, NodeNext(n)
  PROVE  TypeOK'
<1>r. /\ node[n] \in NodeRecords /\ node[n].id + 1 \in Nat
      /\ \A rec \in NodeRecords : [node EXCEPT ![n] = rec] \in [Nodes -> NodeRecords]
  BY DEF TypeOK, NodeRecords
<1>1. CASE HandleStart(n)
  <2>1. \A code \in {"accepted", "conflict", "refused"}, id \in Nat :
          [code |-> code, id |-> id] \in Replies
    BY DEF Replies
  <2>2. reply' \in Replies
    BY <1>1, <1>r, <2>1 DEF HandleStart, TypeOK
  <2>3. [node[n] EXCEPT !.id = node[n].id + 1, !.state = "running", !.own = TRUE]
          \in NodeRecords
    BY <1>r DEF NodeRecords, NodeStates
  <2>4. node' \in [Nodes -> NodeRecords]
    <3>1. CASE UNCHANGED node
      BY <3>1 DEF TypeOK
    <3>2. CASE ~ UNCHANGED node
      BY <1>1, <1>r, <2>3, <3>2 DEF HandleStart
    <3> QED BY <3>1, <3>2
  <2> QED BY <1>1, <2>2, <2>4 DEF HandleStart, TypeOK
<1>2. CASE NodeFinishes(n)
  <2>1. \A s \in {"succeeded", "failed"} :
          [node[n] EXCEPT !.state = s, !.own = FALSE] \in NodeRecords
    BY <1>r DEF NodeRecords, NodeStates
  <2>2. node' \in [Nodes -> NodeRecords]
    BY <1>2, <1>r, <2>1 DEF NodeFinishes
  <2> QED BY <1>2, <2>2 DEF NodeFinishes, TypeOK
<1>3. CASE ForeignStart(n)
  <2>1. [node[n] EXCEPT !.id = node[n].id + 1, !.state = "running"] \in NodeRecords
    BY <1>r DEF NodeRecords, NodeStates
  <2> QED BY <1>3, <1>r, <2>1, SpendType DEF ForeignStart, TypeOK
<1>4. CASE NodeRestarts(n)
  <2>1. [node[n] EXCEPT !.id = 0, !.state = "idle", !.own = FALSE] \in NodeRecords
    BY <1>r DEF NodeRecords, NodeStates
  <2> QED BY <1>4, <1>r, <2>1, SpendType DEF NodeRestarts, TypeOK
<1>5. CASE Disconnect(n)
  <2>1. [node[n] EXCEPT !.reachable = FALSE] \in NodeRecords
    BY <1>r DEF NodeRecords
  <2> QED BY <1>5, <1>r, <2>1, SpendType DEF Disconnect, TypeOK
<1>6. CASE Reconnect(n)
  <2>1. [node[n] EXCEPT !.reachable = TRUE] \in NodeRecords
    BY <1>r DEF NodeRecords
  <2> QED BY <1>6, <1>r, <2>1 DEF Reconnect, TypeOK
<1> QED BY <1>1, <1>2, <1>3, <1>4, <1>5, <1>6 DEF NodeNext

(* Nor does a stop, the verdict, a late save, a crash or a restart.        *)
LEMMA ProcessStepType ==
  ASSUME TypeOK,
         Stop \/ FinishQueue \/ SaveElsewhere \/ Crash \/ Restart \/ RestartUnsaved
  PROVE  TypeOK'
<1> USE DEF TypeOK
<1>1. CASE Stop
  <2>1. [job EXCEPT !.state = "stopping"] \in Jobs
    BY DEF Jobs, JobStates
  <2> QED BY <1>1, <2>1, SpendType DEF Stop
<1>2. CASE FinishQueue
  <2> DEFINE skipped == [n \in Nodes |->
                           IF job.runs[n].state = "queued"
                             THEN [job.runs[n] EXCEPT !.state = "skipped"]
                             ELSE job.runs[n]]
  <2>1. skipped \in [Nodes -> Runs]
    BY DEF Jobs, Runs, RunStates
  <2>2. [state |-> "stopped", runs |-> skipped] \in Jobs
    BY <2>1 DEF Jobs, JobStates
  <2>3. \A s \in {"failed", "succeeded"} : [job EXCEPT !.state = s] \in Jobs
    BY DEF Jobs, JobStates
  <2>4. job' \in Jobs /\ Persist(job')
    BY <1>2, <2>2, <2>3 DEF FinishQueue
  <2>5. disk' \in Jobs /\ budget' \in [BudgetKinds -> Nat]
    BY <2>4, PersistType
  <2> QED BY <1>2, <2>4, <2>5 DEF FinishQueue, PCs, NothingSeen
<1>3. CASE SaveElsewhere
  BY <1>3 DEF SaveElsewhere
<1>4. CASE Crash
  BY <1>4, SpendType DEF Crash, PCs, NothingSeen, NoReply, NoRequest, Replies, Requests
<1>5. CASE Restart
  <2>1. Repaired(disk) \in Jobs
    <3> DEFINE repaired == [n \in Nodes |->
                 IF disk.runs[n].state = "cut" /\ disk.runs[n].id # 0
                   THEN [disk.runs[n] EXCEPT !.state = "running"] ELSE disk.runs[n]]
    <3>1. repaired \in [Nodes -> Runs]
      BY DEF Jobs, Runs, RunStates
    <3>2. [disk EXCEPT !.runs = repaired] \in Jobs
      BY <3>1 DEF Jobs
    <3> QED BY <3>2 DEF Repaired
  <2> QED BY <1>5, <2>1 DEF Restart, PCs, Members
<1>6. CASE RestartUnsaved
  BY <1>6, SpendType DEF RestartUnsaved
<1> QED BY <1>1, <1>2, <1>3, <1>4, <1>5, <1>6

-----------------------------------------------------------------------------
(* NumberInv, and with it the type invariant.                              *)

(* Nodes are numbers, so a set of them has at most one first element.      *)
LEMMA HeadUnique ==
  ASSUME TypeOK, NEW m \in Nodes, NEW n \in Nodes, IsHead(m), IsHead(n)
  PROVE  m = n
  BY DEF IsHead

(* What the runner's two ways to change a run do to it.                    *)
LEMMA FinishRunFacts ==
  ASSUME TypeOK, NEW n \in Nodes, NEW s \in RunStates, FinishRun(n, s)
  PROVE  /\ job'.state = job.state
         /\ job'.runs = [job.runs EXCEPT ![n] = [job.runs[n] EXCEPT !.state = s]]
         /\ job'.runs[n].state = s
         /\ \A m \in Nodes : m # n => job'.runs[m] = job.runs[m]
         /\ pc' = "pick" /\ todo' = todo \ {n} /\ Persist(job')
<1> DEFINE run == [job.runs[n] EXCEPT !.state = s]
<1>1. run \in Runs /\ job.runs \in [Nodes -> Runs] /\ job.runs[n] \in Runs
  BY RunFieldTypes DEF TypeOK, Jobs
<1>2. run.state = s
  BY <1>1 DEF Runs
<1>3. job' = SetRun(n, run)
  BY DEF FinishRun
<1>4. job'.state = job.state /\ job'.runs = [job.runs EXCEPT ![n] = run]
  BY <1>1, <1>3, SetRunFacts
<1> QED BY <1>1, <1>2, <1>4 DEF FinishRun

(* WaitFor opens the run of n with its job number and no other run.        *)
LEMMA WaitForFacts ==
  ASSUME TypeOK, NEW n \in Nodes, NEW id \in Nat, WaitFor(n, id)
  PROVE  /\ job'.state = job.state
         /\ job'.runs[n].state = "running" /\ job'.runs[n].id = id
         /\ job'.runs[n].prev = job.runs[n].prev
         /\ \A m \in Nodes : m # n => job'.runs[m] = job.runs[m]
         /\ pc' = "wait" /\ todo' = todo /\ Persist(job')
<1> DEFINE run == [job.runs[n] EXCEPT !.state = "running", !.id = id]
<1>1. run \in Runs /\ job.runs \in [Nodes -> Runs] /\ job.runs[n] \in Runs
  BY RunFieldTypes DEF TypeOK, Jobs
<1>2. run.state = "running" /\ run.id = id /\ run.prev = job.runs[n].prev
  BY <1>1 DEF Runs
<1>3. job' = SetRun(n, run)
  BY DEF WaitFor
<1>4. job'.state = job.state /\ job'.runs = [job.runs EXCEPT ![n] = run]
  BY <1>1, <1>3, SetRunFacts
<1> QED BY <1>1, <1>2, <1>4 DEF WaitFor

(* A job number that was adopted is not 0.                                 *)
LEMMA AdoptedNumber ==
  ASSUME TypeOK, NumberInv, NEW n \in Nodes, job.runs[n].prev # NoBaseline,
         node[n].id > job.runs[n].prev \/ node[n].state = "running"
  PROVE  node[n].id \in Nat \ {0}
<1>1. job.runs[n].prev \in Nat /\ node[n].id \in Nat
  BY RunFieldTypes DEF Runs, TypeOK, NodeRecords
<1>2. node[n].state = "running" => node[n].id # 0
  BY DEF NumberInv
<1> QED BY <1>1, <1>2

(* The runner keeps NumberInv: what it adopts and awaits is numbered.      *)
LEMMA RunnerStepNumber ==
  ASSUME TypeOK, NumberInv, NEW n \in Nodes, RunnerNext(n)
  PROVE  NumberInv'
<1>1. UNCHANGED node
  BY DEF RunnerNext, SkipSettled, TakeQueued, TakeRunning, TakeChecking, ProbeFails,
         ProbeBaseline, SendStart, ReceiveAccepted, ReceiveRefused, StartAmbiguous,
         Resolve, ReconcileRequeue, ReconcileAdopt, ReconcileForeign, AwaitForeign,
         AwaitJob
<1>2. reply' \in {reply, NoReply}
  BY DEF RunnerNext, SkipSettled, TakeQueued, TakeRunning, TakeChecking, ProbeFails,
         ProbeBaseline, SendStart, ReceiveAccepted, ReceiveRefused, StartAmbiguous,
         Resolve, ReconcileRequeue, ReconcileAdopt, ReconcileForeign, AwaitForeign,
         AwaitJob
<1>3. SUFFICES ASSUME NEW m \in Nodes, IsHead(m)'
               PROVE  /\ pc' \in {"post", "posting", "resolve"}
                            => job'.runs[m].prev # NoBaseline
                      /\ pc' = "wait" => job'.runs[m].id # 0
  BY <1>1, <1>2 DEF NumberInv, NoReply
<1>4. IsHead(n)
  BY DEF RunnerNext, SkipSettled, TakeQueued, TakeRunning, TakeChecking, ProbeFails,
         ProbeBaseline, SendStart, ReceiveAccepted, ReceiveRefused, StartAmbiguous,
         Resolve, ReconcileRequeue, ReconcileAdopt, ReconcileForeign, AwaitForeign,
         AwaitJob, At
<1>5. CASE pc' \in {"pick", "probe", "reconcile", "foreign"}
  BY <1>5
<1>6. CASE todo' = todo
  <2>1. m = n
    BY <1>3, <1>4, <1>6, HeadUnique DEF IsHead
  <2>2. ASSUME NEW id \in Nat, WaitFor(n, id), id # 0
        PROVE  pc' = "wait" /\ job'.runs[n].id # 0
    BY <2>2, WaitForFacts
  <2>3. CASE TakeRunning(n)
    BY <2>1, <2>3 DEF TakeRunning, FinishRun
  <2>4. CASE ProbeBaseline(n)
    <3>1. node[n].id \in Nat /\ job.runs[n] \in Runs /\ job.runs \in [Nodes -> Runs]
      BY RunFieldTypes DEF TypeOK, NodeRecords, Jobs
    <3> DEFINE run == [job.runs[n] EXCEPT !.prev = node[n].id]
    <3>2. run \in Runs /\ run.prev = node[n].id
      BY <3>1, RunFieldTypes DEF Runs
    <3>3. job' = SetRun(n, run)
      BY <2>4 DEF ProbeBaseline
    <3>4. job'.runs = [job.runs EXCEPT ![n] = run]
      BY <3>2, <3>3, SetRunFacts
    <3>5. job'.runs[n].prev = node[n].id
      BY <3>1, <3>2, <3>4
    <3>6. node[n].id # NoBaseline
      BY <3>1 DEF NoBaseline
    <3> QED BY <2>1, <2>4, <3>5, <3>6 DEF ProbeBaseline
  <2>5. CASE SendStart(n) \/ StartAmbiguous(n)
    BY <1>4, <2>1, <2>5 DEF SendStart, StartAmbiguous, NumberInv, At
  <2>6. CASE ReceiveAccepted(n)
    BY <2>1, <2>2, <2>6 DEF ReceiveAccepted, NumberInv, TypeOK, Replies
  <2>7. CASE Resolve(n)
    <3>1. job.runs[n].prev # NoBaseline
      BY <1>4, <2>7 DEF Resolve, At, NumberInv
    <3> QED BY <2>1, <2>2, <2>7, <3>1, AdoptedNumber DEF Resolve, FinishRun
  <2>8. CASE ReconcileAdopt(n)
    BY <2>1, <2>2, <2>8, AdoptedNumber DEF ReconcileAdopt
  <2>9. CASE pc' = "pick" \/ pc' = "probe" \/ pc' = "reconcile" \/ pc' = "foreign"
    BY <2>9
  <2> QED BY <2>3, <2>4, <2>5, <2>6, <2>7, <2>8, <2>9
          DEF RunnerNext, SkipSettled, TakeQueued, TakeChecking, ProbeFails,
              ReceiveRefused, ReconcileRequeue, ReconcileForeign, AwaitForeign,
              AwaitJob, FinishRun, At
<1>7. pc' \in {"pick", "probe", "reconcile", "foreign"} \/ todo' = todo
  BY DEF RunnerNext, SkipSettled, TakeQueued, TakeRunning, TakeChecking, ProbeFails,
         ProbeBaseline, SendStart, ReceiveAccepted, ReceiveRefused, StartAmbiguous,
         Resolve, ReconcileRequeue, ReconcileAdopt, ReconcileForeign, AwaitForeign,
         AwaitJob, FinishRun, WaitFor, At
<1> QED BY <1>5, <1>6, <1>7

(* The nodes keep NumberInv: job numbers start at 1 after a restart.       *)
LEMMA NodeStepNumber ==
  ASSUME TypeOK, NumberInv, NEW n \in Nodes, NodeNext(n)
  PROVE  NumberInv'
<1>1. UNCHANGED <<job, pc, todo>>
  BY DEF NodeNext, HandleStart, NodeFinishes, ForeignStart, NodeRestarts, Disconnect,
         Reconnect
<1>2. node[n].id \in Nat /\ node[n] \in NodeRecords /\ node \in [Nodes -> NodeRecords]
  BY DEF TypeOK, NodeRecords
<1>3. reply'.code = "accepted" => reply'.id # 0
  <2>1. CASE HandleStart(n)
    BY <1>2, <2>1 DEF HandleStart, NumberInv
  <2>2. CASE UNCHANGED reply
    BY <2>2 DEF NumberInv
  <2> QED BY <2>1, <2>2 DEF NodeNext, NodeFinishes, ForeignStart, NodeRestarts,
                            Disconnect, Reconnect
<1>4. \A m \in Nodes : m # n => node'[m] = node[m]
  BY <1>2 DEF NodeNext, HandleStart, NodeFinishes, ForeignStart, NodeRestarts,
         Disconnect, Reconnect
<1>5. node'[n].state = "idle" <=> node'[n].id = 0
  <2>0. node[n].state = "idle" <=> node[n].id = 0
    BY DEF NumberInv
  <2>1. CASE UNCHANGED node
    BY <2>0, <2>1
  <2>2. ASSUME NEW own \in BOOLEAN,
               node' = [node EXCEPT ![n] = [@ EXCEPT !.id = node[n].id + 1,
                                                   !.state = "running", !.own = own]]
        PROVE  node'[n].state = "running" /\ node'[n].id # 0
    BY <1>2, <2>2 DEF NodeRecords
  <2>3. CASE HandleStart(n)
    BY <2>0, <2>1, <2>2, <2>3 DEF HandleStart
  <2>4. CASE ForeignStart(n)
    BY <1>2, <2>4 DEF ForeignStart, NodeRecords
  <2>5. CASE NodeFinishes(n)
    BY <1>2, <2>0, <2>5 DEF NodeFinishes, NodeRecords
  <2>6. CASE NodeRestarts(n)
    BY <1>2, <2>6 DEF NodeRestarts, NodeRecords
  <2>7. CASE Disconnect(n) \/ Reconnect(n)
    BY <1>2, <2>0, <2>7 DEF Disconnect, Reconnect, NodeRecords
  <2> QED BY <2>3, <2>4, <2>5, <2>6, <2>7 DEF NodeNext
<1> QED BY <1>1, <1>3, <1>4, <1>5 DEF NumberInv, IsHead

(* Requests, crashes and restarts keep NumberInv.                          *)
LEMMA ProcessStepNumber ==
  ASSUME TypeOK, NumberInv,
         \/ Stop \/ FinishQueue \/ SaveElsewhere \/ Crash \/ Restart \/ RestartUnsaved
         \/ \E r \in Requesters : RequestNext(r)
         \/ UNCHANGED vars
  PROVE  NumberInv'
<1>1. UNCHANGED node /\ reply' \in {reply, NoReply}
  BY DEF Stop, FinishQueue, SaveElsewhere, Crash, Restart, RestartUnsaved, RequestNext,
         RequestStart, PreflightVerify, PreflightReject, AdmitConflict, Admit,
         AdmitUnsaved, vars
<1>2. \/ pc' \in {"pick", "free", "down"}
      \/ pc' = pc /\ todo' = todo /\ job'.runs = job.runs
  BY DEF Stop, FinishQueue, SaveElsewhere, Crash, Restart, RestartUnsaved, RequestNext,
         RequestStart, PreflightVerify, PreflightReject, AdmitConflict, Admit,
         AdmitUnsaved, vars, TypeOK, Jobs
<1> QED BY <1>1, <1>2 DEF NumberInv, NoReply, IsHead

(* NumberInv holds at the start, also with a legacy database.              *)
LEMMA InitNumber == Init => NumberInv
<1> SUFFICES ASSUME Init PROVE NumberInv
  OBVIOUS
<1>1. \A n \in Nodes : node[n].state = "idle" <=> node[n].id = 0
  <2>1. CASE node = [n \in Nodes |-> IdleNode]
    BY <2>1 DEF IdleNode
  <2>2. ASSUME NEW n \in Nodes,
               node = [m \in Nodes |->
                          IF m = n THEN [IdleNode EXCEPT !.id = 1, !.own = TRUE,
                                                         !.state = "running"]
                                   ELSE IdleNode]
        PROVE  \A m \in Nodes : node[m].state = "idle" <=> node[m].id = 0
    <3> DEFINE busy == [IdleNode EXCEPT !.id = 1, !.own = TRUE, !.state = "running"]
    <3>1. IdleNode.state = "idle" /\ IdleNode.id = 0
      BY DEF IdleNode
    <3>2. busy.state = "running" /\ busy.id = 1
      BY DEF IdleNode
    <3> TAKE m \in Nodes
    <3>3. CASE m = n
      <4>1. node[m] = busy
        BY <2>2, <3>3
      <4> QED BY <3>2, <4>1
    <3>4. CASE m # n
      <4>1. node[m] = IdleNode
        BY <2>2, <3>4
      <4> QED BY <3>1, <4>1
    <3> QED BY <3>3, <3>4
  <2> QED BY <2>1, <2>2 DEF Init
<1>2. reply.code # "accepted" /\ pc = "down"
  BY DEF Init, NoReply
<1> QED BY <1>1, <1>2 DEF NumberInv

(* Every step keeps the types and the numbers.                             *)
LEMMA TypeStep ==
  ASSUME TypeOK, NumberInv, [Next]_vars
  PROVE  TypeOK' /\ NumberInv'
<1>1. CASE \E r \in Requesters : RequestNext(r)
  BY <1>1, RequestStepType, ProcessStepNumber
<1>2. ASSUME NEW n \in Nodes, RunnerNext(n)
      PROVE  TypeOK' /\ NumberInv'
  BY <1>2, RunnerStepType, RunnerStepNumber
<1>3. ASSUME NEW n \in Nodes, NodeNext(n)
      PROVE  TypeOK' /\ NumberInv'
  BY <1>3, NodeStepType, NodeStepNumber
<1>4. CASE Stop \/ FinishQueue \/ SaveElsewhere \/ Crash \/ Restart \/ RestartUnsaved
  BY <1>4, ProcessStepType, ProcessStepNumber
<1>5. CASE UNCHANGED vars
  <2>1. TypeOK'
    BY <1>5 DEF vars, TypeOK
  <2> QED BY <1>5, <2>1, ProcessStepNumber
<1> QED BY <1>1, <1>2, <1>3, <1>4, <1>5 DEF Next

(* Every variable keeps its type, and no run is ever given a state that is *)
(* no run state, whatever the network, the nodes and the database do.      *)
THEOREM TypeCorrect == Spec => []TypeOK
<1>1. Init => TypeOK /\ NumberInv
  BY InitType, InitNumber
<1>2. TypeOK /\ NumberInv /\ [Next]_vars => (TypeOK /\ NumberInv)'
  BY TypeStep
<1> QED BY <1>1, <1>2, PTL DEF Spec

-----------------------------------------------------------------------------
(* Exclusion. It is proved for a network in which a POST does not outlive  *)
(* its sender and an error other than 409 comes from the node itself, for  *)
(* a database this version wrote, and for saves that do not fail where     *)
(* crashes happen. Each of these is needed: without it TLC finds two       *)
(* compactions on one disk.                                                *)
Reliable ==
  /\ ~LateDelivery /\ ~GatewayErrors /\ ~LegacyDatabase
  /\ \A b \in Budgets : b["failedSaves"] = 0 \/ b["crashes"] = 0

(* A job of ours is a running one, and refusing nodes run none.            *)
NodeInv ==
  \A n \in Nodes : node[n].own => node[n].state = "running" /\ n \notin RefusingNodes

(* As long as a crash may still come, every save succeeds, and memory and  *)
(* database agree: a restart forgets nothing.                              *)
StoreInv ==
  /\ budget["crashes"] > 0 => budget["failedSaves"] = 0
  /\ pc = "down" \/ budget["crashes"] > 0 => disk = job

(* Settled nodes, then at most one open node, then queued ones.            *)
OrderInv ==
  Active(job) =>
    \A k, m \in Nodes :
      k < m /\ job.runs[m].state \notin {"absent", "queued"}
        => job.runs[k].state \notin {"queued", "checking", "running"}

RunInv ==
  \A n \in Nodes : /\ job.runs[n].state # "cut"
                   /\ job.runs[n].state = "running" => job.runs[n].id # 0

(* What the place of the runner says of the job and of its loop.           *)
RunnerInv ==
  /\ pc = "free" => ~Active(job)
  /\ pc \notin {"free", "down"} =>
       /\ Active(job)
       /\ \A n \in Nodes :
            job.runs[n].state \in {"queued", "checking", "running"} => n \in todo
  /\ \A n \in Nodes : IsHead(n) =>
       /\ pc \in {"probe", "post", "posting", "resolve", "reconcile", "foreign"}
            => job.runs[n].state = "checking"
       /\ pc = "wait" => job.runs[n].state = "running"
       /\ pc = "probe" => ~node[n].own

(* A POST is travelling only for the run whose answer is awaited, or was   *)
(* when the process died; an answer means it has arrived.                  *)
WireInv ==
  /\ wire # {} => pc \in {"down", "posting"} /\ Active(job)
  /\ \A n \in wire : /\ job.runs[n].state = "checking"
                     /\ job.runs[n].prev # NoBaseline
                     /\ pc = "posting" => IsHead(n)
  /\ reply.code # "none" => pc = "posting" /\ wire = {}
  /\ reply.code = "refused" => \A n \in Nodes : IsHead(n) => n \in RefusingNodes

(* As long as the job is active, a compaction of ours belongs to an open   *)
(* run, and if that run is still being checked it knows its baseline.      *)
OwnerInv ==
  Active(job) =>
    \A n \in Nodes : node[n].own =>
      \/ job.runs[n].state = "running"
      \/ job.runs[n].state = "checking" /\ job.runs[n].prev # NoBaseline

(* Nodes a preflight has verified stay free of our compactions until the   *)
(* next job; a request that outlives an admission saw a job that was not   *)
(* recovered, so the runner finds nothing open but what it opened itself.  *)
RequestInv ==
  /\ pc = "down" => \A r \in Requesters : req[r].target = {}
  /\ \A r \in Requesters :
       /\ req[r].verified # {} => req[r].target # {}
       /\ ~Active(job) => \A n \in req[r].verified : ~node[n].own
       /\ req[r].target # {} /\ pc = "pick" => \A n \in todo : ~Open(job, n)

SafetyInv ==
  /\ NodeInv /\ StoreInv /\ OrderInv /\ RunInv /\ RunnerInv
  /\ WireInv /\ OwnerInv /\ RequestInv /\ Exclusion

IInv == TypeOK /\ NumberInv /\ SafetyInv

(* An active job has one open run at most.                                 *)
LEMMA OneOpen ==
  ASSUME TypeOK, OrderInv, Active(job),
         NEW m \in Nodes, NEW n \in Nodes, Open(job, m), Open(job, n)
  PROVE  m = n
  BY DEF OrderInv, Open

(* Saving keeps StoreInv.                                                  *)
LEMMA PersistStore ==
  ASSUME TypeOK, StoreInv, pc # "down", pc' # "down", Persist(job')
  PROVE  StoreInv'
<1>0. {"crashes", "failedSaves"} \subseteq BudgetKinds
  BY DEF BudgetKinds
<1>1. CASE disk' = job' /\ UNCHANGED budget
  BY <1>1 DEF StoreInv
<1>2. CASE disk' = disk /\ Spend({"failedSaves"})
  BY <1>0, <1>2 DEF StoreInv, Spend, TypeOK
<1> QED BY <1>1, <1>2 DEF Persist

(* The runner brings the run of its current node to an end.                *)
LEMMA SettleStep ==
  ASSUME IInv, NEW n \in Nodes, IsHead(n), pc \notin {"down", "free"},
         Open(job, n), ~node[n].own, wire = {},
         NEW s \in {"failed", "succeeded"}, FinishRun(n, s),
         UNCHANGED <<node, req, wire>>, reply'.code = "none"
  PROVE  SafetyInv'
<1> USE DEF IInv, SafetyInv
<1>1. /\ job'.state = job.state
      /\ job'.runs[n].state = s
      /\ \A m \in Nodes : m # n => job'.runs[m] = job.runs[m]
      /\ pc' = "pick" /\ todo' = todo \ {n} /\ Persist(job')
  BY FinishRunFacts DEF RunStates
<1>2. Active(job) /\ Active(job')
  BY <1>1 DEF Active, RunnerInv
<1>3. StoreInv'
  BY <1>1, PersistStore
<1>4. OrderInv' /\ RunInv'
  BY <1>1, <1>2 DEF OrderInv, RunInv, Open
<1>5. RunnerInv'
  BY <1>1, <1>2 DEF RunnerInv
<1>6. WireInv'
  BY <1>1 DEF WireInv
<1>7. OwnerInv'
  BY <1>1, <1>2 DEF OwnerInv
<1>8. RequestInv'
  <2>1. ASSUME NEW m \in todo' PROVE ~Open(job', m)
    <3>1. m \in Nodes /\ n < m
      BY <1>1, <2>1 DEF IsHead, TypeOK
    <3> QED BY <1>1, <1>2, <3>1 DEF OrderInv, Open
  <2> QED BY <1>1, <1>2, <2>1 DEF RequestInv
<1> QED BY <1>3, <1>4, <1>5, <1>6, <1>7, <1>8 DEF NodeInv, Exclusion

(* The runner begins to wait for a node job.                               *)
LEMMA WaitStep ==
  ASSUME IInv, NEW n \in Nodes, IsHead(n), pc \notin {"down", "free"},
         job.runs[n].state = "checking", wire = {},
         NEW id \in Nat \ {0}, WaitFor(n, id),
         UNCHANGED <<node, req, wire>>, reply'.code = "none"
  PROVE  SafetyInv'
<1> USE DEF IInv, SafetyInv
<1>1. /\ job'.state = job.state
      /\ job'.runs[n].state = "running" /\ job'.runs[n].id = id
      /\ \A m \in Nodes : m # n => job'.runs[m] = job.runs[m]
      /\ pc' = "wait" /\ todo' = todo /\ Persist(job')
  BY WaitForFacts
<1>2. Active(job) /\ Active(job')
  BY <1>1 DEF Active, RunnerInv
<1>3. StoreInv'
  BY <1>1, PersistStore
<1>4. OrderInv' /\ RunInv'
  BY <1>1, <1>2 DEF OrderInv, RunInv
<1>5. RunnerInv'
  <2>1. \A m \in Nodes : IsHead(m)' => m = n
    BY <1>1, HeadUnique DEF IsHead
  <2> QED BY <1>1, <1>2, <2>1 DEF RunnerInv
<1>6. WireInv'
  BY <1>1 DEF WireInv
<1>7. OwnerInv'
  BY <1>1, <1>2 DEF OwnerInv
<1>8. RequestInv'
  BY <1>1, <1>2 DEF RequestInv
<1> QED BY <1>3, <1>4, <1>5, <1>6, <1>7, <1>8 DEF NodeInv, Exclusion

(* The runner replaces the run of its current node and goes on to pc'.     *)
LEMMA UpdateFacts ==
  ASSUME TypeOK, NEW n \in Nodes, NEW run \in Runs, job' = SetRun(n, run)
  PROVE  /\ job'.state = job.state /\ job'.runs[n] = run
         /\ \A m \in Nodes : m # n => job'.runs[m] = job.runs[m]
<1>1. job'.state = job.state /\ job'.runs = [job.runs EXCEPT ![n] = run]
  BY SetRunFacts
<1>2. job.runs \in [Nodes -> Runs]
  BY DEF TypeOK, Jobs
<1> QED BY <1>1, <1>2

(* Passing a settled run keeps SafetyInv (orchestrator.go 750-761).        *)
LEMMA SkipSettledSafe ==
  ASSUME IInv, NEW n \in Nodes, SkipSettled(n)
  PROVE  SafetyInv'
<1> USE DEF IInv, SafetyInv, SkipSettled, At
<1>1. StoreInv' /\ OrderInv' /\ RunInv' /\ OwnerInv'
  BY DEF StoreInv, OrderInv, RunInv, OwnerInv, Active
<1>2. RunnerInv'
  BY DEF RunnerInv, Active
<1>3. WireInv'
  BY DEF WireInv, Active
<1>4. RequestInv'
  BY DEF RequestInv, Active, Open
<1> QED BY <1>1, <1>2, <1>3, <1>4 DEF NodeInv, Exclusion

(* Taking the next queued node keeps it (orchestrator.go 764-771).         *)
LEMMA TakeQueuedSafe ==
  ASSUME IInv, NEW n \in Nodes, TakeQueued(n)
  PROVE  SafetyInv'
<1> USE DEF IInv, SafetyInv
<1> DEFINE run == [job.runs[n] EXCEPT !.state = "checking"]
<1>0. "checking" \in RunStates
  BY DEF RunStates
<1>1. run \in Runs /\ run.state = "checking" /\ run.prev = job.runs[n].prev
  <2>1. run \in Runs /\ job.runs[n] \in Runs
    BY <1>0, RunFieldTypes
  <2> QED BY <2>1 DEF Runs
<1>2. job' = SetRun(n, run) /\ Persist(job')
  BY DEF TakeQueued
<1>3. /\ job'.state = job.state /\ job'.runs[n].state = "checking"
      /\ job'.runs[n].prev = job.runs[n].prev
      /\ \A m \in Nodes : m # n => job'.runs[m] = job.runs[m]
  BY <1>1, <1>2, UpdateFacts
<1> HIDE DEF run
<1>4. /\ pc = "pick" /\ pc' = "probe" /\ IsHead(n) /\ job.runs[n].state = "queued"
      /\ UNCHANGED <<node, todo, seen, req, wire, reply>>
  BY DEF TakeQueued, At
<1>5. Active(job) /\ Active(job')
  BY <1>3, <1>4 DEF Active, RunnerInv
<1>6. ~node[n].own
  BY <1>4, <1>5 DEF OwnerInv
<1>7. StoreInv'
  BY <1>2, <1>4, PersistStore
<1>8. OrderInv' /\ RunInv'
  <2>1. ASSUME NEW k \in Nodes, k < n
        PROVE  job.runs[k].state \notin {"queued", "checking", "running"}
    BY <1>4, <2>1 DEF IsHead, RunnerInv, TypeOK
  <2>2. \A m \in Nodes : job'.runs[m].state \notin {"absent", "queued"} /\ m # n
                            => ~(n < m)
    BY <1>3, <1>4, <1>5 DEF OrderInv
  <2> QED BY <1>3, <1>5, <2>1, <2>2 DEF OrderInv, RunInv
<1>9. RunnerInv'
  <2>1. \A m \in Nodes : IsHead(m)' => m = n
    BY <1>4, HeadUnique DEF IsHead
  <2> QED BY <1>3, <1>4, <1>5, <1>6, <2>1 DEF RunnerInv
<1>10. WireInv' /\ OwnerInv' /\ RequestInv'
  BY <1>3, <1>4, <1>5 DEF WireInv, OwnerInv, RequestInv
<1> QED BY <1>4, <1>7, <1>8, <1>9, <1>10 DEF NodeInv, Exclusion

(* Recording the baseline keeps it (orchestrator.go 865-885).              *)
LEMMA ProbeBaselineSafe ==
  ASSUME IInv, NEW n \in Nodes, ProbeBaseline(n)
  PROVE  SafetyInv'
<1> USE DEF IInv, SafetyInv
<1> DEFINE run == [job.runs[n] EXCEPT !.prev = node[n].id]
<1>0. node[n].id \in Nat
  BY DEF TypeOK, NodeRecords
<1>1. run \in Runs /\ run.state = job.runs[n].state /\ run.id = job.runs[n].id
  BY <1>0, RunFieldTypes DEF Runs
<1>2. job' = SetRun(n, run) /\ Persist(job')
  BY DEF ProbeBaseline
<1>3. /\ job'.state = job.state /\ job'.runs[n].state = job.runs[n].state
      /\ job'.runs[n].id = job.runs[n].id
      /\ \A m \in Nodes : m # n => job'.runs[m] = job.runs[m]
  BY <1>1, <1>2, UpdateFacts
<1> HIDE DEF run
<1>4. /\ pc = "probe" /\ pc' = "post" /\ IsHead(n)
      /\ UNCHANGED <<node, todo, seen, req, wire, reply>>
  BY DEF ProbeBaseline, At
<1>5. Active(job) /\ Active(job') /\ job.runs[n].state = "checking" /\ ~node[n].own
  BY <1>3, <1>4 DEF Active, RunnerInv
<1>6. StoreInv'
  BY <1>2, <1>4, PersistStore
<1>7. OrderInv' /\ RunInv'
  BY <1>3, <1>5 DEF OrderInv, RunInv
<1>8. RunnerInv'
  <2>1. \A m \in Nodes : IsHead(m)' => m = n
    BY <1>4, HeadUnique DEF IsHead
  <2> QED BY <1>3, <1>4, <1>5, <2>1 DEF RunnerInv
<1>9. WireInv' /\ OwnerInv' /\ RequestInv'
  BY <1>3, <1>4, <1>5 DEF WireInv, OwnerInv, RequestInv
<1> QED BY <1>4, <1>6, <1>7, <1>8, <1>9 DEF NodeInv, Exclusion

(* Queueing an interrupted run again keeps it: nothing of it runs.         *)
LEMMA ReconcileRequeueSafe ==
  ASSUME IInv, NEW n \in Nodes, ReconcileRequeue(n)
  PROVE  SafetyInv'
<1> USE DEF IInv, SafetyInv
<1> DEFINE run == [job.runs[n] EXCEPT !.state = "queued"]
<1>0. "queued" \in RunStates
  BY DEF RunStates
<1>1. run \in Runs /\ run.state = "queued"
  <2>1. run \in Runs /\ job.runs[n] \in Runs
    BY <1>0, RunFieldTypes
  <2> QED BY <2>1 DEF Runs
<1>2. job' = SetRun(n, run) /\ Persist(job')
  BY DEF ReconcileRequeue
<1>3. /\ job'.state = job.state /\ job'.runs[n].state = "queued"
      /\ \A m \in Nodes : m # n => job'.runs[m] = job.runs[m]
  BY <1>1, <1>2, UpdateFacts
<1> HIDE DEF run
<1>4. /\ pc = "reconcile" /\ pc' = "pick" /\ IsHead(n)
      /\ UNCHANGED <<node, todo, seen, req, wire, reply>>
  BY DEF ReconcileRequeue, At
<1>5. Active(job) /\ Active(job') /\ job.runs[n].state = "checking"
  BY <1>3, <1>4 DEF Active, RunnerInv
<1>6. ~node[n].own
  BY <1>5 DEF ReconcileRequeue, OwnerInv, NodeInv
<1>7. StoreInv'
  BY <1>2, <1>4, PersistStore
<1>8. OrderInv' /\ RunInv'
  BY <1>3, <1>5 DEF OrderInv, RunInv
<1>9. RunnerInv'
  BY <1>3, <1>4, <1>5 DEF RunnerInv, IsHead
<1>10. WireInv' /\ OwnerInv'
  BY <1>3, <1>4, <1>5, <1>6 DEF WireInv, OwnerInv
<1>11. RequestInv'
  <2>1. ASSUME NEW m \in todo PROVE ~Open(job', m)
    <3>1. m \in Nodes /\ (m = n \/ n < m)
      BY <1>4, <2>1 DEF IsHead, TypeOK
    <3> QED BY <1>3, <1>5, <3>1 DEF OrderInv, Open
  <2> QED BY <1>4, <1>5, <2>1 DEF RequestInv
<1> QED BY <1>4, <1>7, <1>8, <1>9, <1>10, <1>11 DEF NodeInv, Exclusion

(* Steps of the runner that change nothing but its place.                  *)
LEMMA MoveSafe ==
  ASSUME IInv, NEW n \in Nodes, IsHead(n), pc \notin {"down", "free", "posting"},
         UNCHANGED <<node, job, todo, req, wire, reply>>, wire = {},
         Persist(job),
         \/ job.runs[n].state = "checking" /\ pc' \in {"reconcile", "foreign"}
         \/ job.runs[n].state = "running" /\ pc' = "wait"
  PROVE  SafetyInv'
<1> USE DEF IInv, SafetyInv
<1>1. Active(job) /\ Active(job')
  BY DEF Active, RunnerInv
<1>2. StoreInv'
  BY PersistStore
<1>3. OrderInv' /\ RunInv' /\ OwnerInv'
  BY <1>1 DEF OrderInv, RunInv, OwnerInv
<1>4. RunnerInv'
  <2>1. \A m \in Nodes : IsHead(m)' => m = n
    BY HeadUnique DEF IsHead
  <2> QED BY <1>1, <2>1 DEF RunnerInv
<1>5. WireInv'
  BY DEF WireInv
<1>6. RequestInv'
  BY <1>1 DEF RequestInv
<1> QED BY <1>2, <1>3, <1>4, <1>5, <1>6 DEF NodeInv, Exclusion

(* Sending the POST and losing its answer keep it (887-892).               *)
LEMMA PostSafe ==
  ASSUME Reliable, IInv, NEW n \in Nodes, SendStart(n) \/ StartAmbiguous(n)
  PROVE  SafetyInv'
<1> USE DEF IInv, SafetyInv
<1>1. /\ IsHead(n) /\ pc \in {"post", "posting"} /\ pc' \in {"posting", "resolve"}
      /\ reply'.code = "none" /\ UNCHANGED <<node, job, disk, todo, seen, req, budget>>
  BY DEF SendStart, StartAmbiguous, At, NoReply
<1>2. Active(job) /\ Active(job') /\ job.runs[n].state = "checking"
  BY <1>1 DEF Active, RunnerInv
<1>3. job.runs[n].prev # NoBaseline
  BY <1>1 DEF NumberInv
<1>4. StoreInv' /\ OrderInv' /\ RunInv' /\ OwnerInv' /\ RequestInv'
  BY <1>1, <1>2 DEF StoreInv, OrderInv, RunInv, OwnerInv, RequestInv
<1>5. RunnerInv'
  <2>1. \A m \in Nodes : IsHead(m)' => m = n
    BY <1>1, HeadUnique DEF IsHead
  <2> QED BY <1>1, <1>2, <2>1 DEF RunnerInv
<1>6. WireInv'
  <2>1. CASE SendStart(n)
    <3>1. wire = {} /\ wire' = {n} /\ pc' = "posting"
      BY <2>1 DEF SendStart, At, WireInv
    <3> QED BY <1>1, <1>2, <1>3, <3>1 DEF WireInv, IsHead
  <2>2. CASE StartAmbiguous(n)
    <3>1. \A m \in wire : m = n
      BY <1>1, <2>2, HeadUnique DEF StartAmbiguous, At, WireInv, TypeOK
    <3>2. wire' = {}
      BY <2>2, <3>1 DEF StartAmbiguous, Reliable
    <3> QED BY <1>1, <3>2 DEF WireInv
  <2> QED BY <2>1, <2>2
<1> QED BY <1>1, <1>4, <1>5, <1>6 DEF NodeInv, Exclusion

(* Every step of the runner keeps SafetyInv.                               *)
LEMMA RunnerStepSafe ==
  ASSUME Reliable, IInv, NEW n \in Nodes, RunnerNext(n)
  PROVE  SafetyInv'
<1> USE DEF IInv, SafetyInv
<1>0. /\ IsHead(n) /\ pc \notin {"down", "free"}
      /\ pc # "posting" => wire = {} /\ reply.code = "none"
      /\ node[n].id \in Nat /\ node[n].state \in NodeStates
  <2>1. IsHead(n) /\ pc \notin {"down", "free"}
    BY DEF RunnerNext, SkipSettled, TakeQueued, TakeRunning, TakeChecking, ProbeFails,
           ProbeBaseline, SendStart, ReceiveAccepted, ReceiveRefused, StartAmbiguous,
           Resolve, ReconcileRequeue, ReconcileAdopt, ReconcileForeign, AwaitForeign,
           AwaitJob, At
  <2> QED BY <2>1 DEF WireInv, TypeOK, NodeRecords
<1>1. CASE SkipSettled(n)
  BY <1>1, SkipSettledSafe
<1>2. CASE TakeQueued(n)
  BY <1>2, TakeQueuedSafe
<1>3. CASE TakeRunning(n)
  <2>1. job.runs[n].id # 0
    BY <1>3 DEF TakeRunning, RunInv
  <2>2. job.runs[n].state = "running" /\ pc' = "wait" /\ Persist(job)
        /\ UNCHANGED <<node, job, todo, seen, req, wire, reply>> /\ pc = "pick"
    BY <1>3, <2>1 DEF TakeRunning, At
  <2> QED BY <1>0, <2>2, MoveSafe
<1>4. CASE TakeChecking(n)
  BY <1>0, <1>4, MoveSafe DEF TakeChecking, At
<1>5. CASE ProbeFails(n)
  <2>1. job.runs[n].state = "checking" /\ ~node[n].own /\ pc # "posting"
    BY <1>0, <1>5 DEF ProbeFails, At, RunnerInv
  <2> QED BY <1>0, <1>5, <2>1, SettleStep DEF ProbeFails, Open
<1>6. CASE ProbeBaseline(n)
  BY <1>6, ProbeBaselineSafe
<1>7. CASE SendStart(n) \/ StartAmbiguous(n)
  BY <1>7, PostSafe
<1>8. CASE ReceiveAccepted(n)
  <2>1. wire = {} /\ reply.id \in Nat \ {0} /\ job.runs[n].state = "checking"
    BY <1>0, <1>8 DEF ReceiveAccepted, At, WireInv, RunnerInv, NumberInv, TypeOK, Replies
  <2> QED BY <1>0, <1>8, <2>1, WaitStep DEF ReceiveAccepted, NoReply
<1>9. CASE ReceiveRefused(n)
  <2>1. reply.code = "refused"
    BY <1>9 DEF ReceiveRefused, Reliable
  <2>2. wire = {} /\ ~node[n].own /\ job.runs[n].state = "checking"
    BY <1>0, <1>9, <2>1 DEF ReceiveRefused, At, WireInv, RunnerInv, NodeInv
  <2> QED BY <1>0, <1>9, <2>2, SettleStep DEF ReceiveRefused, NoReply, Open
<1>10. CASE Resolve(n)
  <2>1. job.runs[n].state = "checking" /\ job.runs[n].prev # NoBaseline
        /\ wire = {} /\ reply'.code = "none" /\ UNCHANGED <<node, req, wire>>
    BY <1>0, <1>10 DEF Resolve, At, RunnerInv, NumberInv
  <2>2. CASE node[n].id > job.runs[n].prev \/ node[n].state = "running"
    BY <1>0, <1>10, <2>1, <2>2, AdoptedNumber, WaitStep DEF Resolve
  <2>3. CASE ~(node[n].id > job.runs[n].prev \/ node[n].state = "running")
    BY <1>0, <1>10, <2>1, <2>3, SettleStep DEF Resolve, NodeInv, Open
  <2> QED BY <2>2, <2>3
<1>11. CASE ReconcileRequeue(n)
  BY <1>11, ReconcileRequeueSafe
<1>12. CASE ReconcileAdopt(n)
  <2>1. job.runs[n].state = "checking" /\ wire = {} /\ reply'.code = "none"
        /\ node[n].id \in Nat \ {0}
    BY <1>0, <1>12, AdoptedNumber DEF ReconcileAdopt, At, RunnerInv
  <2> QED BY <1>0, <1>12, <2>1, WaitStep DEF ReconcileAdopt
<1>13. CASE ReconcileForeign(n)
  <2>1. job.runs[n].state = "checking" /\ wire = {} /\ reply'.code = "none"
        /\ UNCHANGED <<node, req, wire, reply>> /\ pc = "reconcile"
    BY <1>0, <1>13 DEF ReconcileForeign, At, RunnerInv
  <2>2. CASE node[n].state = "running"
    <3>1. pc' = "foreign" /\ UNCHANGED <<job, disk, todo, seen, budget>>
      BY <1>13, <2>2 DEF ReconcileForeign
    <3> QED BY <1>0, <2>1, <3>1 DEF NodeInv, StoreInv, OrderInv, RunInv, RunnerInv,
                   WireInv, OwnerInv, RequestInv, Exclusion, Active, IsHead
  <2>3. CASE node[n].state # "running"
    BY <1>0, <1>13, <2>1, <2>3, SettleStep DEF ReconcileForeign, NodeInv, Open
  <2> QED BY <2>2, <2>3
<1>14. CASE AwaitForeign(n)
  <2>1. job.runs[n].state = "checking" /\ pc # "posting" /\ ~node[n].own
    BY <1>0, <1>14 DEF AwaitForeign, At, RunnerInv, Available, NodeInv
  <2> QED BY <1>0, <1>14, <2>1, SettleStep DEF AwaitForeign, Open
<1>15. CASE AwaitJob(n)
  <2>1. job.runs[n].state = "running" /\ pc # "posting" /\ ~node[n].own
    BY <1>0, <1>15 DEF AwaitJob, At, RunnerInv, Available, NodeInv
  <2>2. node[n].id = job.runs[n].id => node[n].state \in {"succeeded", "failed"}
    BY <1>0, <1>15 DEF AwaitJob, At, Available, NumberInv, NodeStates
  <2>3. (IF node[n].id = job.runs[n].id THEN node[n].state ELSE "failed")
          \in {"succeeded", "failed"}
    BY <2>2
  <2> QED BY <1>0, <1>15, <2>1, <2>3, SettleStep DEF AwaitJob, Open
<1> QED BY <1>1, <1>2, <1>3, <1>4, <1>5, <1>6, <1>7, <1>8, <1>9, <1>10, <1>11,
           <1>12, <1>13, <1>14, <1>15 DEF RunnerNext

(* Every step of a node or of the network keeps SafetyInv.                 *)
LEMMA NodeStepSafe ==
  ASSUME IInv, NEW n \in Nodes, NodeNext(n)
  PROVE  SafetyInv'
<1> USE DEF IInv, SafetyInv
<1>0. /\ node \in [Nodes -> NodeRecords] /\ node[n] \in NodeRecords
      /\ UNCHANGED <<job, disk, pc, todo, seen, req>>
      /\ \A m \in Nodes : m # n => node'[m] = node[m]
  BY DEF NodeNext, HandleStart, NodeFinishes, ForeignStart, NodeRestarts, Disconnect,
         Reconnect, TypeOK
<1>1. OrderInv' /\ RunInv'
  BY <1>0 DEF OrderInv, RunInv, Active
<1>2. StoreInv'
  <2>1. {"crashes", "failedSaves"} \subseteq BudgetKinds
    BY DEF BudgetKinds
  <2>2. \/ UNCHANGED budget
        \/ budget' = [k \in BudgetKinds |-> IF k = "foreignStarts" THEN budget[k] - 1
                                                                ELSE budget[k]]
        \/ budget' = [k \in BudgetKinds |-> IF k = "nodeRestarts" THEN budget[k] - 1
                                                                ELSE budget[k]]
        \/ budget' = [k \in BudgetKinds |-> IF k = "outages" THEN budget[k] - 1
                                                                ELSE budget[k]]
    BY DEF NodeNext, HandleStart, NodeFinishes, ForeignStart, NodeRestarts, Disconnect,
           Reconnect, Spend
  <2>3. budget'["crashes"] = budget["crashes"]
        /\ budget'["failedSaves"] = budget["failedSaves"]
    BY <2>1, <2>2
  <2> QED BY <1>0, <2>3 DEF StoreInv
<1>3. CASE HandleStart(n)
  <2>1. /\ n \in wire /\ wire' = wire \ {n}
        /\ job.runs[n].state = "checking" /\ job.runs[n].prev # NoBaseline
        /\ Active(job) /\ pc \in {"down", "posting"} /\ reply.code = "none"
        /\ pc = "posting" => IsHead(n)
    BY <1>3 DEF HandleStart, WireInv
  <2>2. \A m \in wire : m = n
    BY <2>1, OneOpen DEF WireInv, Open, TypeOK
  <2>3. wire' = {}
    BY <2>1, <2>2
  <2>4. RunnerInv'
    BY <1>0, <2>1 DEF RunnerInv, IsHead, Active
  <2>5. WireInv'
    <3>1. reply'.code = "refused" => n \in RefusingNodes
      BY <1>3, <2>1 DEF HandleStart
    <3>2. reply'.code # "none" => pc = "posting"
      BY <1>3, <2>1 DEF HandleStart, At
    <3>3. \A m \in Nodes : pc = "posting" /\ IsHead(m) => m = n
      BY <2>1, HeadUnique
    <3> QED BY <1>0, <2>1, <2>3, <3>1, <3>2, <3>3 DEF WireInv, IsHead
  <2>6. NodeInv'
    <3> DEFINE rec == [node[n] EXCEPT !.id = node[n].id + 1, !.state = "running",
                                      !.own = TRUE]
    <3>1. rec.state = "running"
      BY <1>0 DEF NodeRecords
    <3>2. \/ UNCHANGED node
          \/ n \notin RefusingNodes /\ node' = [node EXCEPT ![n] = rec]
      BY <1>3 DEF HandleStart
    <3>3. \/ UNCHANGED node
          \/ n \notin RefusingNodes /\ node'[n].state = "running"
      BY <1>0, <3>1, <3>2
    <3> QED BY <1>0, <3>3 DEF NodeInv
  <2>7. OwnerInv' /\ RequestInv'
    BY <1>0, <2>1 DEF OwnerInv, RequestInv, Active, Open
  <2>8. Exclusion'
    <3> SUFFICES ASSUME NEW k \in Nodes, node[k].own, k # n PROVE FALSE
      BY <1>0 DEF Exclusion
    <3>1. Open(job, k) /\ Open(job, n)
      BY <2>1 DEF OwnerInv, Open
    <3> QED BY <2>1, <3>1, OneOpen
  <2> QED BY <1>1, <1>2, <2>4, <2>5, <2>6, <2>7, <2>8
<1>4. CASE NodeFinishes(n) \/ ForeignStart(n) \/ NodeRestarts(n) \/ Disconnect(n)
           \/ Reconnect(n)
  <2>1. UNCHANGED <<wire, reply>>
    BY <1>4 DEF NodeFinishes, ForeignStart, NodeRestarts, Disconnect, Reconnect
  <2>2. node'[n].own => node[n].own /\ node'[n].state = node[n].state
    <3>1. node[n].state = "running" \/ ~node[n].own
      BY DEF NodeInv
    <3>2. CASE NodeFinishes(n)
      BY <1>0, <3>2 DEF NodeFinishes, NodeRecords
    <3>3. CASE ForeignStart(n)
      BY <1>0, <3>1, <3>3 DEF ForeignStart, NodeRecords
    <3>4. CASE NodeRestarts(n)
      BY <1>0, <3>4 DEF NodeRestarts, NodeRecords
    <3>5. CASE Disconnect(n) \/ Reconnect(n)
      BY <1>0, <3>5 DEF Disconnect, Reconnect, NodeRecords
    <3> QED BY <1>4, <3>2, <3>3, <3>4, <3>5
  <2>3. \A m \in Nodes : node'[m].own => node[m].own /\ node'[m].state = node[m].state
    BY <1>0, <2>2
  <2>4. NodeInv' /\ Exclusion' /\ OwnerInv'
    BY <1>0, <2>3 DEF NodeInv, Exclusion, OwnerInv, Active
  <2>5. RunnerInv' /\ WireInv'
    BY <1>0, <2>1, <2>3 DEF RunnerInv, WireInv, IsHead, Active
  <2>6. RequestInv'
    BY <1>0, <2>3 DEF RequestInv, Active, Open, TypeOK, Requests
  <2> QED BY <1>1, <1>2, <2>4, <2>5, <2>6
<1> QED BY <1>3, <1>4 DEF NodeNext

(* Every step of a start request keeps SafetyInv.                          *)
LEMMA RequestStepSafe ==
  ASSUME IInv, NEW r \in Requesters, RequestNext(r)
  PROVE  SafetyInv'
<1> USE DEF IInv, SafetyInv
<1>0. /\ UNCHANGED <<node, wire, reply>> /\ req \in [Requesters -> Requests]
      /\ req[r].target \subseteq Nodes /\ req[r].verified \subseteq Nodes
      /\ \A q \in Requesters : q # r => req'[q] = req[q]
  BY DEF RequestNext, RequestStart, PreflightVerify, PreflightReject, AdmitConflict,
         Admit, AdmitUnsaved, TypeOK, Requests
<1>1. NodeInv' /\ Exclusion'
  BY <1>0 DEF NodeInv, Exclusion
<1>2. CASE ~Admit(r)
  <2>1. UNCHANGED <<job, disk, pc, todo, seen>>
    BY <1>2 DEF RequestNext, RequestStart, PreflightVerify, PreflightReject,
                AdmitConflict, AdmitUnsaved
  <2>2. StoreInv'
    <3>1. {"crashes", "failedSaves", "requests"} \subseteq BudgetKinds
      BY DEF BudgetKinds
    <3>2. \/ UNCHANGED budget \/ Spend({"requests"}) \/ Spend({"failedSaves"})
      BY <1>2 DEF RequestNext, RequestStart, PreflightVerify, PreflightReject,
                  AdmitConflict, AdmitUnsaved
    <3>3. budget'["crashes"] = budget["crashes"]
          /\ budget'["failedSaves"] \in {budget["failedSaves"], budget["failedSaves"] - 1}
          /\ (budget["failedSaves"] = 0 => budget'["failedSaves"] = 0)
      BY <3>1, <3>2 DEF Spend
    <3> QED BY <2>1, <3>3 DEF StoreInv
  <2>3. OrderInv' /\ RunInv' /\ OwnerInv' /\ RunnerInv' /\ WireInv'
    BY <1>0, <2>1 DEF OrderInv, RunInv, OwnerInv, RunnerInv, WireInv, Active, IsHead
  <2>4. RequestInv'
    <3>1. CASE req'[r] = NoRequest
      BY <1>0, <2>1, <3>1 DEF RequestInv, NoRequest, Active, Open
    <3>2. CASE \E S \in SUBSET Nodes : RequestStart(r, S)
      <4>1. pc = "free" /\ req[r].verified = {} /\ req'[r].verified = {}
        BY <1>0, <3>2 DEF RequestStart, NoRequest, Requests
      <4>2. req'[r].target # {}
        BY <1>0, <3>2 DEF RequestStart, Requests
      <4> QED BY <1>0, <2>1, <4>1, <4>2 DEF RequestInv, Active, Open
    <3>3. CASE \E n \in Nodes : PreflightVerify(r, n)
      <4>1. PICK n \in Nodes : PreflightVerify(r, n)
        BY <3>3
      <4>2. req'[r].target = req[r].target /\ req'[r].verified = req[r].verified \cup {n}
            /\ req[r].target # {} /\ ~node[n].own
        BY <1>0, <4>1 DEF PreflightVerify, Requests, Available, NodeInv
      <4> QED BY <1>0, <2>1, <4>2 DEF RequestInv, Active, Open
    <3>4. CASE \/ \E n \in Nodes : PreflightReject(r, n)
               \/ AdmitConflict(r) \/ AdmitUnsaved(r)
      <4>1. req'[r] = NoRequest
        BY <1>0, <3>4 DEF PreflightReject, AdmitConflict, AdmitUnsaved
      <4> QED BY <3>1, <4>1
    <3> QED BY <1>2, <3>2, <3>3, <3>4 DEF RequestNext
  <2> QED BY <1>1, <2>2, <2>3, <2>4
<1>3. CASE Admit(r)
  <2>1. /\ pc = "free" /\ ~Active(job) /\ req[r].target # {} /\ req[r].verified = Nodes
        /\ pc' = "pick" /\ todo' = req[r].target /\ disk' = job' /\ UNCHANGED budget
        /\ req'[r] = NoRequest
    BY <1>0, <1>3 DEF Admit, RunnerInv
  <2>2. /\ job'.state = "running" /\ Active(job')
        /\ \A n \in Nodes : job'.runs[n].state = IF n \in req[r].target THEN "queued"
                                                                     ELSE "absent"
    BY <1>3 DEF Admit, NewJob, Absent, Active
  <2>3. \A n \in Nodes : ~node[n].own
    BY <2>1 DEF RequestInv
  <2>4. wire = {} /\ reply.code = "none"
    BY <2>1 DEF WireInv
  <2>5. StoreInv'
    BY <2>1 DEF StoreInv
  <2>6. OrderInv' /\ RunInv' /\ OwnerInv'
    BY <1>0, <2>2, <2>3 DEF OrderInv, RunInv, OwnerInv
  <2>7. RunnerInv' /\ WireInv'
    BY <1>0, <2>1, <2>2, <2>3, <2>4 DEF RunnerInv, WireInv
  <2>8. RequestInv'
    <3>1. \A n \in todo' : ~Open(job', n)
      BY <1>0, <2>1, <2>2 DEF Open
    <3> QED BY <1>0, <2>1, <2>2, <3>1 DEF RequestInv, NoRequest
  <2> QED BY <1>1, <2>5, <2>6, <2>7, <2>8
<1> QED BY <1>2, <1>3

(* A stop, the verdict, a late save, a crash, a restart keep SafetyInv.    *)
LEMMA ProcessStepSafe ==
  ASSUME Reliable, IInv,
         Stop \/ FinishQueue \/ SaveElsewhere \/ Crash \/ Restart \/ RestartUnsaved
  PROVE  SafetyInv'
<1> USE DEF IInv, SafetyInv
<1>0. UNCHANGED node /\ {"crashes", "failedSaves", "stops"} \subseteq BudgetKinds
  BY DEF Stop, FinishQueue, SaveElsewhere, Crash, Restart, RestartUnsaved, BudgetKinds
<1>n. NodeInv' /\ Exclusion'
  BY <1>0 DEF NodeInv, Exclusion
<1>r. Repaired(disk) = disk \/ pc # "down"
  <2>1. pc = "down" => \A n \in Nodes : disk.runs[n].state # "cut"
    BY DEF StoreInv, RunInv
  <2>2. disk.runs = [n \in Nodes |-> disk.runs[n]] /\ [disk EXCEPT !.runs = disk.runs] = disk
    BY DEF TypeOK, Jobs
  <2>3. pc = "down" =>
          [n \in Nodes |-> IF disk.runs[n].state = "cut" /\ disk.runs[n].id # 0
             THEN [disk.runs[n] EXCEPT !.state = "running"] ELSE disk.runs[n]] = disk.runs
    BY <2>1, <2>2
  <2> QED BY <2>2, <2>3 DEF Repaired
<1>1. CASE Stop
  <2>1. /\ job'.state = "stopping" /\ job'.runs = job.runs /\ disk' = job'
        /\ pc \notin {"down", "free"} /\ UNCHANGED <<pc, todo, seen, req, wire, reply>>
    BY <1>1 DEF Stop, TypeOK, Jobs
  <2>2. Active(job) /\ Active(job')
    BY <2>1 DEF RunnerInv, Active
  <2>3. StoreInv'
    BY <1>0, <1>1, <2>1 DEF StoreInv, Stop, Spend
  <2> QED BY <1>0, <1>n, <2>1, <2>2, <2>3 DEF OrderInv, RunInv, RunnerInv, WireInv,
                                             OwnerInv, RequestInv, IsHead, Open
<1>2. CASE FinishQueue
  <2> DEFINE skipped == [n \in Nodes |->
                           IF job.runs[n].state = "queued"
                             THEN [job.runs[n] EXCEPT !.state = "skipped"]
                             ELSE job.runs[n]]
  <2>1. /\ pc = "pick" /\ pc' = "free" /\ todo' = {} /\ UNCHANGED <<req, wire, reply>>
        /\ Persist(job')
        /\ \/ job' = [state |-> "stopped", runs |-> skipped]
           \/ job' = [job EXCEPT !.state = "failed"]
           \/ job' = [job EXCEPT !.state = "succeeded"]
    BY <1>2 DEF FinishQueue
  <2>2. Active(job) /\ ~Active(job')
    BY <2>1 DEF RunnerInv, Active, TypeOK, Jobs
  <2>3. StoreInv'
    BY <2>1, PersistStore
  <2>4. RunInv'
    <3>1. job.runs \in [Nodes -> Runs] /\ job \in Jobs
      BY DEF TypeOK, Jobs
    <3>2. ASSUME NEW n \in Nodes
          PROVE  skipped[n].state # "cut" /\ (skipped[n].state = "running" => skipped[n].id # 0)
      <4>1. CASE job.runs[n].state = "queued"
        BY <3>1, <4>1 DEF Runs
      <4>2. CASE job.runs[n].state # "queued"
        BY <4>2 DEF RunInv
      <4> QED BY <4>1, <4>2
    <3>3. job'.runs = skipped \/ job'.runs = job.runs
      BY <2>1, <3>1 DEF Jobs
    <3> QED BY <3>2, <3>3 DEF RunInv
  <2>5. wire = {} /\ reply.code = "none"
    BY <2>1 DEF WireInv
  <2>6. OrderInv' /\ RunnerInv' /\ WireInv' /\ OwnerInv'
    BY <2>1, <2>2, <2>5 DEF OrderInv, RunnerInv, WireInv, OwnerInv, IsHead
  <2>7. RequestInv'
    <3> SUFFICES ASSUME NEW r \in Requesters, NEW n \in req[r].verified, node[n].own
                 PROVE  FALSE
      BY <1>0, <2>1 DEF RequestInv
    <3>1. n \in Nodes /\ req[r].target # {}
      BY DEF RequestInv, TypeOK, Requests
    <3>2. Open(job, n)
      BY <2>2, <3>1 DEF OwnerInv, Open
    <3>3. n \in todo
      BY <2>1, <3>1, <3>2 DEF RunnerInv, Open
    <3> QED BY <2>1, <3>1, <3>2, <3>3 DEF RequestInv
  <2> QED BY <1>n, <2>3, <2>4, <2>6, <2>7
<1>3. CASE SaveElsewhere
  <2>1. UNCHANGED <<job, pc, todo, seen, req, wire, reply, budget>> /\ disk' = job'
    BY <1>3 DEF SaveElsewhere
  <2> QED BY <1>0, <1>n, <2>1 DEF StoreInv, OrderInv, RunInv, RunnerInv, WireInv,
                                  OwnerInv, RequestInv, IsHead, Open, Active
<1>4. CASE Crash
  <2>1. /\ budget["crashes"] > 0 /\ budget'["crashes"] = budget["crashes"] - 1
        /\ budget'["failedSaves"] = budget["failedSaves"]
    BY <1>0, <1>4 DEF Crash, Spend
  <2>2. budget["crashes"] \in Nat /\ job' = job /\ disk' = disk /\ disk = job
    BY <1>0, <1>4, <2>1 DEF Crash, StoreInv, TypeOK
  <2>3. pc' = "down" /\ pc # "down" /\ todo' = {} /\ reply'.code = "none" /\ UNCHANGED wire
        /\ \A r \in Requesters : req'[r] = NoRequest
    BY <1>4 DEF Crash, NoReply
  <2>4. StoreInv'
    BY <2>1, <2>2 DEF StoreInv
  <2>5. OrderInv' /\ RunInv' /\ OwnerInv' /\ RunnerInv' /\ WireInv'
    BY <1>0, <2>2, <2>3 DEF OrderInv, RunInv, OwnerInv, RunnerInv, WireInv, Active, IsHead
  <2>6. RequestInv'
    BY <2>3 DEF RequestInv, NoRequest
  <2> QED BY <1>n, <2>4, <2>5, <2>6
<1>5. CASE Restart
  <2>1. /\ pc = "down" /\ job' = job /\ disk' = job' /\ disk = job
        /\ pc' = (IF Active(job) THEN "pick" ELSE "free")
        /\ todo' = (IF Active(job) THEN Members(job) ELSE {})
        /\ wire' = {} /\ UNCHANGED <<seen, req, reply, budget>>
    BY <1>5, <1>r DEF Restart, StoreInv, Reliable
  <2>2. reply.code = "none" /\ \A r \in Requesters : req[r].target = {}
    BY <2>1 DEF WireInv, RequestInv
  <2>3. StoreInv' /\ OrderInv' /\ RunInv' /\ OwnerInv'
    BY <1>0, <2>1 DEF StoreInv, OrderInv, RunInv, OwnerInv, Active
  <2>4. RunnerInv' /\ WireInv'
    BY <2>1, <2>2 DEF RunnerInv, WireInv, Active, Members
  <2>5. RequestInv'
    BY <2>1, <2>2 DEF RequestInv
  <2> QED BY <1>n, <2>3, <2>4, <2>5
<1>6. CASE RestartUnsaved
  BY <1>6, <1>r DEF RestartUnsaved
<1> QED BY <1>1, <1>2, <1>3, <1>4, <1>5, <1>6

(* The inductive invariant holds at the start of a reliable system.        *)
LEMMA InitSafe ==
  ASSUME Reliable, Init
  PROVE  IInv
<1>1. TypeOK /\ NumberInv
  BY InitType, InitNumber
<1>2. /\ disk = NoJob /\ job = disk /\ pc = "down" /\ todo = {} /\ wire = {}
      /\ reply.code = "none" /\ \A n \in Nodes : ~node[n].own
      /\ \A r \in Requesters : req[r] = NoRequest
  BY DEF Init, Reliable, IdleNode, NoReply
<1>3. ~Active(job) /\ \A n \in Nodes : job.runs[n].state = "absent"
  BY <1>2 DEF NoJob, Absent, Active
<1>4. StoreInv
  <2>1. {"crashes", "failedSaves"} \subseteq BudgetKinds
    BY DEF BudgetKinds
  <2> QED BY <1>2, <2>1 DEF Init, StoreInv, Reliable
<1>5. NodeInv /\ OrderInv /\ RunInv /\ RunnerInv /\ WireInv /\ OwnerInv
  BY <1>2, <1>3 DEF NodeInv, OrderInv, RunInv, RunnerInv, WireInv, OwnerInv, IsHead
<1>6. RequestInv /\ Exclusion
  BY <1>2, <1>3 DEF RequestInv, NoRequest, Exclusion
<1> QED BY <1>1, <1>4, <1>5, <1>6 DEF IInv, SafetyInv

(* And every step keeps it.                                                *)
LEMMA StepSafe ==
  ASSUME Reliable, IInv, [Next]_vars
  PROVE  IInv'
<1>1. TypeOK' /\ NumberInv'
  BY TypeStep DEF IInv
<1>2. SafetyInv'
  <2>1. CASE \E r \in Requesters : RequestNext(r)
    BY <2>1, RequestStepSafe
  <2>2. CASE \E n \in Nodes : RunnerNext(n)
    BY <2>2, RunnerStepSafe
  <2>3. CASE \E n \in Nodes : NodeNext(n)
    BY <2>3, NodeStepSafe
  <2>4. CASE Stop \/ FinishQueue \/ SaveElsewhere \/ Crash \/ Restart \/ RestartUnsaved
    BY <2>4, ProcessStepSafe
  <2>5. CASE UNCHANGED vars
    BY <2>5 DEF vars, IInv, SafetyInv, NodeInv, StoreInv, OrderInv, RunInv, RunnerInv,
                WireInv, OwnerInv, RequestInv, Exclusion, Active, IsHead, Open
  <2> QED BY <2>1, <2>2, <2>3, <2>4, <2>5 DEF Next
<1> QED BY <1>1, <1>2 DEF IInv

(* One disk never runs two compactions of this orchestrator at a time,     *)
(* whatever crashes, outages, lost answers, node restarts, foreign         *)
(* compactions, stops and concurrent requests do, however many there are.  *)
THEOREM ExclusionHolds ==
  ASSUME Reliable
  PROVE  Spec => []Exclusion
<1>1. Init => IInv
  BY InitSafe
<1>2. IInv /\ [Next]_vars => IInv'
  BY StepSafe
<1>3. IInv => Exclusion
  BY DEF IInv, SafetyInv
<1> QED BY <1>1, <1>2, <1>3, PTL DEF Spec

-----------------------------------------------------------------------------
(* The verdict and the committed results, in every system: POSTs may come  *)
(* late, proxies may lie, saves may fail where crashes happen, and the     *)
(* database may be a legacy one.                                           *)

(* The runner is where the run of its node says it is.                     *)
PlaceInv ==
  \A n \in Nodes : IsHead(n) =>
    /\ pc \in {"probe", "post", "posting", "resolve", "reconcile", "foreign"}
         => job.runs[n].state = "checking"
    /\ pc = "wait" => job.runs[n].state = "running"

(* The four things a step of the runner can do to the run of its node: end *)
(* it, move it on, pass it because it is settled, or leave it as it is.    *)
Settles(n) ==
  /\ Open(job, n)
  /\ \E s \in {"succeeded", "failed"} : FinishRun(n, s)

Advances(n) ==
  /\ job.runs[n].state \in {"queued", "checking"}
  /\ \E run \in Runs :
       /\ job' = SetRun(n, run)
       /\ \/ pc' \in {"probe", "post"} /\ run.state = "checking"
          \/ pc' = "wait" /\ run.state = "running"
          \/ pc' = "pick" /\ run.state = "queued"
  /\ Persist(job') /\ UNCHANGED <<todo, seen>>

Stays(n) ==
  /\ UNCHANGED <<job, todo, seen>>
  /\ Persist(job) \/ UNCHANGED <<disk, budget>>
  /\ \/ /\ pc' \in {"posting", "resolve", "reconcile", "foreign"}
        /\ job.runs[n].state = "checking"
     \/ pc' = "wait" /\ job.runs[n].state = "running"

(* Every step of the runner is one of them, at the head of its loop.       *)
LEMMA RunnerShape ==
  ASSUME TypeOK, NumberInv, PlaceInv, NEW n \in Nodes, RunnerNext(n)
  PROVE  /\ IsHead(n) /\ pc \notin {"down", "free"} /\ UNCHANGED <<node, req>>
         /\ Settles(n) \/ Advances(n) \/ Stays(n) \/ SkipSettled(n)
<1> USE DEF At
<1>0. /\ IsHead(n) /\ pc \notin {"down", "free"} /\ UNCHANGED <<node, req>>
  BY DEF RunnerNext, SkipSettled, TakeQueued, TakeRunning, TakeChecking, ProbeFails,
         ProbeBaseline, SendStart, ReceiveAccepted, ReceiveRefused, StartAmbiguous,
         Resolve, ReconcileRequeue, ReconcileAdopt, ReconcileForeign, AwaitForeign,
         AwaitJob
<1>1. job.runs[n] \in Runs /\ node[n].id \in Nat /\ node[n].state \in NodeStates
  BY RunFieldTypes DEF TypeOK, NodeRecords
<1>2. ASSUME pc \in {"probe", "post", "posting", "resolve", "reconcile", "foreign"}
      PROVE  job.runs[n].state = "checking"
  BY <1>0, <1>2 DEF PlaceInv
<1>3. ASSUME pc = "wait" PROVE job.runs[n].state = "running"
  BY <1>0, <1>3 DEF PlaceInv
<1>4. ASSUME FinishRun(n, "failed"), Open(job, n) PROVE Settles(n)
  BY <1>4 DEF Settles
<1>5. ASSUME NEW id \in Nat, WaitFor(n, id), job.runs[n].state = "checking"
      PROVE  Advances(n)
  <2> DEFINE run == [job.runs[n] EXCEPT !.state = "running", !.id = id]
  <2>1. run \in Runs /\ run.state = "running"
    BY <1>1, RunFieldTypes DEF Runs
  <2>2. job' = SetRun(n, run) /\ Persist(job') /\ pc' = "wait" /\ UNCHANGED <<todo, seen>>
    BY <1>5 DEF WaitFor
  <2> HIDE DEF run
  <2> QED BY <1>5, <2>1, <2>2 DEF Advances
<1>6. ASSUME NEW s \in {"queued", "checking"},
             job' = SetRun(n, [job.runs[n] EXCEPT !.state = s]), Persist(job'),
             UNCHANGED <<todo, seen>>, job.runs[n].state \in {"queued", "checking"},
             \/ pc' = "pick" /\ s = "queued"
             \/ pc' = "probe" /\ s = "checking"
      PROVE  Advances(n)
  <2> DEFINE run == [job.runs[n] EXCEPT !.state = s]
  <2>1. run \in Runs
    BY RunFieldTypes DEF RunStates
  <2>2. run.state = s
    BY <1>1 DEF Runs
  <2>3. job' = SetRun(n, run)
    BY <1>6
  <2> HIDE DEF run
  <2> QED BY <1>6, <2>3, <2>1, <2>2 DEF Advances
<1>7. CASE TakeQueued(n)
  BY <1>7, <1>6 DEF TakeQueued
<1>8. CASE TakeRunning(n)
  BY <1>8, <1>4 DEF TakeRunning, Stays, Open
<1>9. CASE TakeChecking(n)
  BY <1>9 DEF TakeChecking, Stays
<1>10. CASE ProbeFails(n)
  BY <1>10, <1>2, <1>4 DEF ProbeFails, Open
<1>11. CASE ProbeBaseline(n)
  <2> DEFINE run == [job.runs[n] EXCEPT !.prev = node[n].id]
  <2>1. run \in Runs /\ run.state = job.runs[n].state
    BY <1>1, RunFieldTypes DEF Runs
  <2>2. job' = SetRun(n, run) /\ Persist(job') /\ pc' = "post" /\ UNCHANGED <<todo, seen>>
        /\ job.runs[n].state = "checking"
    BY <1>11, <1>2 DEF ProbeBaseline
  <2> HIDE DEF run
  <2> QED BY <1>0, <2>1, <2>2 DEF Advances
<1>12. CASE SendStart(n) \/ StartAmbiguous(n)
  BY <1>12, <1>2 DEF SendStart, StartAmbiguous, Stays
<1>13. CASE ReceiveAccepted(n)
  BY <1>13, <1>2, <1>5 DEF ReceiveAccepted, TypeOK, Replies
<1>14. CASE ReceiveRefused(n)
  BY <1>14, <1>2, <1>4 DEF ReceiveRefused, Open
<1>15. CASE Resolve(n)
  BY <1>15, <1>1, <1>2, <1>4, <1>5 DEF Resolve, Open
<1>16. CASE ReconcileRequeue(n)
  BY <1>16, <1>2, <1>6 DEF ReconcileRequeue
<1>17. CASE ReconcileAdopt(n)
  BY <1>17, <1>1, <1>2, <1>5 DEF ReconcileAdopt
<1>18. CASE ReconcileForeign(n)
  BY <1>18, <1>2, <1>4 DEF ReconcileForeign, Stays, Open
<1>19. CASE AwaitForeign(n)
  BY <1>19, <1>2, <1>4 DEF AwaitForeign, Open
<1>20. CASE AwaitJob(n)
  <2>1. node[n].id = job.runs[n].id => node[n].state \in {"succeeded", "failed"}
    BY <1>1, <1>20 DEF AwaitJob, Available, NumberInv, NodeStates
  <2>2. PICK s \in {"succeeded", "failed"} : FinishRun(n, s)
    BY <1>20, <2>1 DEF AwaitJob
  <2>3. Open(job, n)
    BY <1>20, <1>3 DEF AwaitJob, Open
  <2> QED BY <1>0, <2>2, <2>3 DEF Settles
<1> QED BY <1>0, <1>7, <1>8, <1>9, <1>10, <1>11, <1>12, <1>13, <1>14, <1>15, <1>16,
           <1>17, <1>18, <1>19, <1>20 DEF RunnerNext

(* PlaceInv is kept by every step.                                         *)
LEMMA PlaceStep ==
  ASSUME TypeOK, NumberInv, PlaceInv, [Next]_vars
  PROVE  PlaceInv'
<1>1. CASE \E r \in Requesters : RequestNext(r)
  BY <1>1 DEF RequestNext, RequestStart, PreflightVerify, PreflightReject,
              AdmitConflict, Admit, AdmitUnsaved, PlaceInv, IsHead
<1>2. ASSUME NEW n \in Nodes, RunnerNext(n)
      PROVE  PlaceInv'
  <2>1. IsHead(n) /\ (Settles(n) \/ Advances(n) \/ Stays(n) \/ SkipSettled(n))
    BY <1>2, RunnerShape
  <2>2. CASE Settles(n) \/ SkipSettled(n)
    BY <2>2 DEF Settles, SkipSettled, FinishRun, PlaceInv, At
  <2>3. CASE Advances(n) \/ Stays(n)
    <3>1. \A m \in Nodes : IsHead(m)' => m = n
      BY <2>1, <2>3, HeadUnique DEF Advances, Stays, IsHead
    <3>2. CASE Advances(n)
      BY <3>1, <3>2, UpdateFacts DEF Advances, PlaceInv
    <3> QED BY <2>3, <3>1, <3>2 DEF Stays, PlaceInv
  <2> QED BY <2>1, <2>2, <2>3
<1>3. CASE \E n \in Nodes : NodeNext(n)
  BY <1>3 DEF NodeNext, HandleStart, NodeFinishes, ForeignStart, NodeRestarts,
              Disconnect, Reconnect, PlaceInv, IsHead
<1>4. CASE Stop
  BY <1>4 DEF Stop, PlaceInv, IsHead, TypeOK, Jobs
<1>5. CASE FinishQueue \/ Crash \/ Restart
  BY <1>5 DEF FinishQueue, Crash, Restart, PlaceInv
<1>6. CASE SaveElsewhere \/ RestartUnsaved \/ UNCHANGED vars
  BY <1>6 DEF SaveElsewhere, RestartUnsaved, vars, PlaceInv, IsHead
<1> QED BY <1>1, <1>2, <1>3, <1>4, <1>5, <1>6 DEF Next

(* What one job says of its verdict; of an active one that no run of it    *)
(* has been skipped yet.                                                   *)
VerdictOf(j) ==
  LET is(states) == {n \in Members(j) : j.runs[n].state \in states} IN
    /\ j.state = "succeeded" => Members(j) = is({"succeeded"})
    /\ j.state = "failed" =>
         /\ Members(j) # is({"succeeded"})
         /\ Members(j) = is({"succeeded", "failed", "cut"})
    /\ j.state = "stopped" => is({"queued"}) = {}
    /\ Active(j) => \A n \in Nodes : j.runs[n].state # "skipped"

(* While the runner is at work, the nodes its loop has left are settled,   *)
(* and seen tells whether one of them has not succeeded. A process that is *)
(* down has nothing but the database.                                      *)
CollectInv ==
  /\ pc = "down" => job = disk /\ seen = NothingSeen
  /\ pc \notin {"down", "free"} =>
       /\ Active(job) /\ ~seen.stopped
       /\ todo \subseteq Members(job)
       /\ \A n \in Members(job) \ todo :
            job.runs[n].state \in {"succeeded", "failed", "cut"}
       /\ seen.failed <=>
            \E n \in Members(job) \ todo : job.runs[n].state # "succeeded"

VerdictInv == VerdictOf(job) /\ VerdictOf(disk) /\ CollectInv

(* The verdict depends on the state and the run states of an active job    *)
(* only in that no run is skipped.                                         *)
LEMMA ActiveVerdict ==
  ASSUME NEW j, Active(j), \A n \in Nodes : j.runs[n].state # "skipped"
  PROVE  VerdictOf(j)
  BY DEF VerdictOf, Active

(* The runner keeps VerdictInv.                                            *)
LEMMA RunnerStepVerdict ==
  ASSUME TypeOK, NumberInv, PlaceInv, VerdictInv, NEW n \in Nodes, RunnerNext(n)
  PROVE  VerdictInv'
<1> USE DEF VerdictInv
<1>1. /\ IsHead(n) /\ pc \notin {"down", "free"}
      /\ Settles(n) \/ Advances(n) \/ Stays(n) \/ SkipSettled(n)
  BY RunnerShape
<1>2. Active(job) /\ n \in todo /\ n \in Members(job)
  BY <1>1 DEF CollectInv, IsHead
<1>3. \A m \in Nodes : job.runs[m].state # "skipped"
  BY <1>2 DEF VerdictOf
<1>4. ASSUME VerdictOf(job'), Persist(job')
      PROVE  VerdictOf(disk')
  BY <1>4 DEF Persist
<1>5. CASE Settles(n)
  <2>1. PICK s \in {"succeeded", "failed"} : FinishRun(n, s)
    BY <1>5 DEF Settles
  <2>2. /\ job'.state = job.state
        /\ job'.runs[n].state = s
        /\ \A m \in Nodes : m # n => job'.runs[m] = job.runs[m]
        /\ pc' = "pick" /\ todo' = todo \ {n} /\ Persist(job')
    BY <2>1, FinishRunFacts DEF RunStates
  <2>3. seen'.stopped = seen.stopped /\ seen'.failed = (seen.failed \/ s # "succeeded")
    BY <2>1 DEF FinishRun, TypeOK
  <2>4. Active(job') /\ Members(job') = Members(job)
    BY <1>2, <2>2 DEF Active, Members
  <2>5. VerdictOf(job')
    BY <1>3, <2>2, <2>4, ActiveVerdict
  <2>6. Members(job') \ todo' = (Members(job) \ todo) \cup {n}
    BY <1>2, <2>2, <2>4
  <2>7. CollectInv'
    <3>1. seen'.failed <=> \E m \in Members(job') \ todo' : job'.runs[m].state # "succeeded"
      BY <1>1, <1>2, <2>2, <2>3, <2>6 DEF CollectInv, Members
    <3>2. \A m \in Members(job') \ todo' : job'.runs[m].state \in {"succeeded", "failed", "cut"}
      BY <1>1, <1>2, <2>2, <2>6 DEF CollectInv, Members
    <3> QED BY <1>1, <2>2, <2>3, <2>4, <3>1, <3>2 DEF CollectInv
  <2> QED BY <1>4, <2>2, <2>5, <2>7
<1>6. CASE Advances(n)
  <2>1. PICK run \in Runs : /\ job' = SetRun(n, run)
                            /\ run.state \in {"queued", "checking", "running"}
    BY <1>6 DEF Advances
  <2>2. /\ job'.state = job.state /\ job'.runs[n] = run
        /\ \A m \in Nodes : m # n => job'.runs[m] = job.runs[m]
    BY <2>1, UpdateFacts
  <2>3. Active(job') /\ Members(job') = Members(job)
    BY <1>2, <2>1, <2>2 DEF Active, Members
  <2>4. VerdictOf(job')
    BY <1>3, <2>1, <2>2, <2>3, ActiveVerdict
  <2>5. /\ pc' \notin {"down", "free"} /\ todo' = todo /\ seen' = seen /\ Persist(job')
    BY <1>6 DEF Advances
  <2>6. \A m \in Members(job) \ todo : job'.runs[m] = job.runs[m]
    BY <1>2, <2>2 DEF Members
  <2>7. CollectInv'
    BY <1>1, <2>3, <2>5, <2>6 DEF CollectInv
  <2> QED BY <1>4, <2>4, <2>5, <2>7
<1>7. CASE Stays(n)
  <2>1. job' = job /\ todo' = todo /\ seen' = seen /\ pc' \notin {"down", "free"}
        /\ (disk' = disk \/ disk' = job)
    BY <1>7 DEF Stays, Persist
  <2> QED BY <1>1, <2>1 DEF CollectInv
<1>8. CASE SkipSettled(n)
  <2>1. job.runs[n].state \in {"succeeded", "failed", "cut"}
    BY <1>3, <1>8 DEF SkipSettled
  <2>2. /\ UNCHANGED <<job, disk, pc>> /\ todo' = todo \ {n}
        /\ seen'.failed = (seen.failed \/ job.runs[n].state # "succeeded")
        /\ seen'.stopped = seen.stopped
    BY <1>8, <2>1 DEF SkipSettled, TypeOK
  <2>3. Members(job) \ todo' = (Members(job) \ todo) \cup {n}
    BY <1>2, <2>2
  <2> QED BY <1>1, <2>1, <2>2, <2>3 DEF CollectInv
<1> QED BY <1>1, <1>5, <1>6, <1>7, <1>8

(* So does everything else that happens.                                   *)
LEMMA OtherStepVerdict ==
  ASSUME TypeOK, VerdictInv,
         \/ Stop \/ FinishQueue \/ SaveElsewhere \/ Crash \/ Restart \/ RestartUnsaved
         \/ \E r \in Requesters : RequestNext(r)
         \/ \E n \in Nodes : NodeNext(n)
         \/ UNCHANGED vars
  PROVE  VerdictInv'
<1> USE DEF VerdictInv
<1>0. job \in Jobs /\ disk \in Jobs /\ job.runs \in [Nodes -> Runs]
      /\ disk.runs \in [Nodes -> Runs]
  BY DEF TypeOK, Jobs
<1>1. CASE Stop
  <2>1. /\ job'.state = "stopping" /\ job'.runs = job.runs /\ disk' = job'
        /\ pc \notin {"down", "free"} /\ UNCHANGED <<pc, todo, seen>>
    BY <1>0, <1>1 DEF Stop, Jobs
  <2>2. Active(job) /\ Active(job') /\ Members(job') = Members(job)
    BY <2>1 DEF CollectInv, Active, Members
  <2>3. VerdictOf(job')
    <3>1. \A m \in Nodes : job'.runs[m].state # "skipped"
      BY <2>1, <2>2 DEF VerdictOf
    <3> QED BY <2>2, <3>1, ActiveVerdict
  <2> QED BY <2>1, <2>2, <2>3 DEF CollectInv
<1>2. CASE FinishQueue
  <2> DEFINE skipped == [n \in Nodes |->
                           IF job.runs[n].state = "queued"
                             THEN [job.runs[n] EXCEPT !.state = "skipped"]
                             ELSE job.runs[n]]
  <2>1. /\ pc = "pick" /\ pc' = "free" /\ Persist(job')
        /\ Active(job) /\ ~seen.stopped
        /\ StopAfter \/ todo = {}
        /\ job' = IF StopAfter THEN [state |-> "stopped", runs |-> skipped]
                  ELSE [job EXCEPT !.state = IF seen.failed THEN "failed" ELSE "succeeded"]
    BY <1>2 DEF FinishQueue, CollectInv
  <2>2. VerdictOf(job')
    <3>1. CASE StopAfter
      <4>1. job'.state = "stopped" /\ job'.runs = skipped
        BY <2>1, <3>1
      <4>2. \A n \in Nodes : skipped[n].state # "queued"
        BY <1>0 DEF Runs
      <4>3. /\ job'.state = "stopped" /\ ~Active(job')
            /\ \A n \in Nodes : job'.runs[n].state # "queued"
        BY <4>1, <4>2 DEF Active
      <4> QED BY <4>3 DEF VerdictOf, Members
    <3>2. CASE ~StopAfter
      <4>1. /\ job'.runs = job.runs /\ todo = {}
            /\ job'.state = IF seen.failed THEN "failed" ELSE "succeeded"
        BY <1>0, <2>1, <3>2 DEF Jobs
      <4>2. /\ \A n \in Members(job) : job.runs[n].state \in {"succeeded", "failed", "cut"}
            /\ seen.failed <=> \E n \in Members(job) : job.runs[n].state # "succeeded"
        BY <2>1, <4>1 DEF CollectInv
      <4>3. Members(job') = Members(job)
        BY <4>1 DEF Members
      <4> QED BY <4>1, <4>2, <4>3 DEF VerdictOf, Active
    <3> QED BY <3>1, <3>2
  <2> QED BY <2>1, <2>2 DEF CollectInv, Persist
<1>3. CASE SaveElsewhere \/ RestartUnsaved \/ UNCHANGED vars
  BY <1>3 DEF SaveElsewhere, RestartUnsaved, vars, CollectInv
<1>4. CASE Crash
  BY <1>4 DEF Crash, CollectInv
<1>5. CASE Restart
  <2>1. CASE Active(disk)
    <3> DEFINE repaired == [n \in Nodes |->
                 IF disk.runs[n].state = "cut" /\ disk.runs[n].id # 0
                   THEN [disk.runs[n] EXCEPT !.state = "running"] ELSE disk.runs[n]]
    <3>1. /\ job' = [disk EXCEPT !.runs = repaired] /\ disk' = job'
          /\ pc' = "pick" /\ todo' = Members(disk) /\ seen' = seen
      BY <1>5, <2>1 DEF Restart, Repaired
    <3>2. job'.state = disk.state /\ job'.runs = repaired
      BY <1>0, <3>1 DEF Jobs
    <3>3. ASSUME NEW n \in Nodes
          PROVE  /\ repaired[n].state # "skipped"
                 /\ repaired[n].state = "absent" <=> disk.runs[n].state = "absent"
      <4>1. disk.runs[n].state # "skipped" /\ disk.runs[n] \in Runs
        BY <1>0, <2>1 DEF VerdictOf
      <4> QED BY <4>1 DEF Runs
    <3>4. Active(job') /\ Members(job') = Members(disk)
      BY <2>1, <3>2, <3>3 DEF Active, Members
    <3>5. VerdictOf(job')
      BY <3>2, <3>3, <3>4, ActiveVerdict
    <3>6. seen = NothingSeen
      BY <1>5 DEF Restart, CollectInv
    <3> QED BY <3>1, <3>4, <3>5, <3>6 DEF CollectInv, NothingSeen
  <2>2. CASE ~Active(disk)
    BY <1>5, <2>2 DEF Restart, Repaired, CollectInv
  <2> QED BY <2>1, <2>2
<1>6. CASE \E r \in Requesters : RequestNext(r)
  <2>1. PICK r \in Requesters : RequestNext(r)
    BY <1>6
  <2>2. CASE Admit(r)
    <3> DEFINE S == req[r].target
    <3>1. /\ job' = NewJob(S) /\ disk' = job' /\ pc' = "pick" /\ todo' = S
          /\ seen' = NothingSeen /\ S \subseteq Nodes
      BY <2>2 DEF Admit, TypeOK, Requests
    <3>2. /\ job'.state = "running"
          /\ \A n \in Nodes : job'.runs[n].state = IF n \in S THEN "queued" ELSE "absent"
      BY <3>1 DEF NewJob, Absent
    <3>3. Active(job') /\ Members(job') = S
      BY <3>1, <3>2 DEF Active, Members
    <3>4. VerdictOf(job')
      BY <3>2, <3>3, ActiveVerdict
    <3> QED BY <3>1, <3>3, <3>4 DEF CollectInv, NothingSeen
  <2>3. CASE ~Admit(r)
    <3>1. UNCHANGED <<job, disk, pc, todo, seen>>
      BY <2>1, <2>3 DEF RequestNext, RequestStart, PreflightVerify, PreflightReject,
                        AdmitConflict, AdmitUnsaved
    <3> QED BY <3>1 DEF CollectInv
  <2> QED BY <2>2, <2>3
<1>7. CASE \E n \in Nodes : NodeNext(n)
  <2>1. UNCHANGED <<job, disk, pc, todo, seen>>
    BY <1>7 DEF NodeNext, HandleStart, NodeFinishes, ForeignStart, NodeRestarts,
                Disconnect, Reconnect
  <2> QED BY <2>1 DEF CollectInv
<1> QED BY <1>1, <1>2, <1>3, <1>4, <1>5, <1>6, <1>7

(* The verdict holds at the start, also with a legacy database.            *)
LEMMA InitVerdict == Init => PlaceInv /\ VerdictInv
<1> SUFFICES ASSUME Init PROVE PlaceInv /\ VerdictInv
  OBVIOUS
<1>1. VerdictOf(disk)
  <2>1. CASE disk = NoJob
    BY <2>1 DEF NoJob, VerdictOf, Active
  <2>2. ASSUME NEW n \in Nodes, NEW s \in {"cut", "running"}, NEW id \in {0, 1},
               disk = LegacyJob(n, s, id)
        PROVE  VerdictOf(disk)
    <3>1. \A m \in Nodes : NewJob(Nodes).runs[m].state = "queued"
      BY DEF NewJob, Absent
    <3>2. disk.state = "running" /\ \A m \in Nodes : disk.runs[m].state \in {"queued", s}
      BY <2>2, <3>1 DEF LegacyJob, NewJob
    <3> QED BY <3>2, ActiveVerdict DEF Active
  <2> QED BY <2>1, <2>2 DEF Init
<1> QED BY <1>1 DEF Init, PlaceInv, VerdictInv, CollectInv, IsHead

(* Memory never contradicts what the database says of a settled run.       *)
Settled == {"succeeded", "failed", "skipped"}

AgreeInv ==
  \A n \in Nodes : disk.runs[n].state \in Settled => job.runs[n] = disk.runs[n]

(* Only the next admission changes a settled run in memory; a crash brings *)
(* back what the database has, a restart repairs no settled run.           *)
LEMMA SettledStep ==
  ASSUME TypeOK, NumberInv, PlaceInv, CollectInv, AgreeInv, [Next]_vars
  PROVE  /\ AgreeInv'
         /\ \/ pc = "free" /\ pc' = "pick"
            \/ \A n \in Nodes : disk.runs[n].state \in Settled
                                  => disk'.runs[n] = disk.runs[n]
<1> DEFINE Kept == \A n \in Nodes : job.runs[n].state \in Settled
                                       => job'.runs[n] = job.runs[n]
<1>0. job \in Jobs /\ disk \in Jobs /\ job.runs \in [Nodes -> Runs]
      /\ disk.runs \in [Nodes -> Runs]
  BY DEF TypeOK, Jobs
<1>1. SUFFICES ASSUME ~(pc = "free" /\ pc' = "pick" /\ disk' = job')
               PROVE  \/ Kept /\ disk' \in {disk, job'}
                      \/ /\ disk' = job'
                         /\ \A n \in Nodes : disk.runs[n].state \in Settled
                                               => disk'.runs[n] = disk.runs[n]
                      \/ job' = disk /\ disk' = disk
  BY DEF AgreeInv
<1>2. CASE \E n \in Nodes : RunnerNext(n)
  <2>1. PICK n \in Nodes : RunnerNext(n)
    BY <1>2
  <2>2. Settles(n) \/ Advances(n) \/ Stays(n) \/ SkipSettled(n)
    BY <2>1, RunnerShape
  <2>3. CASE Settles(n)
    <3>1. PICK s \in {"succeeded", "failed"} : FinishRun(n, s)
      BY <2>3 DEF Settles
    <3>2. \A m \in Nodes : m # n => job'.runs[m] = job.runs[m]
      BY <3>1, FinishRunFacts DEF RunStates
    <3>3. Persist(job')
      BY <3>1, FinishRunFacts DEF RunStates
    <3>4. Kept
      BY <2>3, <3>2 DEF Settles, Open, Settled
    <3> QED BY <3>3, <3>4 DEF Persist
  <2>4. CASE Advances(n)
    <3>1. \A m \in Nodes : m # n => job'.runs[m] = job.runs[m]
      BY <2>4, UpdateFacts DEF Advances
    <3>2. Kept
      BY <2>4, <3>1 DEF Advances, Settled
    <3> QED BY <2>4, <3>2 DEF Advances, Persist
  <2>5. CASE Stays(n) \/ SkipSettled(n)
    <3>1. job' = job /\ disk' \in {disk, job'}
      BY <2>5 DEF Stays, SkipSettled, Persist
    <3> QED BY <3>1
  <2> QED BY <2>2, <2>3, <2>4, <2>5
<1>3. CASE FinishQueue
  <2> DEFINE skipped == [n \in Nodes |->
                           IF job.runs[n].state = "queued"
                             THEN [job.runs[n] EXCEPT !.state = "skipped"]
                             ELSE job.runs[n]]
  <2>1. job'.runs = skipped \/ job'.runs = job.runs
    BY <1>0, <1>3 DEF FinishQueue, Jobs
  <2>2. Kept
    BY <2>1 DEF Settled
  <2>3. disk' \in {disk, job'}
    BY <1>3 DEF FinishQueue, Persist
  <2> QED BY <2>2, <2>3
<1>4. CASE Stop
  BY <1>0, <1>4 DEF Stop, Jobs
<1>5. CASE SaveElsewhere \/ RestartUnsaved \/ UNCHANGED vars
  BY <1>5 DEF SaveElsewhere, RestartUnsaved, vars
<1>6. CASE Crash
  BY <1>6 DEF Crash
<1>7. CASE Restart
  <2> DEFINE repaired == [n \in Nodes |->
               IF disk.runs[n].state = "cut" /\ disk.runs[n].id # 0
                 THEN [disk.runs[n] EXCEPT !.state = "running"] ELSE disk.runs[n]]
  <2>1. \A n \in Nodes : disk.runs[n].state \in Settled => repaired[n] = disk.runs[n]
    BY DEF Settled
  <2>2. CASE Active(disk)
    <3>1. disk' = [disk EXCEPT !.runs = repaired] /\ disk' = job'
      BY <1>7, <2>2 DEF Restart, Repaired
    <3>2. disk'.runs = repaired
      BY <1>0, <3>1 DEF Jobs
    <3> HIDE DEF repaired
    <3> QED BY <2>1, <3>1, <3>2
  <2>3. CASE ~Active(disk)
    BY <1>7, <2>3 DEF Restart, Repaired
  <2> QED BY <2>2, <2>3
<1>8. CASE \E r \in Requesters : RequestNext(r)
  BY <1>1, <1>8 DEF RequestNext, RequestStart, PreflightVerify, PreflightReject,
                    AdmitConflict, Admit, AdmitUnsaved
<1>9. CASE \E n \in Nodes : NodeNext(n)
  BY <1>9 DEF NodeNext, HandleStart, NodeFinishes, ForeignStart, NodeRestarts,
              Disconnect, Reconnect
<1> QED BY <1>2, <1>3, <1>4, <1>5, <1>6, <1>7, <1>8, <1>9 DEF Next

(* Together they are inductive, without any assumption on the system.      *)
HonestInv == TypeOK /\ NumberInv /\ PlaceInv /\ VerdictInv /\ AgreeInv

LEMMA Honest == Spec => []HonestInv
<1>1. Init => HonestInv
  BY InitType, InitNumber, InitVerdict DEF Init, AgreeInv, HonestInv
<1>2. HonestInv /\ [Next]_vars => HonestInv'
  BY TypeStep, PlaceStep, RunnerStepVerdict, OtherStepVerdict, SettledStep
     DEF Next, VerdictInv, HonestInv
<1> QED BY <1>1, <1>2, PTL DEF Spec

(* The verdict on a finished job agrees with its runs, in every system and *)
(* through any number of restarts and lost saves.                          *)
THEOREM VerdictHolds == Spec => []VerdictMatchesRuns
<1>1. HonestInv => VerdictMatchesRuns
  BY DEF HonestInv, VerdictInv, VerdictOf, VerdictMatchesRuns
<1> QED BY <1>1, Honest, PTL

(* What the database says of a settled run stays so until the next job,    *)
(* whatever the process forgets or fails to save later.                    *)
THEOREM ResultsStay == Spec => CommittedResultsStay
<1> DEFINE Step == \A n \in Nodes :
                     disk.runs[n].state \in {"succeeded", "failed", "skipped"}
                       => disk'.runs[n] = disk.runs[n] \/ (pc = "free" /\ pc' = "pick")
<1>1. HonestInv /\ [Next]_vars => [Step]_vars
  BY SettledStep DEF HonestInv, VerdictInv, Settled
<1>2. Spec => [][Step]_vars
  BY <1>1, Honest, PTL DEF Spec
<1> QED BY <1>2 DEF CommittedResultsStay

-----------------------------------------------------------------------------
(* What the modules that extend this one need of a process that is never   *)
(* interrupted, or never forgets.                                          *)

(* There is nothing to repair in what this version wrote.                  *)
LEMMA RepairedSame ==
  ASSUME TypeOK, RunInv, job = disk
  PROVE  Repaired(disk) = disk
<1>1. \A n \in Nodes : disk.runs[n].state # "cut"
  BY DEF RunInv
<1>2. disk.runs = [n \in Nodes |-> disk.runs[n]] /\ [disk EXCEPT !.runs = disk.runs] = disk
  BY DEF TypeOK, Jobs
<1>3. [n \in Nodes |-> IF disk.runs[n].state = "cut" /\ disk.runs[n].id # 0
         THEN [disk.runs[n] EXCEPT !.state = "running"] ELSE disk.runs[n]] = disk.runs
  BY <1>1, <1>2
<1> QED BY <1>2, <1>3 DEF Repaired

(* A step spends from one or two budgets and leaves the others alone.      *)
LEMMA BudgetStep ==
  ASSUME TypeOK, [Next]_vars
  PROVE  /\ \A k \in BudgetKinds : budget[k] \in Nat /\ budget'[k] <= budget[k]
         /\ ~Crash => budget'["crashes"] = budget["crashes"]
         /\ \A n \in Nodes : NodeRestarts(n) => budget["nodeRestarts"] > 0
<1>0. /\ BudgetKinds = {"requests", "stops", "crashes", "failedSaves",
                        "foreignStarts", "nodeRestarts", "outages"}
      /\ \A k \in BudgetKinds : budget[k] \in Nat
  BY DEF BudgetKinds, TypeOK
<1>1. \/ UNCHANGED budget \/ Spend({"requests"}) \/ Spend({"failedSaves"})
      \/ Spend({"stops"}) \/ Spend({"foreignStarts"}) \/ Spend({"nodeRestarts"})
      \/ Spend({"outages"}) \/ (Spend({"crashes"}) /\ Crash)
  <2>1. ASSUME NEW n \in Nodes, RunnerNext(n)
        PROVE  UNCHANGED budget \/ Spend({"failedSaves"})
    BY <2>1 DEF RunnerNext, SkipSettled, TakeQueued, TakeRunning, TakeChecking, ProbeFails,
         ProbeBaseline, SendStart, ReceiveAccepted, ReceiveRefused, StartAmbiguous,
         Resolve, ReconcileRequeue, ReconcileAdopt, ReconcileForeign, AwaitForeign,
         AwaitJob, FinishRun, WaitFor, Persist
  <2>2. ASSUME NEW n \in Nodes, NodeNext(n)
        PROVE  UNCHANGED budget \/ Spend({"foreignStarts"}) \/ Spend({"nodeRestarts"})
               \/ Spend({"outages"})
    BY <2>2 DEF NodeNext, HandleStart, NodeFinishes, ForeignStart, NodeRestarts,
                Disconnect, Reconnect
  <2>3. ASSUME NEW r \in Requesters, RequestNext(r)
        PROVE  UNCHANGED budget \/ Spend({"requests"}) \/ Spend({"failedSaves"})
    BY <2>3 DEF RequestNext, RequestStart, PreflightVerify, PreflightReject,
                AdmitConflict, Admit, AdmitUnsaved
  <2> QED BY <2>1, <2>2, <2>3 DEF Next, vars, Stop, FinishQueue, Persist, SaveElsewhere,
                                  Crash, Restart, RestartUnsaved
<1>2. \A n \in Nodes : NodeRestarts(n) => budget["nodeRestarts"] > 0
  BY DEF NodeRestarts, Spend
<1>3. CASE UNCHANGED budget
  BY <1>0, <1>2, <1>3
<1>4. ASSUME NEW k \in BudgetKinds, Spend({k}), k # "crashes" \/ Crash
      PROVE  /\ \A i \in BudgetKinds : budget'[i] <= budget[i]
             /\ ~Crash => budget'["crashes"] = budget["crashes"]
  BY <1>0, <1>4 DEF Spend
<1> QED BY <1>0, <1>1, <1>2, <1>3, <1>4

(* A process that was not interrupted and will not be has nothing to       *)
(* reconcile: a run is open only while the runner is with it.              *)
Quiet ==
  /\ budget["crashes"] = 0
  /\ pc = "down" => ~Active(job)
  /\ pc # "reconcile"
  /\ pc = "pick" => \A n \in Nodes : ~Open(job, n)

LEMMA QuietStep ==
  ASSUME IInv, PlaceInv, Quiet, [Next]_vars
  PROVE  Quiet'
<1> USE DEF IInv, SafetyInv
<1>0. SUFFICES /\ pc' = "down" => ~Active(job')
               /\ pc' # "reconcile"
               /\ pc' = "pick" => \A n \in Nodes : ~Open(job', n)
  <2>1. "crashes" \in BudgetKinds
    BY DEF BudgetKinds
  <2>2. TypeOK'
    BY TypeStep
  <2>3. budget'["crashes"] \in Nat /\ budget'["crashes"] <= 0
    BY <2>1, <2>2, BudgetStep DEF TypeOK, Quiet
  <2>4. budget'["crashes"] = 0
    BY <2>3
  <2> QED BY <2>4 DEF Quiet, Open
<1>1. ~Crash
  <2>1. "crashes" \in BudgetKinds
    BY DEF BudgetKinds
  <2> QED BY <2>1 DEF Crash, Spend, Quiet
<1>2. /\ pc = "down" => ~Active(job)
      /\ pc # "reconcile"
      /\ pc = "pick" => \A n \in Nodes : ~Open(job, n)
  BY DEF Quiet
<1>3. ASSUME NEW n \in Nodes, RunnerNext(n)
      PROVE  /\ pc' # "down" /\ pc' # "reconcile"
             /\ pc' = "pick" => \A m \in Nodes : ~Open(job', m)
  <2>1. /\ IsHead(n) /\ pc \notin {"down", "free"}
        /\ Settles(n) \/ Advances(n) \/ Stays(n) \/ SkipSettled(n)
    BY <1>3, RunnerShape
  <2>2. CASE Settles(n)
    <3>1. PICK s \in {"succeeded", "failed"} : FinishRun(n, s)
      BY <2>2 DEF Settles
    <3>2. /\ pc' = "pick" /\ job'.runs[n].state = s
          /\ \A m \in Nodes : m # n => job'.runs[m] = job.runs[m]
      BY <3>1, FinishRunFacts DEF RunStates
    <3>3. \A m \in Nodes : m # n => ~Open(job, m)
      BY <2>1, <2>2, OneOpen DEF Settles, RunnerInv
    <3> QED BY <3>2, <3>3 DEF Open
  <2>3. CASE Advances(n)
    <3>1. PICK run \in Runs : /\ job' = SetRun(n, run)
                              /\ \/ pc' \in {"probe", "post"}
                                 \/ pc' = "wait"
                                 \/ pc' = "pick" /\ run.state = "queued"
      BY <2>3 DEF Advances
    <3>2. job'.runs[n] = run /\ \A m \in Nodes : m # n => job'.runs[m] = job.runs[m]
      BY <3>1, UpdateFacts
    <3>3. \A m \in Nodes : m # n => ~Open(job, m)
      <4>1. CASE pc = "pick"
        BY <1>2, <4>1
      <4>2. CASE pc # "pick"
        <5>1. Open(job, n) /\ Active(job)
          BY <2>1, <2>3, <4>2 DEF Advances, PlaceInv, Open, RunnerInv, TypeOK, PCs
        <5> QED BY <5>1, OneOpen
      <4> QED BY <4>1, <4>2
    <3> QED BY <3>1, <3>2, <3>3 DEF Open
  <2>4. CASE Stays(n)
    <3>1. pc' = "reconcile" => pc = "pick" /\ Open(job, n)
      BY <1>3, <2>4 DEF Stays, Open, RunnerNext, SkipSettled, TakeQueued, TakeRunning,
         TakeChecking, ProbeFails, ProbeBaseline, SendStart, ReceiveAccepted,
         ReceiveRefused, StartAmbiguous, Resolve, ReconcileRequeue, ReconcileAdopt,
         ReconcileForeign, AwaitForeign, AwaitJob, At, FinishRun, WaitFor
    <3> QED BY <1>2, <2>4, <3>1 DEF Stays
  <2>5. CASE SkipSettled(n)
    BY <1>2, <2>5 DEF SkipSettled, At, Open
  <2> QED BY <2>1, <2>2, <2>3, <2>4, <2>5
<1>4. ASSUME NEW n \in Nodes, NodeNext(n)
      PROVE  UNCHANGED <<job, pc>>
  BY <1>4 DEF NodeNext, HandleStart, NodeFinishes, ForeignStart, NodeRestarts,
              Disconnect, Reconnect
<1>5. ASSUME NEW r \in Requesters, RequestNext(r)
      PROVE  \/ UNCHANGED <<job, pc>>
             \/ pc' = "pick" /\ \A n \in Nodes : ~Open(job', n)
  BY <1>5 DEF RequestNext, RequestStart, PreflightVerify, PreflightReject, AdmitConflict,
              Admit, AdmitUnsaved, NewJob, Absent, Open
<1>6. CASE Stop
  <2>1. pc' = pc /\ job'.runs = job.runs /\ pc # "down"
    BY <1>6 DEF Stop, TypeOK, Jobs
  <2> QED BY <1>2, <2>1 DEF Open
<1>7. CASE FinishQueue
  BY <1>7 DEF FinishQueue
<1>8. CASE Restart
  <2>1. disk = job /\ pc = "down"
    BY <1>8 DEF Restart, StoreInv
  <2> QED BY <1>2, <1>8, <2>1 DEF Restart
<1>9. CASE SaveElsewhere \/ RestartUnsaved \/ UNCHANGED vars
  BY <1>2, <1>9 DEF SaveElsewhere, RestartUnsaved, vars, Open, Active
<1> QED BY <1>1, <1>2, <1>3, <1>4, <1>5, <1>6, <1>7, <1>8, <1>9 DEF Next, Open, Active

=============================================================================

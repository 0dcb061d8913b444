----------------------- MODULE DiskQueueHistory_proofs -----------------------
(***************************************************************************)
(* Theorems about what an observer of DiskQueue notes down, for any number *)
(* of nodes, requesters and budgeted events. That admission fails closed   *)
(* and that success is never vacuous hold in every system; that a stop     *)
(* holds and that one job starts a node once need a reliable one.          *)
(***************************************************************************)
EXTENDS DiskQueueHistory, DiskQueue_proofs

USE NodesAssumption, SwitchAssumption, BudgetAssumption

(* The history variables constrain nothing: what is proved of DiskQueue    *)
(* holds here as well.                                                     *)
LEMMA Underlying == HistorySpec => Spec
<1>1. HistoryInit => Init
  BY DEF HistoryInit
<1>2. [Next /\ Observe]_<<vars, history>> => [Next]_vars
  OBVIOUS
<1> QED BY <1>1, <1>2, PTL DEF HistorySpec, Spec

(* Only an admission takes the runner of a free disk to its first node.    *)
LEMMA AdmittedFacts ==
  ASSUME TypeOK, Next, Admitted
  PROVE  \E r \in Requesters : Admit(r)
<1>1. pc = "free" /\ pc' = "pick"
  BY DEF Admitted
<1>2. ~ \E n \in Nodes : RunnerNext(n) \/ NodeNext(n)
  BY <1>1 DEF RunnerNext, SkipSettled, TakeQueued, TakeRunning, TakeChecking, ProbeFails,
         ProbeBaseline, SendStart, ReceiveAccepted, ReceiveRefused, StartAmbiguous,
         Resolve, ReconcileRequeue, ReconcileAdopt, ReconcileForeign, AwaitForeign,
         AwaitJob, At, NodeNext, HandleStart, NodeFinishes, ForeignStart, NodeRestarts,
         Disconnect, Reconnect
<1>3. ~(Stop \/ FinishQueue \/ SaveElsewhere \/ Crash \/ Restart \/ RestartUnsaved)
  BY <1>1 DEF Stop, FinishQueue, SaveElsewhere, Crash, Restart, RestartUnsaved
<1>4. PICK r \in Requesters : RequestNext(r)
  BY <1>2, <1>3 DEF Next
<1> QED BY <1>1, <1>4 DEF RequestNext, RequestStart, PreflightVerify, PreflightReject,
                          AdmitConflict, AdmitUnsaved

-----------------------------------------------------------------------------
(* A node the preflight has verified was seen free since the request began. *)
ClearInv ==
  \A r \in Requesters : req[r].verified \subseteq clear[r] /\ clear[r] \subseteq Nodes

(* A request that goes on has verified at most one more node, which is     *)
(* available at that moment.                                               *)
LEMMA VerifiedStep ==
  ASSUME TypeOK, [Next]_vars, NEW r \in Requesters, req'[r] # NoRequest
  PROVE  \A n \in req'[r].verified : n \in req[r].verified \/ (n \in Nodes /\ Available(n)')
<1>0. req \in [Requesters -> Requests] /\ req[r] \in Requests
  BY DEF TypeOK
<1>1. CASE req' = req
  BY <1>1
<1>2. ASSUME NEW q \in Requesters, RequestNext(q), q = r
      PROVE  \A n \in req'[r].verified : n \in req[r].verified
                                         \/ (n \in Nodes /\ Available(n)')
  <2>1. CASE \E S \in SUBSET Nodes : RequestStart(r, S)
    BY <1>0, <2>1 DEF RequestStart, Requests
  <2>2. CASE \E n \in Nodes : PreflightVerify(r, n)
    <3>1. PICK n \in Nodes : PreflightVerify(r, n)
      BY <2>2
    <3>2. req'[r].verified = req[r].verified \cup {n}
      BY <1>0, <3>1 DEF PreflightVerify, Requests
    <3>3. node' = node /\ Available(n)
      BY <3>1 DEF PreflightVerify
    <3> QED BY <3>2, <3>3 DEF Available
  <2>3. CASE \/ \E n \in Nodes : PreflightReject(r, n)
             \/ AdmitConflict(r) \/ Admit(r) \/ AdmitUnsaved(r)
    BY <1>0, <2>3 DEF PreflightReject, AdmitConflict, Admit, AdmitUnsaved
  <2> QED BY <1>2, <2>1, <2>2, <2>3 DEF RequestNext
<1>3. ASSUME NEW q \in Requesters, RequestNext(q), q # r
      PROVE  req'[r] = req[r]
  BY <1>0, <1>3 DEF RequestNext, RequestStart, PreflightVerify, PreflightReject,
                    AdmitConflict, Admit, AdmitUnsaved
<1>4. CASE Crash
  BY <1>4 DEF Crash
<1>5. \/ req' = req \/ Crash \/ \E q \in Requesters : RequestNext(q)
  BY DEF Next, vars, Stop, FinishQueue, SaveElsewhere, Restart, RestartUnsaved,
         RunnerNext, SkipSettled, TakeQueued, TakeRunning, TakeChecking, ProbeFails,
         ProbeBaseline, SendStart, ReceiveAccepted, ReceiveRefused, StartAmbiguous,
         Resolve, ReconcileRequeue, ReconcileAdopt, ReconcileForeign, AwaitForeign,
         AwaitJob, NodeNext, HandleStart, NodeFinishes, ForeignStart, NodeRestarts,
         Disconnect, Reconnect
<1> QED BY <1>1, <1>2, <1>3, <1>4, <1>5

LEMMA ClearStep ==
  ASSUME TypeOK, ClearInv, [Next /\ Observe]_<<vars, history>>
  PROVE  ClearInv'
<1>1. CASE UNCHANGED <<vars, history>>
  BY <1>1 DEF vars, history, ClearInv
<1>2. CASE Next /\ Observe
  <2> SUFFICES ASSUME NEW r \in Requesters
               PROVE  req'[r].verified \subseteq clear'[r] /\ clear'[r] \subseteq Nodes
    BY DEF ClearInv
  <2>1. clear'[r] = IF req'[r] = NoRequest THEN {}
                    ELSE clear[r] \cup {n \in Nodes : Available(n)'}
    BY <1>2 DEF Observe
  <2>2. CASE req'[r] = NoRequest
    BY <2>1, <2>2 DEF NoRequest
  <2>3. CASE req'[r] # NoRequest
    BY <1>2, <2>1, <2>3, VerifiedStep DEF ClearInv
  <2> QED BY <2>2, <2>3
<1> QED BY <1>1, <1>2

(* A job is admitted only if every enabled node of the group was reachable *)
(* and idle at some moment since the request came in (orchestrator.go      *)
(* 586-600).                                                               *)
THEOREM FailsClosed == HistorySpec => AdmissionFailsClosed
<1> DEFINE Step ==
      Admitted => \E r \in Requesters : /\ req[r] # NoRequest
                                        /\ req'[r] = NoRequest
                                        /\ clear[r] = Nodes
<1>1. HistoryInit => ClearInv
  BY DEF HistoryInit, Init, ClearInv, NoRequest
<1>2. TypeOK /\ ClearInv /\ [Next /\ Observe]_<<vars, history>> => ClearInv'
  BY ClearStep
<1>3. TypeOK /\ ClearInv /\ [Next /\ Observe]_<<vars, history>>
        => [Step]_<<vars, history>>
  <2> SUFFICES ASSUME TypeOK, ClearInv, Next, Admitted
               PROVE  \E r \in Requesters : /\ req[r] # NoRequest
                                            /\ req'[r] = NoRequest
                                            /\ clear[r] = Nodes
    OBVIOUS
  <2>1. PICK r \in Requesters : Admit(r)
    BY AdmittedFacts
  <2>2. req[r].target # {} /\ req[r].verified = Nodes /\ req'[r] = NoRequest
    BY <2>1 DEF Admit, TypeOK
  <2>3. clear[r] = Nodes
    BY <2>2 DEF ClearInv
  <2>4. req[r] # NoRequest
    BY <2>2 DEF NoRequest
  <2> QED BY <2>2, <2>3, <2>4
<1>4. HistorySpec => []TypeOK
  BY Underlying, TypeCorrect, PTL
<1>5. HistorySpec => [][Step]_<<vars, history>>
  BY <1>1, <1>2, <1>3, <1>4, PTL DEF HistorySpec
<1> QED BY <1>5 DEF AdmissionFailsClosed

-----------------------------------------------------------------------------
(* Where a success may come from: a compaction that is known to have       *)
(* succeeded for this job, or would be known if it were the one that is    *)
(* waited for or one that is newer than the baseline.                      *)
ResultOf(run, n) ==
  /\ run.state = "succeeded" => n \in worked
  /\ node[n].state = "succeeded" =>
       /\ run.state \in {"running", "cut"} /\ run.id = node[n].id => n \in worked
       /\ run.prev # NoBaseline /\ node[n].id > run.prev => n \in worked

ReplyInv ==
  /\ reply.code # "none" => pc = "posting"
  /\ reply.code = "accepted" =>
       \A n \in Nodes : IsHead(n) /\ node[n].state = "succeeded" /\ node[n].id = reply.id
                         => n \in worked

SuccessInv ==
  /\ \A n \in Nodes : ResultOf(job.runs[n], n) /\ ResultOf(disk.runs[n], n)
  /\ ReplyInv

(* The runner finds a success only where it was observed.                  *)
LEMMA RunnerStepResult ==
  ASSUME HonestInv, SuccessInv, NEW n \in Nodes, RunnerNext(n)
  PROVE  ResultOf(job'.runs[n], n)
<1> USE DEF HonestInv, At
<1>0. /\ IsHead(n) /\ ResultOf(job.runs[n], n)
      /\ job.runs[n] \in Runs /\ node[n].id \in Nat
  <2>1. IsHead(n)
    BY RunnerShape
  <2> QED BY <2>1, RunFieldTypes DEF SuccessInv, TypeOK, NodeRecords
<1>1. CASE job' = job
  BY <1>0, <1>1
<1>2. ASSUME NEW s \in {"queued", "checking", "failed", "succeeded"},
             job'.runs[n] = [job.runs[n] EXCEPT !.state = s],
             s = "succeeded" => n \in worked
      PROVE  ResultOf(job'.runs[n], n)
  <2>1. job'.runs[n].state = s /\ job'.runs[n].prev = job.runs[n].prev
    BY <1>0, <1>2 DEF Runs
  <2> QED BY <1>0, <1>2, <2>1 DEF ResultOf
<1>3. ASSUME FinishRun(n, "failed")
      PROVE  ResultOf(job'.runs[n], n)
  <2>1. job'.runs[n] = [job.runs[n] EXCEPT !.state = "failed"]
    <3>1. job'.runs = [job.runs EXCEPT ![n] = [job.runs[n] EXCEPT !.state = "failed"]]
      BY <1>3, FinishRunFacts DEF RunStates
    <3> QED BY <3>1 DEF TypeOK, Jobs
  <2> QED BY <1>2, <2>1
<1>4. ASSUME NEW id \in Nat, WaitFor(n, id),
             id = node[n].id /\ node[n].state = "succeeded" => n \in worked
      PROVE  ResultOf(job'.runs[n], n)
  <2>1. /\ job'.runs[n].state = "running" /\ job'.runs[n].id = id
        /\ job'.runs[n].prev = job.runs[n].prev
    BY <1>4, WaitForFacts
  <2> QED BY <1>0, <1>4, <2>1 DEF ResultOf
<1>5. ASSUME NEW s \in {"queued", "checking"},
             job' = SetRun(n, [job.runs[n] EXCEPT !.state = s])
      PROVE  ResultOf(job'.runs[n], n)
  <2>1. [job.runs[n] EXCEPT !.state = s] \in Runs
    BY RunFieldTypes DEF RunStates
  <2>2. job'.runs[n] = [job.runs[n] EXCEPT !.state = s]
    BY <1>5, <2>1, UpdateFacts
  <2> QED BY <1>2, <2>2
<1>6. CASE SkipSettled(n) \/ TakeChecking(n) \/ SendStart(n) \/ StartAmbiguous(n)
  BY <1>1, <1>6 DEF SkipSettled, TakeChecking, SendStart, StartAmbiguous
<1>7. CASE TakeQueued(n) \/ ReconcileRequeue(n)
  BY <1>5, <1>7 DEF TakeQueued, ReconcileRequeue
<1>8. CASE TakeRunning(n) \/ ProbeFails(n) \/ ReceiveRefused(n) \/ ReconcileForeign(n)
           \/ AwaitForeign(n)
  BY <1>1, <1>3, <1>8 DEF TakeRunning, ProbeFails, ReceiveRefused, ReconcileForeign,
                          AwaitForeign
<1>9. CASE ProbeBaseline(n)
  <2> DEFINE run == [job.runs[n] EXCEPT !.prev = node[n].id]
  <2>1. run \in Runs /\ run.state = job.runs[n].state /\ run.prev = node[n].id
    BY <1>0, RunFieldTypes DEF Runs
  <2>2. job'.runs[n] = run /\ job.runs[n].state = "checking"
    BY <1>0, <1>9, <2>1, UpdateFacts DEF ProbeBaseline, PlaceInv
  <2> HIDE DEF run
  <2> QED BY <1>0, <2>1, <2>2 DEF ResultOf
<1>10. CASE ReceiveAccepted(n)
  <2>1. reply.id \in Nat /\ reply.code = "accepted" /\ WaitFor(n, reply.id)
    BY <1>10 DEF ReceiveAccepted, TypeOK, Replies
  <2> QED BY <1>0, <1>4, <2>1 DEF SuccessInv, ReplyInv
<1>11. CASE Resolve(n)
  <2>1. job.runs[n].prev # NoBaseline
    BY <1>0, <1>11 DEF Resolve, NumberInv
  <2> QED BY <1>0, <1>3, <1>4, <1>11, <2>1 DEF Resolve, ResultOf
<1>12. CASE ReconcileAdopt(n)
  BY <1>0, <1>4, <1>12 DEF ReconcileAdopt, ResultOf
<1>13. CASE AwaitJob(n)
  <2>1. job.runs[n].state = "running" /\ node[n].state # "running"
    BY <1>0, <1>13 DEF AwaitJob, PlaceInv, Available
  <2>2. CASE node[n].id = job.runs[n].id
    <3>1. FinishRun(n, node[n].state)
      BY <1>13, <2>2 DEF AwaitJob
    <3>2. node[n].state \in {"failed", "succeeded"}
      BY <1>0, <1>13, <2>1, <2>2 DEF AwaitJob, NumberInv, TypeOK, NodeRecords, NodeStates
    <3>3. node[n].state = "succeeded" => n \in worked
      BY <1>0, <2>1, <2>2 DEF ResultOf
    <3>4. job'.runs[n] = [job.runs[n] EXCEPT !.state = node[n].state]
      <4>1. job'.runs = [job.runs EXCEPT ![n] = [job.runs[n] EXCEPT !.state = node[n].state]]
        BY <3>1, <3>2, FinishRunFacts DEF RunStates
      <4> QED BY <4>1 DEF TypeOK, Jobs
    <3> QED BY <1>2, <3>2, <3>3, <3>4
  <2>3. CASE node[n].id # job.runs[n].id
    BY <1>3, <1>13, <2>3 DEF AwaitJob
  <2> QED BY <2>2, <2>3
<1> QED BY <1>6, <1>7, <1>8, <1>9, <1>10, <1>11, <1>12, <1>13 DEF RunnerNext

LEMMA RunnerStepSuccess ==
  ASSUME HonestInv, SuccessInv, NEW n \in Nodes, RunnerNext(n), Observe
  PROVE  SuccessInv'
<1> USE DEF HonestInv
<1>1. /\ IsHead(n) /\ pc \notin {"down", "free"} /\ node' = node
      /\ Settles(n) \/ Advances(n) \/ Stays(n) \/ SkipSettled(n)
  BY RunnerShape
<1>2. worked' = worked
  BY <1>1 DEF Observe, Admitted
<1>3. \A m \in Nodes : m # n => job'.runs[m] = job.runs[m]
  <2>1. CASE Settles(n)
    BY <2>1, FinishRunFacts DEF Settles, RunStates
  <2>2. CASE Advances(n)
    BY <2>2, UpdateFacts DEF Advances
  <2> QED BY <1>1, <2>1, <2>2 DEF Stays, SkipSettled
<1>4. disk' = disk \/ disk' = job'
  BY <1>1 DEF Settles, FinishRun, Advances, Stays, SkipSettled, Persist
<1>5. \A m \in Nodes : ResultOf(job'.runs[m], m) /\ ResultOf(disk'.runs[m], m)
  BY <1>3, <1>4, RunnerStepResult DEF SuccessInv
<1>6. \A m \in Nodes : ResultOf(job.runs[m], m)' /\ ResultOf(disk.runs[m], m)'
  BY <1>1, <1>2, <1>5 DEF ResultOf
<1>7. reply'.code = "none"
  BY DEF SuccessInv, ReplyInv, NoReply, TypeOK, Replies, At,
         RunnerNext, SkipSettled, TakeQueued, TakeRunning, TakeChecking, ProbeFails,
         ProbeBaseline, SendStart, ReceiveAccepted, ReceiveRefused, StartAmbiguous,
         Resolve, ReconcileRequeue, ReconcileAdopt, ReconcileForeign, AwaitForeign,
         AwaitJob
<1> QED BY <1>6, <1>7 DEF SuccessInv, ReplyInv

(* A node that is found succeeded after a step of its own either was so    *)
(* before, with the same job, or was seen succeeding.                      *)
LEMMA NodeStepSuccess ==
  ASSUME HonestInv, SuccessInv, NEW n \in Nodes, NodeNext(n), Observe
  PROVE  SuccessInv'
<1> USE DEF HonestInv
<1>1. /\ UNCHANGED <<job, disk, pc, todo>>
      /\ node[n] \in NodeRecords /\ node \in [Nodes -> NodeRecords]
      /\ \A m \in Nodes : m # n => node'[m] = node[m]
  BY DEF NodeNext, HandleStart, NodeFinishes, ForeignStart, NodeRestarts, Disconnect,
         Reconnect, TypeOK
<1>h. ASSUME HandleStart(n)
      PROVE  \/ node'[n].state = "running"
             \/ node' = node /\ (reply' = reply \/ reply'.code # "accepted")
  <2> DEFINE rec == [node[n] EXCEPT !.id = node[n].id + 1, !.state = "running",
                                    !.own = TRUE]
  <2>1. rec.state = "running"
    BY <1>1 DEF NodeRecords
  <2>2. \/ node' = [node EXCEPT ![n] = rec]
        \/ node' = node /\ (reply' = reply \/ reply'.code # "accepted")
    BY <1>h DEF HandleStart
  <2> QED BY <1>1, <2>1, <2>2
<1>2. worked' = worked \cup {m \in Nodes : /\ node[m].state = "running"
                                          /\ node'[m].state = "succeeded"}
  BY <1>1 DEF Observe, Admitted
<1>3. \/ node'[n].state # "succeeded"
      \/ node[n].state = "running" /\ node'[n].state = "succeeded"
      \/ node'[n].state = node[n].state /\ node'[n].id = node[n].id
  <2>1. CASE HandleStart(n)
    BY <1>h, <2>1
  <2>2. CASE NodeFinishes(n)
    BY <1>1, <2>2 DEF NodeFinishes, NodeRecords
  <2>3. CASE ForeignStart(n) \/ NodeRestarts(n)
    BY <1>1, <2>3 DEF ForeignStart, NodeRestarts, NodeRecords
  <2>4. CASE Disconnect(n) \/ Reconnect(n)
    BY <1>1, <2>4 DEF Disconnect, Reconnect, NodeRecords
  <2> QED BY <2>1, <2>2, <2>3, <2>4 DEF NodeNext
<1>4. \A m \in Nodes : node'[m].state = "succeeded" =>
        m \in worked' \/ (node[m].state = "succeeded" /\ node'[m].id = node[m].id)
  <2> TAKE m \in Nodes
  <2>1. CASE m = n
    BY <1>2, <1>3, <2>1
  <2>2. CASE m # n
    BY <1>1, <2>2
  <2> QED BY <2>1, <2>2
<1>5. \A m \in Nodes : ResultOf(job.runs[m], m)' /\ ResultOf(disk.runs[m], m)'
  BY <1>1, <1>2, <1>4 DEF SuccessInv, ResultOf
<1>6. ReplyInv'
  <2>1. CASE UNCHANGED reply
    BY <1>1, <1>2, <1>4, <2>1 DEF SuccessInv, ReplyInv, IsHead
  <2>2. CASE HandleStart(n)
    <3>1. CASE reply' = reply
      BY <2>1, <3>1
    <3>2. CASE reply' # reply
      <4>1. At("posting", n)
        BY <2>2, <3>2 DEF HandleStart
      <4>2. reply'.code = "accepted" => node'[n].state = "running"
        BY <1>h, <2>2, <3>2
      <4>3. \A m \in Nodes : IsHead(m)' => m = n
        BY <1>1, <4>1, HeadUnique DEF At, IsHead
      <4> QED BY <1>1, <4>1, <4>2, <4>3 DEF ReplyInv, At
    <3> QED BY <3>1, <3>2
  <2> QED BY <2>1, <2>2 DEF NodeNext, NodeFinishes, ForeignStart, NodeRestarts,
                            Disconnect, Reconnect
<1> QED BY <1>5, <1>6 DEF SuccessInv

LEMMA SuccessStep ==
  ASSUME HonestInv, SuccessInv, [Next /\ Observe]_<<vars, history>>
  PROVE  SuccessInv'
<1> USE DEF HonestInv
<1>0. /\ job \in Jobs /\ disk \in Jobs /\ job.runs \in [Nodes -> Runs]
      /\ disk.runs \in [Nodes -> Runs]
  BY DEF TypeOK, Jobs
<1>1. CASE UNCHANGED <<vars, history>>
  BY <1>1 DEF vars, history, SuccessInv, ReplyInv, ResultOf, IsHead
<1>2. CASE Observe /\ \E n \in Nodes : RunnerNext(n)
  BY <1>2, RunnerStepSuccess
<1>3. CASE Observe /\ \E n \in Nodes : NodeNext(n)
  BY <1>3, NodeStepSuccess
<1>4. ASSUME Observe, ~Admitted, node' = node, reply'.code = "none",
             \A n \in Nodes : ResultOf(job'.runs[n], n) /\ ResultOf(disk'.runs[n], n)
      PROVE  SuccessInv'
  <2>1. worked' = worked
    BY <1>4 DEF Observe
  <2>2. \A n \in Nodes : ResultOf(job.runs[n], n)' /\ ResultOf(disk.runs[n], n)'
    BY <1>4, <2>1 DEF ResultOf
  <2> QED BY <1>4, <2>2 DEF SuccessInv, ReplyInv
<1>5. ASSUME Observe, UNCHANGED <<node, reply, pc, todo>>,
             \A n \in Nodes : ResultOf(job'.runs[n], n) /\ ResultOf(disk'.runs[n], n)
      PROVE  SuccessInv'
  <2>1. worked' = worked
    BY <1>5 DEF Observe, Admitted
  <2>2. \A n \in Nodes : ResultOf(job.runs[n], n)' /\ ResultOf(disk.runs[n], n)'
    BY <1>5, <2>1 DEF ResultOf
  <2> QED BY <1>5, <2>1, <2>2 DEF SuccessInv, ReplyInv, IsHead
<1>6. CASE Observe /\ Stop
  <2>1. job'.runs = job.runs /\ disk' = job' /\ UNCHANGED <<node, reply, pc, todo>>
    BY <1>0, <1>6 DEF Stop, Jobs
  <2> QED BY <1>5, <1>6, <2>1 DEF SuccessInv
<1>7. CASE Observe /\ (SaveElsewhere \/ RestartUnsaved)
  BY <1>5, <1>7 DEF SaveElsewhere, RestartUnsaved, SuccessInv
<1>8. CASE Observe /\ FinishQueue
  <2> DEFINE skipped == [n \in Nodes |->
                           IF job.runs[n].state = "queued"
                             THEN [job.runs[n] EXCEPT !.state = "skipped"]
                             ELSE job.runs[n]]
  <2>1. job'.runs = skipped \/ job'.runs = job.runs
    BY <1>0, <1>8 DEF FinishQueue, Jobs
  <2>2. ASSUME NEW n \in Nodes PROVE ResultOf(skipped[n], n)
    <3>1. ResultOf(job.runs[n], n) /\ job.runs[n] \in Runs
      BY <1>0 DEF SuccessInv
    <3>2. CASE job.runs[n].state = "queued"
      <4>1. skipped[n].state = "skipped" /\ skipped[n].prev = job.runs[n].prev
        BY <3>1, <3>2 DEF Runs
      <4> QED BY <3>1, <4>1 DEF ResultOf
    <3> QED BY <3>1, <3>2
  <2> HIDE DEF skipped
  <2>3. \A n \in Nodes : ResultOf(job'.runs[n], n) /\ ResultOf(disk'.runs[n], n)
    <3>1. \A n \in Nodes : ResultOf(job'.runs[n], n)
      BY <2>1, <2>2 DEF SuccessInv
    <3> QED BY <1>8, <3>1 DEF FinishQueue, Persist, SuccessInv
  <2>4. /\ pc = "pick" /\ pc' = "free" /\ node' = node /\ reply' = reply
        /\ reply.code = "none"
    BY <1>8 DEF FinishQueue, SuccessInv, ReplyInv, TypeOK, Replies
  <2> QED BY <1>4, <1>8, <2>3, <2>4 DEF Admitted
<1>9. CASE Observe /\ Crash
  <2>1. /\ job' = disk /\ disk' = disk /\ node' = node /\ reply'.code = "none"
        /\ pc' = "down"
    BY <1>9 DEF Crash, NoReply
  <2> QED BY <1>4, <1>9, <2>1 DEF Admitted, SuccessInv
<1>10. CASE Observe /\ Restart
  <2> DEFINE repaired == [n \in Nodes |->
               IF disk.runs[n].state = "cut" /\ disk.runs[n].id # 0
                 THEN [disk.runs[n] EXCEPT !.state = "running"] ELSE disk.runs[n]]
  <2>1. disk' = job' /\ job'.runs \in {repaired, disk.runs}
    <3>1. CASE Active(disk)
      BY <1>0, <1>10, <3>1 DEF Restart, Repaired, Jobs
    <3>2. CASE ~Active(disk)
      BY <1>10, <3>2 DEF Restart, Repaired
    <3> QED BY <3>1, <3>2
  <2>2. ASSUME NEW n \in Nodes PROVE ResultOf(repaired[n], n)
    <3>1. ResultOf(disk.runs[n], n) /\ disk.runs[n] \in Runs
      BY <1>0 DEF SuccessInv
    <3>2. CASE disk.runs[n].state = "cut" /\ disk.runs[n].id # 0
      <4>1. /\ repaired[n].state = "running" /\ repaired[n].id = disk.runs[n].id
            /\ repaired[n].prev = disk.runs[n].prev
        BY <3>1, <3>2 DEF Runs
      <4> QED BY <3>1, <3>2, <4>1 DEF ResultOf
    <3> QED BY <3>1, <3>2
  <2> HIDE DEF repaired
  <2>3. \A n \in Nodes : ResultOf(job'.runs[n], n) /\ ResultOf(disk'.runs[n], n)
    BY <2>1, <2>2 DEF SuccessInv
  <2>4. pc = "down" /\ node' = node /\ reply' = reply /\ reply.code = "none"
    BY <1>10 DEF Restart, SuccessInv, ReplyInv, TypeOK, Replies
  <2> QED BY <1>4, <1>10, <2>3, <2>4 DEF Admitted
<1>11. ASSUME Observe, NEW r \in Requesters, RequestNext(r) PROVE SuccessInv'
  <2>1. CASE Admit(r)
    <3>1. /\ pc = "free" /\ pc' = "pick" /\ job' = NewJob(req[r].target) /\ disk' = job'
          /\ reply' = reply
      BY <2>1 DEF Admit
    <3>2. \A n \in Nodes : /\ job'.runs[n].state \in {"queued", "absent"}
                           /\ job'.runs[n].prev = NoBaseline
      BY <3>1 DEF NewJob, Absent
    <3>3. reply'.code = "none"
      BY <3>1 DEF SuccessInv, ReplyInv, TypeOK, Replies
    <3>4. \A n \in Nodes : ResultOf(job.runs[n], n)' /\ ResultOf(disk.runs[n], n)'
      BY <3>1, <3>2 DEF ResultOf
    <3> QED BY <3>3, <3>4 DEF SuccessInv, ReplyInv
  <2>2. CASE ~Admit(r)
    <3>1. UNCHANGED <<node, job, disk, pc, todo, reply>>
      BY <1>11, <2>2 DEF RequestNext, RequestStart, PreflightVerify, PreflightReject,
                         AdmitConflict, AdmitUnsaved
    <3> QED BY <1>5, <1>11, <3>1 DEF SuccessInv
  <2> QED BY <2>1, <2>2
<1> QED BY <1>1, <1>2, <1>3, <1>6, <1>7, <1>8, <1>9, <1>10, <1>11 DEF Next

(* A run is reported as succeeded only if a compaction of its node really  *)
(* succeeded after the job was admitted, whatever crashes, restarts of the *)
(* node, lost saves and foreign compactions come between (orchestrator.go  *)
(* 996-1008, 1050-1082).                                                   *)
THEOREM SuccessObserved == HistorySpec => []NoVacuousSuccess
<1>1. HistoryInit => SuccessInv
  <2> SUFFICES ASSUME HistoryInit PROVE SuccessInv
    OBVIOUS
  <2>1. job = disk /\ pc = "down" /\ reply = NoReply
    BY DEF HistoryInit, Init
  <2>2. \A n \in Nodes : disk.runs[n].state # "succeeded"
    <3>1. CASE disk = NoJob
      BY <3>1 DEF NoJob, Absent
    <3>2. ASSUME NEW n \in Nodes, NEW s \in {"cut", "running"}, NEW id \in {0, 1},
                 disk = LegacyJob(n, s, id)
          PROVE  \A m \in Nodes : disk.runs[m].state # "succeeded"
      <4>1. \A m \in Nodes : NewJob(Nodes).runs[m].state = "queued"
        BY DEF NewJob, Absent
      <4> QED BY <3>2, <4>1 DEF LegacyJob, NewJob
    <3> QED BY <3>1, <3>2 DEF HistoryInit, Init
  <2>3. \A n \in Nodes : node[n].state # "succeeded"
    <3>1. CASE node = [n \in Nodes |-> IdleNode]
      BY <3>1 DEF IdleNode
    <3>2. ASSUME NEW n \in Nodes,
                 node = [m \in Nodes |->
                           IF m = n THEN [IdleNode EXCEPT !.id = 1, !.own = TRUE,
                                                          !.state = "running"]
                                    ELSE IdleNode]
          PROVE  \A m \in Nodes : node[m].state # "succeeded"
      BY <3>2 DEF IdleNode
    <3> QED BY <3>1, <3>2 DEF HistoryInit, Init
  <2> QED BY <2>1, <2>2, <2>3 DEF SuccessInv, ResultOf, ReplyInv, NoReply
<1>2. HonestInv /\ SuccessInv /\ [Next /\ Observe]_<<vars, history>> => SuccessInv'
  BY SuccessStep
<1>3. HonestInv /\ SuccessInv => NoVacuousSuccess
  BY DEF SuccessInv, ResultOf, NoVacuousSuccess
<1>4. HistorySpec => []HonestInv
  BY Underlying, Honest, PTL
<1> QED BY <1>1, <1>2, <1>3, <1>4, PTL DEF HistorySpec

-----------------------------------------------------------------------------
(* Compactions of ours begin only where a POST arrives.                    *)
LEMMA StartedFacts ==
  ASSUME IInv, [Next]_vars, NEW n \in Nodes, Started(n)
  PROVE  n \in wire /\ HandleStart(n)
<1> USE DEF IInv, SafetyInv, Started
<1>1. node \in [Nodes -> NodeRecords]
  BY DEF TypeOK
<1>2. ASSUME NEW m \in Nodes, NodeNext(m) PROVE HandleStart(n)
  <2>1. m = n
    BY <1>1, <1>2 DEF NodeNext, HandleStart, NodeFinishes, ForeignStart, NodeRestarts,
                      Disconnect, Reconnect
  <2>2. NodeFinishes(m) \/ ForeignStart(m) \/ NodeRestarts(m) \/ Disconnect(m)
        \/ Reconnect(m) => ~Started(m)
    BY <1>1 DEF NodeFinishes, ForeignStart, NodeRestarts, Disconnect, Reconnect,
                NodeRecords
  <2> QED BY <1>2, <2>1, <2>2 DEF NodeNext
<1>3. node' # node
  OBVIOUS
<1>4. \E m \in Nodes : NodeNext(m)
  BY <1>3 DEF Next, vars, RequestNext, RequestStart, PreflightVerify, PreflightReject,
         AdmitConflict, Admit, AdmitUnsaved, Stop, FinishQueue, SaveElsewhere, Crash,
         Restart, RestartUnsaved, RunnerNext, SkipSettled, TakeQueued, TakeRunning,
         TakeChecking, ProbeFails, ProbeBaseline, SendStart, ReceiveAccepted,
         ReceiveRefused, StartAmbiguous, Resolve, ReconcileRequeue, ReconcileAdopt,
         ReconcileForeign, AwaitForeign, AwaitJob
<1> QED BY <1>2, <1>4 DEF HandleStart

(* Nodes that were queued when the stop was saved are queued or skipped    *)
(* until the next job.                                                     *)
FrozenInv ==
  \A n \in frozen : /\ n \in Nodes /\ job.state \in {"stopping", "stopped"}
                    /\ job.runs[n].state \in {"queued", "skipped"}

LEMMA FrozenStep ==
  ASSUME Reliable, IInv, PlaceInv, FrozenInv, [Next /\ Observe]_<<vars, history>>
  PROVE  FrozenInv'
<1> USE DEF IInv, SafetyInv
<1>0. job \in Jobs /\ job.runs \in [Nodes -> Runs]
  BY DEF TypeOK, Jobs
<1>1. CASE UNCHANGED <<vars, history>>
  BY <1>1 DEF vars, history, FrozenInv
<1>2. CASE Observe /\ Next /\ Admitted
  BY <1>2 DEF Observe, FrozenInv
<1>3. ASSUME Observe, ~Admitted, ~StopSaved,
             \A n \in frozen : /\ job'.state \in {"stopping", "stopped"}
                               /\ job'.runs[n].state \in {"queued", "skipped"}
      PROVE  FrozenInv'
  BY <1>3 DEF Observe, FrozenInv
<1>4. ASSUME Observe, ~Admitted, job' = job PROVE FrozenInv'
  BY <1>3, <1>4 DEF StopSaved, FrozenInv
<1>5. CASE Observe /\ Stop
  <2>1. job'.state = "stopping" /\ job'.runs = job.runs /\ pc' = pc
    BY <1>0, <1>5 DEF Stop, Jobs
  <2>2. ~Admitted
    BY <2>1 DEF Admitted
  <2>3. CASE job.state = "running"
    <3>1. frozen' = {n \in Nodes : job.runs[n].state = "queued"}
      BY <1>5, <2>1, <2>2, <2>3 DEF Observe, StopSaved
    <3> QED BY <2>1, <3>1 DEF FrozenInv
  <2>4. CASE job.state # "running"
    BY <1>3, <1>5, <2>1, <2>2, <2>4 DEF StopSaved, FrozenInv
  <2> QED BY <2>3, <2>4
<1>6. ASSUME Observe, NEW n \in Nodes, RunnerNext(n) PROVE FrozenInv'
  <2>1. /\ pc \notin {"down", "free"}
        /\ Settles(n) \/ Advances(n) \/ Stays(n) \/ SkipSettled(n)
    BY <1>6, RunnerShape
  <2>2. ~Admitted
    BY <2>1 DEF Admitted
  <2>3. CASE Stays(n) \/ SkipSettled(n)
    BY <1>4, <1>6, <2>2, <2>3 DEF Stays, SkipSettled
  <2>4. CASE job' # job
    <3>1. /\ job'.state = job.state
          /\ \A m \in Nodes : m # n => job'.runs[m] = job.runs[m]
      <4>1. CASE Settles(n)
        BY <4>1, FinishRunFacts DEF Settles, RunStates
      <4>2. CASE Advances(n)
        BY <4>2, UpdateFacts DEF Advances
      <4> QED BY <2>1, <2>4, <4>1, <4>2 DEF Stays, SkipSettled
    <3>2. n \notin frozen
      <4>1. CASE TakeQueued(n)
        BY <4>1 DEF TakeQueued, FrozenInv, StopAfter, RunnerInv, At, Active
      <4>2. CASE ~TakeQueued(n)
        <5>1. job.runs[n].state \in {"checking", "running"}
          BY <1>6, <2>1, <2>4, <4>2 DEF PlaceInv, At, RunnerNext, SkipSettled, TakeRunning,
             TakeChecking, ProbeFails, ProbeBaseline, SendStart, ReceiveAccepted,
             ReceiveRefused, StartAmbiguous, Resolve, ReconcileRequeue, ReconcileAdopt,
             ReconcileForeign, AwaitForeign, AwaitJob
        <5> QED BY <5>1 DEF FrozenInv
      <4> QED BY <4>1, <4>2
    <3> QED BY <1>3, <1>6, <2>2, <3>1, <3>2 DEF StopSaved, FrozenInv
  <2> QED BY <1>4, <1>6, <2>2, <2>4
<1>7. CASE Observe /\ FinishQueue
  <2> DEFINE skipped == [n \in Nodes |->
                           IF job.runs[n].state = "queued"
                             THEN [job.runs[n] EXCEPT !.state = "skipped"]
                             ELSE job.runs[n]]
  <2>1. pc = "pick" /\ pc' = "free"
    BY <1>7 DEF FinishQueue
  <2>2. CASE frozen = {}
    BY <1>3, <1>7, <2>1, <2>2 DEF Admitted, StopSaved
  <2>3. CASE frozen # {}
    <3>1. StopAfter
      BY <2>1, <2>3 DEF FrozenInv, StopAfter, RunnerInv, Active
    <3>2. job' = [state |-> "stopped", runs |-> skipped]
      BY <1>7, <3>1 DEF FinishQueue
    <3>3. ASSUME NEW n \in frozen PROVE job'.runs[n].state \in {"queued", "skipped"}
      <4>1. n \in Nodes /\ job.runs[n] \in Runs
            /\ job.runs[n].state \in {"queued", "skipped"}
        BY <1>0 DEF FrozenInv
      <4>2. job'.runs[n] = skipped[n]
        BY <3>2
      <4>3. CASE job.runs[n].state = "queued"
        BY <4>1, <4>2, <4>3 DEF Runs
      <4> QED BY <4>1, <4>2, <4>3
    <3> QED BY <1>3, <1>7, <2>1, <3>2, <3>3 DEF Admitted, StopSaved
  <2> QED BY <2>2, <2>3
<1>8. CASE Observe /\ Crash
  <2>1. job' = disk /\ pc' = "down"
    BY <1>8 DEF Crash
  <2>2. disk = job
    <3>1. {"crashes"} \subseteq BudgetKinds
      BY DEF BudgetKinds
    <3> QED BY <1>8, <3>1 DEF Crash, Spend, StoreInv
  <2> QED BY <1>4, <1>8, <2>1, <2>2 DEF Admitted
<1>9. CASE Observe /\ Restart
  <2>1. pc = "down" /\ job = disk /\ Repaired(disk) = disk
    BY <1>9, RepairedSame DEF Restart, StoreInv
  <2> QED BY <1>4, <1>9, <2>1 DEF Restart, Admitted
<1>10. CASE Observe /\ (SaveElsewhere \/ RestartUnsaved)
  BY <1>4, <1>10 DEF SaveElsewhere, RestartUnsaved, Admitted
<1>11. ASSUME Observe, NEW r \in Requesters, RequestNext(r) PROVE FrozenInv'
  <2>1. CASE Admit(r)
    BY <1>11, <2>1 DEF Admit, Admitted, Observe, FrozenInv
  <2>2. CASE ~Admit(r)
    <3>1. UNCHANGED <<job, pc>>
      BY <1>11, <2>2 DEF RequestNext, RequestStart, PreflightVerify, PreflightReject,
                         AdmitConflict, AdmitUnsaved
    <3> QED BY <1>4, <1>11, <3>1 DEF Admitted
  <2> QED BY <2>1, <2>2
<1>12. ASSUME Observe, NEW n \in Nodes, NodeNext(n) PROVE FrozenInv'
  <2>1. UNCHANGED <<job, pc>>
    BY <1>12 DEF NodeNext, HandleStart, NodeFinishes, ForeignStart, NodeRestarts,
                 Disconnect, Reconnect
  <2> QED BY <1>4, <1>12, <2>1 DEF Admitted
<1> QED BY <1>1, <1>5, <1>6, <1>7, <1>8, <1>9, <1>10, <1>11, <1>12 DEF Next

(* A reliable system stays reliable through its invariants.                *)
LEMMA SafeAlways ==
  ASSUME Reliable
  PROVE  HistorySpec => [](IInv /\ HonestInv)
<1>1. Init => IInv
  BY InitSafe
<1>2. IInv /\ [Next]_vars => IInv'
  BY StepSafe
<1> QED BY <1>1, <1>2, Underlying, Honest, PTL DEF Spec

(* Once a stop is saved, no node that was still queued is started, also by *)
(* a process that only reads of the stop in the database (orchestrator.go  *)
(* 699-718, 745-749).                                                      *)
THEOREM StopHolds ==
  ASSUME Reliable
  PROVE  HistorySpec => StoppedNodesNeverStart
<1> DEFINE Step == \A n \in frozen : ~Started(n)
<1>1. HistoryInit => FrozenInv
  BY DEF HistoryInit, FrozenInv
<1>2. IInv /\ HonestInv /\ FrozenInv /\ [Next /\ Observe]_<<vars, history>> => FrozenInv'
  BY FrozenStep DEF HonestInv
<1>3. IInv /\ FrozenInv /\ [Next /\ Observe]_<<vars, history>> => [Step]_<<vars, history>>
  <2> SUFFICES ASSUME IInv, FrozenInv, Next, NEW n \in frozen, Started(n) PROVE FALSE
    OBVIOUS
  <2>1. n \in Nodes /\ n \in wire
    BY StartedFacts DEF FrozenInv
  <2> QED BY <2>1 DEF FrozenInv, IInv, SafetyInv, WireInv
<1>4. HistorySpec => [][Step]_<<vars, history>>
  BY <1>1, <1>2, <1>3, SafeAlways, PTL DEF HistorySpec
<1> QED BY <1>4 DEF StoppedNodesNeverStart

-----------------------------------------------------------------------------
(* One start per node and job needs one thing more: a node does not forget *)
(* its jobs where the process may forget what it asked for. TLC finds the  *)
(* second start otherwise: the baseline says 0, the restarted node says 0, *)
(* so nothing was started.                                                 *)
Steady ==
  /\ Reliable
  /\ \A b \in Budgets : b["nodeRestarts"] = 0 \/ b["crashes"] = 0

(* While nodes may still restart, nothing has to be reconciled.            *)
CalmInv == budget["nodeRestarts"] > 0 => Quiet

(* The run being checked may yet be found by the reconciliation.           *)
Recoverable == budget["crashes"] > 0 \/ pc \in {"down", "pick", "reconcile"}

(* A start that the reconciliation will have to account for is newer than  *)
(* the baseline that was saved before it.                                  *)
StartOf(n) ==
  /\ starts[n] \in {0, 1}
  /\ job.runs[n].state \in {"absent", "queued"} => starts[n] = 0
  /\ IsHead(n) /\ pc \in {"probe", "post"} => starts[n] = 0
  /\ n \in wire => starts[n] = 0
  /\ Active(job) /\ job.runs[n].state = "checking" /\ Recoverable =>
       /\ starts[n] = 1 => /\ job.runs[n].prev # NoBaseline
                           /\ node[n].id > job.runs[n].prev
       /\ n \in wire \/ (pc = "post" /\ IsHead(n)) => node[n].id >= job.runs[n].prev

StartInv == \A n \in Nodes : StartOf(n)

LEMMA RunnerStepStart ==
  ASSUME IInv, PlaceInv, StartInv, NEW n \in Nodes, RunnerNext(n), Observe
  PROVE  StartInv'
<1> USE DEF IInv, SafetyInv, At
<1>0. /\ IsHead(n) /\ pc \notin {"down", "free"} /\ node' = node
      /\ Settles(n) \/ Advances(n) \/ Stays(n) \/ SkipSettled(n)
      /\ job.runs[n] \in Runs /\ Active(job)
      /\ node[n].id \in Nat
  BY RunnerShape, RunFieldTypes DEF RunnerInv, TypeOK, NodeRecords
<1>s. \A m \in Nodes : starts'[m] = starts[m] /\ StartOf(m)
  <2> TAKE m \in Nodes
  <2>1. starts'[m] = starts[m] + 0
    BY <1>0 DEF Observe, Admitted, Started
  <2>2. starts[m] = 0 \/ starts[m] = 1
    BY DEF StartInv, StartOf
  <2>3. starts'[m] = starts[m]
    BY <2>1, <2>2
  <2> QED BY <2>3 DEF StartInv
<1>b. /\ budget'["crashes"] = budget["crashes"]
      /\ wire' \subseteq wire \cup {n} /\ (~SendStart(n) => wire' \subseteq wire)
      /\ pc # "posting" => wire = {}
  <2>1. pc' # "down"
    BY <1>0 DEF Settles, FinishRun, Advances, Stays, SkipSettled
  <2>2. budget'["crashes"] = budget["crashes"]
    BY <2>1, BudgetStep DEF Next, Crash
  <2>3. wire' \subseteq wire \cup {n} /\ (~SendStart(n) => wire' \subseteq wire)
    BY DEF RunnerNext, SkipSettled, TakeQueued, TakeRunning, TakeChecking, ProbeFails,
         ProbeBaseline, SendStart, ReceiveAccepted, ReceiveRefused, StartAmbiguous,
         Resolve, ReconcileRequeue, ReconcileAdopt, ReconcileForeign, AwaitForeign,
         AwaitJob
  <2> QED BY <1>0, <2>2, <2>3 DEF WireInv
<1>j. /\ job'.state = job.state /\ Active(job')
      /\ \A m \in Nodes : m # n => job'.runs[m] = job.runs[m]
  <2>1. CASE Settles(n)
    BY <1>0, <2>1, FinishRunFacts DEF Settles, RunStates, Active
  <2>2. CASE Advances(n)
    BY <1>0, <2>2, UpdateFacts DEF Advances, Active
  <2> QED BY <1>0, <2>1, <2>2 DEF Stays, SkipSettled
<1>h. ASSUME NEW m \in Nodes, m # n PROVE pc' \in {"probe", "post"} => ~IsHead(m)'
  <2>1. CASE Settles(n) \/ SkipSettled(n)
    BY <2>1 DEF Settles, FinishRun, SkipSettled
  <2>2. CASE Advances(n) \/ Stays(n)
    BY <1>0, <1>h, <2>2, HeadUnique DEF Advances, Stays, IsHead
  <2> QED BY <1>0, <2>1, <2>2
<1>m. ASSUME NEW m \in Nodes, m # n PROVE StartOf(m)'
  <2>1. CASE pc = "pick"
    <3>1. m \notin wire'
      BY <1>b, <1>m, <2>1
    <3>2. Recoverable
      BY <2>1 DEF Recoverable
    <3> QED BY <1>0, <1>s, <1>j, <1>h, <1>m, <3>1, <3>2 DEF StartOf
  <2>2. CASE pc # "pick"
    <3>1. Open(job, n)
      BY <1>0, <2>2 DEF PlaceInv, Open, TypeOK, PCs
    <3>2. job'.runs[m].state # "checking"
      BY <1>0, <1>j, <1>m, <3>1, OneOpen DEF Open
    <3> QED BY <1>0, <1>s, <1>j, <1>h, <1>b, <1>m, <3>2 DEF StartOf
  <2> QED BY <2>1, <2>2
<1>g. SUFFICES StartOf(n)'
  BY <1>m DEF StartInv
<1>1. ASSUME job'.runs[n].state \notin {"absent", "queued", "checking"},
             pc' \notin {"probe", "post"}, ~SendStart(n)
      PROVE  StartOf(n)'
  BY <1>s, <1>b, <1>1 DEF StartOf
<1>2. ASSUME NEW s \in {"succeeded", "failed"}, FinishRun(n, s), ~SendStart(n)
      PROVE  StartOf(n)'
  <2>1. job'.runs[n].state = s /\ pc' = "pick"
    BY <1>2, FinishRunFacts DEF RunStates
  <2> QED BY <1>1, <1>2, <2>1
<1>3. ASSUME NEW id \in Nat, WaitFor(n, id), ~SendStart(n)
      PROVE  StartOf(n)'
  <2>1. job'.runs[n].state = "running" /\ pc' = "wait"
    BY <1>3, WaitForFacts
  <2> QED BY <1>1, <1>3, <2>1
<1>4. ASSUME NEW s \in {"queued", "checking"}, starts[n] = 0, pc # "posting",
             job' = SetRun(n, [job.runs[n] EXCEPT !.state = s]),
             pc' # "post", ~SendStart(n)
      PROVE  StartOf(n)'
  <2>1. n \notin wire'
    BY <1>b, <1>4
  <2>2. starts'[n] = 0
    BY <1>s, <1>4
  <2> QED BY <1>4, <2>1, <2>2 DEF StartOf
<1>5. CASE SkipSettled(n)
  <2>1. job' = job /\ pc' = "pick" /\ job.runs[n].state \notin {"absent", "queued", "checking"}
        /\ ~SendStart(n)
    BY <1>5 DEF SkipSettled, SendStart
  <2> QED BY <1>1, <2>1
<1>6. CASE TakeQueued(n)
  <2>1. starts[n] = 0 /\ ~SendStart(n) /\ pc = "pick" /\ pc' = "probe"
    BY <1>s, <1>6 DEF TakeQueued, StartOf, SendStart
  <2> QED BY <1>4, <1>6, <2>1 DEF TakeQueued
<1>7. CASE TakeRunning(n)
  <2>1. ~SendStart(n)
    BY <1>7 DEF TakeRunning, SendStart
  <2>2. CASE FinishRun(n, "failed")
    BY <1>2, <2>1, <2>2
  <2>3. CASE pc' = "wait" /\ job' = job
    BY <1>1, <1>7, <2>1, <2>3 DEF TakeRunning
  <2> QED BY <1>7, <2>2, <2>3 DEF TakeRunning
<1>8. CASE TakeChecking(n)
  <2>1. /\ job' = job /\ todo' = todo /\ pc = "pick" /\ pc' = "reconcile" /\ wire' = {}
    BY <1>b, <1>8 DEF TakeChecking
  <2>2. Recoverable
    BY <2>1 DEF Recoverable
  <2> QED BY <1>0, <1>s, <2>1, <2>2 DEF StartOf
<1>9. CASE ProbeFails(n) \/ ReceiveRefused(n) \/ AwaitForeign(n)
  BY <1>2, <1>9 DEF ProbeFails, ReceiveRefused, AwaitForeign, SendStart
<1>10. CASE ProbeBaseline(n)
  <2> DEFINE run == [job.runs[n] EXCEPT !.prev = node[n].id]
  <2>1. run \in Runs /\ run.prev = node[n].id /\ run.state = job.runs[n].state
    BY <1>0, RunFieldTypes DEF Runs
  <2>2. job'.runs[n] = run /\ job.runs[n].state = "checking"
    BY <1>0, <1>10, <2>1, UpdateFacts DEF ProbeBaseline, PlaceInv
  <2>3. starts'[n] = 0 /\ n \notin wire'
    BY <1>0, <1>s, <1>b, <1>10 DEF ProbeBaseline, StartOf
  <2> HIDE DEF run
  <2>4. node'[n].id >= job'.runs[n].prev
    BY <1>0, <2>1, <2>2
  <2> QED BY <2>1, <2>2, <2>3, <2>4 DEF StartOf
<1>11. CASE SendStart(n)
  <2>1. /\ job' = job /\ todo' = todo /\ pc = "post" /\ pc' = "posting"
    BY <1>11 DEF SendStart
  <2>2. starts'[n] = 0 /\ job.runs[n].state = "checking"
    BY <1>0, <1>s, <2>1 DEF StartOf, PlaceInv
  <2>3. Recoverable' => Recoverable
    BY <1>b, <2>1 DEF Recoverable
  <2>4. Recoverable => node[n].id >= job.runs[n].prev
    BY <1>0, <1>s, <2>1, <2>2 DEF StartOf
  <2> QED BY <1>0, <2>1, <2>2, <2>3, <2>4 DEF StartOf
<1>12. CASE StartAmbiguous(n)
  <2>1. /\ job' = job /\ todo' = todo /\ pc = "posting" /\ pc' = "resolve"
        /\ wire' \subseteq wire
    BY <1>12 DEF StartAmbiguous
  <2>2. Recoverable' => Recoverable
    BY <1>b, <2>1 DEF Recoverable
  <2> QED BY <1>0, <1>s, <2>1, <2>2 DEF StartOf
<1>13. CASE ReceiveAccepted(n)
  BY <1>3, <1>13 DEF ReceiveAccepted, SendStart, TypeOK, Replies
<1>14. CASE Resolve(n)
  BY <1>0, <1>2, <1>3, <1>14 DEF Resolve, SendStart
<1>15. CASE ReconcileRequeue(n)
  <2>1. job.runs[n].state = "checking" /\ Recoverable /\ ~SendStart(n)
    BY <1>0, <1>15 DEF ReconcileRequeue, PlaceInv, Recoverable, SendStart
  <2>2. starts[n] = 0
    <3>1. job.runs[n].prev = NoBaseline \/ node[n].id = job.runs[n].prev
      BY <1>15 DEF ReconcileRequeue
    <3> QED BY <1>0, <1>s, <2>1, <3>1 DEF StartOf
  <2> QED BY <1>4, <1>15, <2>1, <2>2 DEF ReconcileRequeue
<1>16. CASE ReconcileAdopt(n)
  BY <1>0, <1>3, <1>16 DEF ReconcileAdopt, SendStart
<1>17. CASE ReconcileForeign(n)
  <2>1. CASE FinishRun(n, "failed")
    BY <1>2, <1>17, <2>1 DEF ReconcileForeign, SendStart
  <2>2. CASE pc' = "foreign" /\ job' = job
    <3>1. /\ todo' = todo /\ wire' = {} /\ Recoverable
      BY <1>b, <1>17, <2>2 DEF ReconcileForeign, Recoverable, FinishRun
    <3> QED BY <1>0, <1>s, <2>2, <3>1 DEF StartOf
  <2> QED BY <1>17, <2>1, <2>2 DEF ReconcileForeign
<1>18. CASE AwaitJob(n)
  <2>1. /\ Settles(n) /\ ~SendStart(n)
    <3>1. job.runs[n].state = "running" /\ pc' = "pick" /\ pc = "wait"
      BY <1>0, <1>18 DEF AwaitJob, PlaceInv, FinishRun
    <3>2. ~Stays(n) /\ ~Advances(n) /\ ~SkipSettled(n)
      BY <3>1 DEF Stays, Advances, SkipSettled
    <3> QED BY <1>0, <3>1, <3>2 DEF SendStart
  <2> QED BY <1>2, <2>1 DEF Settles
<1> QED
  BY <1>5, <1>6, <1>7, <1>8, <1>9, <1>10, <1>11, <1>12, <1>13, <1>14, <1>15, <1>16,
     <1>17, <1>18 DEF RunnerNext

(* A node that takes a POST starts what the baseline does not know yet; one *)
(* that restarts does so only while nothing has to be reconciled.          *)
LEMMA NodeStepStart ==
  ASSUME IInv, CalmInv, StartInv, NEW n \in Nodes, NodeNext(n), Observe
  PROVE  StartInv'
<1> USE DEF IInv, SafetyInv
<1>0. /\ UNCHANGED <<job, pc, todo>> /\ wire' \subseteq wire
      /\ node \in [Nodes -> NodeRecords] /\ node[n].id \in Nat
      /\ \A m \in Nodes : m # n => node'[m] = node[m]
  BY DEF NodeNext, HandleStart, NodeFinishes, ForeignStart, NodeRestarts, Disconnect,
         Reconnect, TypeOK, NodeRecords
<1>1. Recoverable' => Recoverable
  <2>1. [Next]_vars
    BY DEF Next
  <2>2. "crashes" \in BudgetKinds
    BY DEF BudgetKinds
  <2>3. budget'["crashes"] <= budget["crashes"] /\ TypeOK'
    BY <2>1, <2>2, BudgetStep, TypeStep
  <2> QED BY <1>0, <2>2, <2>3 DEF Recoverable, TypeOK
<1>2. \A m \in Nodes : /\ StartOf(m)
                       /\ starts'[m] = starts[m] + (IF Started(m) THEN 1 ELSE 0)
  BY <1>0 DEF StartInv, Observe, Admitted
<1>3. ASSUME NEW m \in Nodes, ~Started(m), node'[m].id >= node[m].id PROVE StartOf(m)'
  <2>1. starts'[m] = starts[m] + 0
    BY <1>2, <1>3
  <2>2. starts[m] = 0 \/ starts[m] = 1
    BY <1>2 DEF StartOf
  <2>3. starts'[m] = starts[m]
    BY <2>1, <2>2
  <2>4. /\ node[m].id \in Nat /\ node'[m].id \in Nat
        /\ job.runs[m].prev \in Nat \/ job.runs[m].prev = -1
    <3>1. TypeOK'
      BY TypeStep DEF Next
    <3> QED BY <3>1 DEF TypeOK, Jobs, Runs, NodeRecords, NoBaseline
  <2>5. \A p : p \in Nat \/ p = -1 =>
          /\ node[m].id > p => node'[m].id > p
          /\ node[m].id >= p => node'[m].id >= p
    BY <1>3, <2>4
  <2>6. IsHead(m)' = IsHead(m)
    BY <1>0 DEF IsHead
  <2> HIDE DEF IInv, SafetyInv
  <2> QED BY <1>0, <1>1, <1>2, <2>3, <2>4, <2>5, <2>6 DEF StartOf, Active
<1>4. ASSUME NEW m \in Nodes, m # n PROVE StartOf(m)'
  <2>1. node'[m] = node[m] /\ node[m].id \in Nat
    BY <1>0, <1>4 DEF NodeRecords
  <2>2. ~Started(m) /\ node'[m].id >= node[m].id
    BY <2>1 DEF Started
  <2> QED BY <1>3, <2>2
<1>5. SUFFICES StartOf(n)'
  BY <1>4 DEF StartInv
<1>6. CASE HandleStart(n)
  <2>1. /\ n \in wire /\ n \notin wire' /\ starts[n] = 0 /\ pc \in {"down", "posting"}
        /\ job.runs[n].state = "checking" /\ job.runs[n].prev # NoBaseline /\ Active(job)
    BY <1>2, <1>6 DEF HandleStart, StartOf, WireInv
  <2>2. CASE node' = node
    <3>1. ~Started(n) /\ node'[n].id >= node[n].id
      BY <1>0, <2>2 DEF Started
    <3> QED BY <1>3, <3>1
  <2>3. CASE node' # node
    <3>1. node'[n].id = node[n].id + 1
      BY <1>0, <1>6, <2>3 DEF HandleStart, NodeRecords
    <3>2. Recoverable => node[n].id >= job.runs[n].prev
      BY <1>2, <2>1 DEF StartOf
    <3>3. Recoverable' => node'[n].id > job.runs[n].prev
      <4>1. job.runs[n].prev \in Nat
        BY <2>1 DEF TypeOK, Jobs, Runs
      <4> QED BY <1>0, <1>1, <3>1, <3>2, <4>1
    <3>4. starts'[n] = 0 \/ starts'[n] = 1
      <4>1. starts'[n] = 0 + 0 \/ starts'[n] = 0 + 1
        BY <1>2, <2>1
      <4> QED BY <4>1
    <3> QED BY <1>0, <2>1, <3>3, <3>4 DEF StartOf
  <2> QED BY <2>2, <2>3
<1>7. CASE NodeFinishes(n) \/ ForeignStart(n) \/ Disconnect(n) \/ Reconnect(n)
  <2>1. /\ ~Started(n)
        /\ node'[n].id = node[n].id \/ node'[n].id = node[n].id + 1
    BY <1>0, <1>7 DEF NodeFinishes, ForeignStart, Disconnect, Reconnect, Started,
                      NodeRecords
  <2>2. node'[n].id >= node[n].id
    BY <1>0, <2>1
  <2> QED BY <1>3, <2>1, <2>2
<1>8. CASE NodeRestarts(n)
  <2>1. ~Started(n)
    BY <1>0, <1>8 DEF NodeRestarts, Started, NodeRecords
  <2>2. starts'[n] = starts[n] + 0
    BY <1>2, <2>1
  <2>3. starts[n] = 0 \/ starts[n] = 1
    BY <1>2 DEF StartOf
  <2>4. starts'[n] = starts[n]
    BY <2>2, <2>3
  <2>5. budget["nodeRestarts"] > 0
    BY <1>8, BudgetStep DEF Next, NodeNext
  <2>6. Quiet /\ budget["crashes"] = 0
    BY <2>5 DEF CalmInv, Quiet
  <2>7. ASSUME Active(job), job.runs[n].state = "checking", Recoverable PROVE FALSE
    <3>1. Open(job, n)
      BY <2>7 DEF Open
    <3>2. pc \in {"down", "pick", "reconcile"}
      BY <2>6, <2>7 DEF Recoverable
    <3> HIDE DEF IInv, SafetyInv
    <3> QED BY <2>6, <2>7, <3>1, <3>2 DEF Quiet
  <2>8. IsHead(n)' = IsHead(n)
    BY <1>0 DEF IsHead
  <2> HIDE DEF IInv, SafetyInv
  <2> QED BY <1>0, <1>1, <1>2, <2>4, <2>7, <2>8 DEF StartOf, Active
<1> QED BY <1>6, <1>7, <1>8 DEF NodeNext

(* An admission counts from 0; whatever the process forgets in a crash, it  *)
(* reads back.                                                             *)
LEMMA StartStep ==
  ASSUME Reliable, IInv, PlaceInv, CalmInv, StartInv,
         [Next /\ Observe]_<<vars, history>>
  PROVE  StartInv'
<1> USE DEF IInv, SafetyInv
<1>0. job \in Jobs /\ job.runs \in [Nodes -> Runs]
  BY DEF TypeOK, Jobs
<1>1. CASE UNCHANGED <<vars, history>>
  BY <1>1 DEF vars, history, StartInv, StartOf, IsHead, Recoverable, Active
<1>2. ASSUME NEW n \in Nodes, RunnerNext(n), Observe PROVE StartInv'
  BY <1>2, RunnerStepStart
<1>3. ASSUME NEW n \in Nodes, NodeNext(n), Observe PROVE StartInv'
  BY <1>3, NodeStepStart
<1>4. ASSUME NEW r \in Requesters, Admit(r), Observe PROVE StartInv'
  <2>1. Admitted /\ wire' = {} /\ pc' = "pick"
    BY <1>4 DEF Admit, Admitted, WireInv
  <2>2. ASSUME NEW n \in Nodes
        PROVE  starts'[n] = 0 /\ job'.runs[n].state \in {"absent", "queued"}
    BY <1>4, <2>1, <2>2 DEF Observe, Admit, NewJob, Absent
  <2> QED BY <2>1, <2>2 DEF StartInv, StartOf
<1>5. ASSUME Observe, ~Admitted, node' = node, NEW n \in Nodes
      PROVE  starts'[n] = starts[n]
  <2>1. starts'[n] = starts[n] + 0
    BY <1>5 DEF Observe, Started
  <2>2. starts[n] = 0 \/ starts[n] = 1
    BY DEF StartInv, StartOf
  <2> QED BY <2>1, <2>2
<1>6. ASSUME Observe, ~Admitted, node' = node, wire' \subseteq wire,
             Recoverable' => Recoverable, job'.runs = job.runs,
             Active(job') => Active(job),
             pc' \notin {"probe", "post"} \/ UNCHANGED <<pc, todo>>
      PROVE  StartInv'
  <2> SUFFICES ASSUME NEW n \in Nodes PROVE StartOf(n)'
    BY DEF StartInv
  <2>1. starts'[n] = starts[n] /\ StartOf(n)
    BY <1>5, <1>6 DEF StartInv
  <2>2. pc' \in {"probe", "post"} => IsHead(n)' = IsHead(n) /\ pc' = pc
    BY <1>6 DEF IsHead
  <2> QED BY <1>6, <2>1, <2>2 DEF StartOf
<1>7. ASSUME ~Crash, Next PROVE budget'["crashes"] = budget["crashes"]
  BY <1>7, BudgetStep
<1>8. CASE Observe /\ Stop
  <2>1. /\ job'.runs = job.runs /\ Active(job) /\ UNCHANGED <<node, wire, pc, todo>>
    BY <1>0, <1>8 DEF Stop, Jobs, RunnerInv
  <2>2. ~Admitted /\ ~Crash
    BY <1>8, <2>1 DEF Admitted, Crash
  <2>3. Recoverable' => Recoverable
    BY <1>7, <1>8, <2>1, <2>2 DEF Next, Recoverable
  <2> QED BY <1>6, <1>8, <2>1, <2>2, <2>3
<1>9. CASE Observe /\ FinishQueue
  <2> DEFINE skipped == [n \in Nodes |->
                           IF job.runs[n].state = "queued"
                             THEN [job.runs[n] EXCEPT !.state = "skipped"]
                             ELSE job.runs[n]]
  <2>1. /\ pc = "pick" /\ pc' = "free" /\ node' = node /\ wire' = {}
        /\ ~Active(job')
        /\ job'.runs = job.runs \/ job'.runs = skipped
    BY <1>0, <1>9 DEF FinishQueue, WireInv, Active, Jobs
  <2> SUFFICES ASSUME NEW n \in Nodes PROVE StartOf(n)'
    BY DEF StartInv
  <2>2. starts'[n] = starts[n] /\ StartOf(n)
    BY <1>5, <1>9, <2>1 DEF StartInv, Admitted
  <2>3. job'.runs[n].state \in {"absent", "queued"} =>
          job.runs[n].state \in {"absent", "queued"}
    <3>1. job.runs[n] \in Runs
      BY <1>0 DEF Jobs
    <3> QED BY <2>1, <3>1 DEF Runs
  <2> QED BY <2>1, <2>2, <2>3 DEF StartOf
<1>10. CASE Observe /\ Crash
  <2>1. /\ pc' = "down" /\ UNCHANGED <<node, wire>> /\ job' = disk
        /\ budget["crashes"] > 0
    <3>1. "crashes" \in BudgetKinds
      BY DEF BudgetKinds
    <3> QED BY <1>10, <3>1 DEF Crash, Spend
  <2>2. disk = job /\ Recoverable
    BY <2>1 DEF StoreInv, Recoverable
  <2> QED BY <1>6, <1>10, <2>1, <2>2 DEF Admitted
<1>11. CASE Observe /\ Restart
  <2>1. pc = "down" /\ job = disk /\ Recoverable
    BY <1>11 DEF Restart, StoreInv, Recoverable
  <2>2. Repaired(disk) = disk
    BY <2>1, RepairedSame
  <2>3. /\ job' = job /\ node' = node /\ wire' \subseteq wire
        /\ pc' \in {"pick", "free"}
    BY <1>11, <2>1, <2>2 DEF Restart
  <2> QED BY <1>6, <1>11, <2>1, <2>3 DEF Admitted
<1>12. ASSUME Next, Observe, UNCHANGED <<node, job, pc, todo, wire>> PROVE StartInv'
  <2>1. ~Admitted
    BY <1>12 DEF Admitted
  <2>2. ~Crash
    BY <1>12 DEF Crash
  <2>3. Recoverable' => Recoverable
    BY <1>7, <1>12, <2>2 DEF Recoverable
  <2> QED BY <1>6, <1>12, <2>1, <2>3
<1>13. CASE Observe /\ (SaveElsewhere \/ RestartUnsaved)
  BY <1>12, <1>13 DEF SaveElsewhere, RestartUnsaved, Next
<1>14. ASSUME Next, Observe, NEW r \in Requesters, RequestNext(r), ~Admit(r)
       PROVE  StartInv'
  BY <1>12, <1>14 DEF RequestNext, RequestStart, PreflightVerify, PreflightReject,
                      AdmitConflict, AdmitUnsaved
<1> QED BY <1>1, <1>2, <1>3, <1>4, <1>8, <1>9, <1>10, <1>11, <1>13, <1>14 DEF Next

(* One job starts a node at most once.                                     *)
THEOREM SingleStartHolds ==
  ASSUME Steady
  PROVE  HistorySpec => []SingleStart
<1>1. HistoryInit => CalmInv /\ StartInv
  <2> SUFFICES ASSUME HistoryInit PROVE CalmInv /\ StartInv
    OBVIOUS
  <2>1. /\ disk = NoJob /\ job = disk /\ pc = "down" /\ wire = {}
        /\ starts = [n \in Nodes |-> 0] /\ budget \in Budgets
    BY DEF HistoryInit, Init, Steady, Reliable
  <2>2. {"nodeRestarts", "crashes"} \subseteq BudgetKinds
    BY DEF BudgetKinds
  <2>3. ~Active(job)
    BY <2>1 DEF NoJob, Active
  <2>4. budget["nodeRestarts"] > 0 => budget["crashes"] = 0
    BY <2>1 DEF Steady
  <2> QED BY <2>1, <2>3, <2>4 DEF CalmInv, Quiet, StartInv, StartOf
<1>2. IInv /\ HonestInv /\ CalmInv /\ StartInv /\ [Next /\ Observe]_<<vars, history>>
        => CalmInv' /\ StartInv'
  <2> SUFFICES ASSUME IInv, PlaceInv, CalmInv, StartInv,
                      [Next /\ Observe]_<<vars, history>>
               PROVE  CalmInv' /\ StartInv'
    BY DEF HonestInv
  <2>1. [Next]_vars
    OBVIOUS
  <2>2. CalmInv'
    <3>1. {"nodeRestarts"} \subseteq BudgetKinds /\ TypeOK'
      BY <2>1, TypeStep DEF BudgetKinds, IInv
    <3>2. budget["nodeRestarts"] \in Nat /\ budget'["nodeRestarts"] \in Nat
          /\ budget'["nodeRestarts"] <= budget["nodeRestarts"]
      BY <2>1, <3>1, BudgetStep DEF IInv, TypeOK
    <3>3. budget'["nodeRestarts"] > 0 => budget["nodeRestarts"] > 0
      BY <3>2
    <3> QED BY <2>1, <3>3, QuietStep DEF CalmInv
  <2> QED BY <2>2, StartStep DEF Steady
<1>3. StartInv => SingleStart
  <2>1. \A n \in Nodes : StartOf(n) => starts[n] = 0 \/ starts[n] = 1
    BY DEF StartOf
  <2>2. \A k : k = 0 \/ k = 1 => k <= 1
    OBVIOUS
  <2> QED BY <2>1, <2>2 DEF StartInv, SingleStart
<1>4. HistorySpec => [](IInv /\ HonestInv)
  BY SafeAlways DEF Steady
<1> QED BY <1>1, <1>2, <1>3, <1>4, PTL DEF HistorySpec
=============================================================================

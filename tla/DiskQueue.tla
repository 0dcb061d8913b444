----------------------------- MODULE DiskQueue -----------------------------
(***************************************************************************)
(* The compaction queue of one disk group: the orchestrator process that   *)
(* admits a job (orchestrator.go, startGroupWithTrigger), stops it         *)
(* (stopGroup), walks its nodes one after the other (runJob and the        *)
(* functions it calls) and picks it up again after a restart               *)
(* (recoverableJobs), together with the storage nodes it talks to and the  *)
(* database it saves to.                                                   *)
(*                                                                         *)
(* The group has a fixed set of enabled nodes, numbered in settings order. *)
(* A poll of a node and the critical section that follows it are one step: *)
(* the section reads nothing that another goroutine can change meanwhile.  *)
(* The POST that starts a compaction is not: sending it, the node taking   *)
(* it, and the answer coming back are steps of their own.                  *)
(***************************************************************************)
EXTENDS Integers

CONSTANTS
  Nodes,          \* enabled nodes of the group, by position in the settings
  Requesters,     \* goroutines that may ask for a start: API calls, schedules
  DisabledNodes,  \* nodes that report manual-log-compaction off
  RefusingNodes,  \* nodes that answer POST with an error other than 409
  LateDelivery,   \* TRUE: a POST may reach its node after its sender gave up
  GatewayErrors,  \* TRUE: a proxy may answer 5xx for a POST it forwarded
  LegacyDatabase, \* TRUE: the first start may find a job of an old version
  Budgets         \* bounds: how often each of the events below may happen

BudgetKinds == {"requests", "stops", "crashes", "failedSaves",
                "foreignStarts", "nodeRestarts", "outages"}

ASSUME NodesAssumption == Nodes \subseteq Nat /\ Nodes # {}
ASSUME SwitchAssumption ==
  /\ DisabledNodes \subseteq Nodes /\ RefusingNodes \subseteq Nodes
  /\ LateDelivery \in BOOLEAN /\ GatewayErrors \in BOOLEAN
  /\ LegacyDatabase \in BOOLEAN
ASSUME BudgetAssumption == Budgets \subseteq [BudgetKinds -> Nat]

VARIABLES
  node,    \* storage node n: its manual compaction job and the network to it
  job,     \* the group's latest job as the process holds it in memory
  disk,    \* that job as last committed to SQLite
  pc,      \* where the group's runJob goroutine is; "free": no job is
           \* running in the group; "down": there is no process
  todo,    \* nodes runJob's loop has yet to leave, its current one included
  seen,    \* runJob's local variables failed and stopped
  req,     \* start requests between their first check and their admission
  wire,    \* nodes a POST is travelling to
  reply,   \* the node's answer to the POST the runner waits for
  budget   \* what is left of the budget chosen at the start

vars == <<node, job, disk, pc, todo, seen, req, wire, reply, budget>>

NoBaseline == -1   \* PreviousJobID == nil
NoReply == [code |-> "none", id |-> 0]
NoRequest == [target |-> {}, verified |-> {}]
NothingSeen == [failed |-> FALSE, stopped |-> FALSE]

NodeStates == {"idle", "running", "succeeded", "failed"}
(* "cut" is what versions before queue recovery left of a run they were    *)
(* waiting for when they were shut down: failed, "context canceled", no    *)
(* After totals.                                                           *)
RunStates == {"absent", "queued", "checking", "running", "succeeded",
              "failed", "skipped", "cut"}
JobStates == {"none", "running", "stopping", "succeeded", "failed", "stopped"}

Runs == [state : RunStates, prev : Nat \cup {NoBaseline}, id : Nat]
Jobs == [state : JobStates, runs : [Nodes -> Runs]]
NodeRecords == [id : Nat, state : NodeStates, own : BOOLEAN, reachable : BOOLEAN]
Replies == [code : {"none", "accepted", "conflict", "refused"}, id : Nat]
Requests == [target : SUBSET Nodes, verified : SUBSET Nodes]
PCs == {"down", "free", "pick", "probe", "post", "posting", "resolve",
        "reconcile", "foreign", "wait"}

TypeOK ==
  /\ node \in [Nodes -> NodeRecords]
  /\ job \in Jobs /\ disk \in Jobs
  /\ pc \in PCs
  /\ todo \subseteq Nodes
  /\ seen \in [failed : BOOLEAN, stopped : BOOLEAN]
  /\ req \in [Requesters -> Requests]
  /\ wire \subseteq Nodes
  /\ reply \in Replies
  /\ budget \in [BudgetKinds -> Nat]

-----------------------------------------------------------------------------
(* Shared pieces.                                                          *)

Absent == [state |-> "absent", prev |-> NoBaseline, id |-> 0]
NoJob == [state |-> "none", runs |-> [n \in Nodes |-> Absent]]
NewJob(S) ==
  [state |-> "running",
   runs |-> [n \in Nodes |-> IF n \in S THEN [Absent EXCEPT !.state = "queued"]
                                        ELSE Absent]]
Active(j) == j.state \in {"running", "stopping"}
Members(j) == {n \in Nodes : j.runs[n].state # "absent"}
Open(j, n) == j.runs[n].state \in {"checking", "running"}

(* The node the loop of runJob is at: the first one it has not left.       *)
IsHead(n) == n \in todo /\ \A m \in todo : n <= m
At(label, n) == pc = label /\ IsHead(n)

(* job.StopAfter and the state "stopping" are set, saved and rolled back   *)
(* together, so one of them is enough.                                     *)
StopAfter == job.state = "stopping"

Spend(kinds) ==
  /\ \A k \in kinds : budget[k] > 0
  /\ budget' = [k \in BudgetKinds |-> IF k \in kinds THEN budget[k] - 1
                                                     ELSE budget[k]]

(* persistLocked where a failure is only logged: the difference to the     *)
(* last committed state is written in one transaction, so the database     *)
(* either catches up with the whole of memory or keeps what it had.        *)
Persist(j) ==
  \/ disk' = j /\ UNCHANGED budget
  \/ disk' = disk /\ Spend({"failedSaves"})

(* A poll finds the node reachable and no manual job running on it. (What  *)
(* a node compacts of its own accord only makes the preflight reject more. *)
(* It is left out.)                                                        *)
Available(n) == node[n].reachable /\ node[n].state # "running"

(* The job with the run of n replaced.                                     *)
SetRun(n, run) == [job EXCEPT !.runs = [@ EXCEPT ![n] = run]]

(* Any other handler that saves (another group's queue, the settings, the  *)
(* schedules) writes what this group's failed saves left out.              *)
SaveElsewhere ==
  /\ pc # "down" /\ disk # job
  /\ disk' = job
  /\ UNCHANGED <<node, job, pc, todo, seen, req, wire, reply, budget>>

(* finishNodeRun with the return to the loop of runJob that follows it.    *)
FinishRun(n, state) ==
  LET j == SetRun(n, [job.runs[n] EXCEPT !.state = state]) IN
    /\ job' = j
    /\ Persist(j)
    /\ pc' = "pick"
    /\ todo' = todo \ {n}
    /\ seen' = [seen EXCEPT !.failed = @ \/ state # "succeeded"]

(* Record the node job the runner will wait for.                           *)
WaitFor(n, id) ==
  LET j == SetRun(n, [job.runs[n] EXCEPT !.state = "running", !.id = id]) IN
    /\ job' = j
    /\ Persist(j)
    /\ pc' = "wait"
    /\ UNCHANGED <<todo, seen>>

-----------------------------------------------------------------------------
(* A start request: startGroupWithTrigger.                                 *)

(* The whole group or one of its nodes; rejected at once while a job runs. *)
RequestStart(r, S) ==
  /\ pc = "free"
  /\ req[r] = NoRequest
  /\ S = Nodes \/ \E n \in Nodes : S = {n}
  /\ req' = [req EXCEPT ![r] = [@ EXCEPT !.target = S]]
  /\ Spend({"requests"})
  /\ UNCHANGED <<node, job, disk, pc, todo, seen, wire, reply>>

(* Mutant: the preflight forgets to look at what the poll found.           *)
PreflightVerifyBlindly(r, n) ==
  /\ req[r].target # {} /\ n \notin req[r].verified
  /\ req' = [req EXCEPT ![r] = [@ EXCEPT !.verified = req[r].verified \cup {n}]]
  /\ UNCHANGED <<node, job, disk, pc, todo, seen, wire, reply, budget>>

(* The preflight polls every enabled node of the group, without the lock.  *)
PreflightVerify(r, n) ==
  /\ req[r].target # {} /\ n \notin req[r].verified
  /\ Available(n)
  /\ req' = [req EXCEPT ![r] = [@ EXCEPT !.verified = req[r].verified \cup {n}]]
  /\ UNCHANGED <<node, job, disk, pc, todo, seen, wire, reply, budget>>

PreflightReject(r, n) ==
  /\ req[r].target # {} /\ n \notin req[r].verified
  /\ ~Available(n)
  /\ req' = [req EXCEPT ![r] = NoRequest]
  /\ UNCHANGED <<node, job, disk, pc, todo, seen, wire, reply, budget>>

(* The second check, under the lock: another job was admitted meanwhile.   *)
AdmitConflict(r) ==
  /\ req[r].target # {} /\ req[r].verified = Nodes
  /\ pc # "free"
  /\ req' = [req EXCEPT ![r] = NoRequest]
  /\ UNCHANGED <<node, job, disk, pc, todo, seen, wire, reply, budget>>

Admit(r) ==
  /\ req[r].target # {} /\ req[r].verified = Nodes
  /\ pc = "free"
  /\ job' = NewJob(req[r].target) /\ disk' = job'
  /\ pc' = "pick" /\ todo' = req[r].target /\ seen' = NothingSeen
  /\ req' = [req EXCEPT ![r] = NoRequest]
  /\ UNCHANGED <<node, wire, reply, budget>>

(* A job that cannot be saved is taken back.                               *)
AdmitUnsaved(r) ==
  /\ req[r].target # {} /\ req[r].verified = Nodes
  /\ pc = "free"
  /\ Spend({"failedSaves"})
  /\ req' = [req EXCEPT ![r] = NoRequest]
  /\ UNCHANGED <<node, job, disk, pc, todo, seen, wire, reply>>

(* stopGroup. A stop that cannot be saved is taken back: nothing changes.  *)
Stop ==
  /\ pc \notin {"down", "free"}
  /\ job' = [job EXCEPT !.state = "stopping"] /\ disk' = job'
  /\ Spend({"stops"})
  /\ UNCHANGED <<node, pc, todo, seen, req, wire, reply>>

-----------------------------------------------------------------------------
(* The runner: runJob, from its switch on the state of the current run.    *)

(* Mutant: the verdict leaves out what was settled before a restart.       *)
SkipSettledForgets(n) ==
  /\ At("pick", n)
  /\ ~StopAfter
  /\ job.runs[n].state \in {"succeeded", "failed", "cut", "skipped"}
  /\ todo' = todo \ {n}
  /\ UNCHANGED <<node, job, disk, pc, seen, req, wire, reply, budget>>

(* Runs settled before a restart only contribute to the verdict.           *)
SkipSettled(n) ==
  /\ At("pick", n)
  /\ ~StopAfter
  /\ LET s == job.runs[n].state IN
       /\ s \in {"succeeded", "failed", "cut", "skipped"}
       /\ seen' = [failed |-> seen.failed \/ s \in {"failed", "cut"},
                   stopped |-> seen.stopped \/ s = "skipped"]
  /\ todo' = todo \ {n}
  /\ UNCHANGED <<node, job, disk, pc, req, wire, reply, budget>>

(* Mutant: the stop is not looked at before the next node is taken.        *)
TakeQueuedDespiteStop(n) ==
  /\ At("pick", n)
  /\ job.runs[n].state = "queued"
  /\ LET j == SetRun(n, [job.runs[n] EXCEPT !.state = "checking"])
     IN job' = j /\ Persist(j)
  /\ pc' = "probe"
  /\ UNCHANGED <<node, todo, seen, req, wire, reply>>

(* Mutant: a recovered queue tries failed runs once more.                  *)
TakeQueuedOrFailed(n) ==
  /\ At("pick", n)
  /\ ~StopAfter
  /\ job.runs[n].state \in {"queued", "failed"}
  /\ LET j == SetRun(n, [job.runs[n] EXCEPT !.state = "checking"])
     IN job' = j /\ Persist(j)
  /\ pc' = "probe"
  /\ UNCHANGED <<node, todo, seen, req, wire, reply>>

TakeQueued(n) ==
  /\ At("pick", n)
  /\ ~StopAfter
  /\ job.runs[n].state = "queued"
  /\ LET j == SetRun(n, [job.runs[n] EXCEPT !.state = "checking"])
     IN job' = j /\ Persist(j)
  /\ pc' = "probe"
  /\ UNCHANGED <<node, todo, seen, req, wire, reply>>

(* A run recovered as "running" is waited for, if its node job is known.   *)
TakeRunning(n) ==
  /\ At("pick", n)
  /\ job.runs[n].state = "running"
  /\ \/ /\ job.runs[n].id # 0
        /\ pc' = "wait" /\ Persist(job)
        /\ UNCHANGED <<job, todo, seen>>
     \/ /\ job.runs[n].id = 0
        /\ FinishRun(n, "failed")
  /\ UNCHANGED <<node, req, wire, reply>>

TakeChecking(n) ==
  /\ At("pick", n)
  /\ job.runs[n].state = "checking"
  /\ pc' = "reconcile" /\ Persist(job)
  /\ UNCHANGED <<node, job, todo, seen, req, wire, reply>>

(* Mutant: the run gets the state of the error that ended it.              *)
ProbeFailsCanceled(n) ==
  /\ At("probe", n)
  /\ ~node[n].reachable \/ n \in DisabledNodes
  /\ FinishRun(n, "canceled")
  /\ UNCHANGED <<node, req, wire, reply>>

(* startNodeRun up to the POST: a node that is offline or does not allow   *)
(* manual compaction fails its run; otherwise the baseline is recorded.    *)
ProbeFails(n) ==
  /\ At("probe", n)
  /\ ~node[n].reachable \/ n \in DisabledNodes
  /\ FinishRun(n, "failed")
  /\ UNCHANGED <<node, req, wire, reply>>

ProbeBaseline(n) ==
  /\ At("probe", n)
  /\ node[n].reachable /\ n \notin DisabledNodes
  /\ LET j == SetRun(n, [job.runs[n] EXCEPT !.prev = node[n].id])
     IN job' = j /\ Persist(j)
  /\ pc' = "post"
  /\ UNCHANGED <<node, todo, seen, req, wire, reply>>

SendStart(n) ==
  /\ At("post", n)
  /\ wire' = wire \cup {n}
  /\ pc' = "posting" /\ reply' = NoReply
  /\ UNCHANGED <<node, job, disk, todo, seen, req, budget>>

ReceiveAccepted(n) ==
  /\ At("posting", n)
  /\ reply.code = "accepted"
  /\ WaitFor(n, reply.id)
  /\ reply' = NoReply
  /\ UNCHANGED <<node, req, wire>>

(* An HTTP error other than 409 is taken as proof that nothing started,    *)
(* whoever sent it: the node, or a proxy in front of it that has passed    *)
(* the POST on.                                                            *)
ReceiveRefused(n) ==
  /\ At("posting", n)
  /\ reply.code = "refused" \/ GatewayErrors
  /\ FinishRun(n, "failed")
  /\ reply' = NoReply
  /\ UNCHANGED <<node, req, wire>>

(* 409, a timeout, a lost or unreadable answer: what the node did with the *)
(* POST is unknown. The client has closed the request, so unless           *)
(* LateDelivery an undelivered POST is gone.                               *)
StartAmbiguous(n) ==
  /\ At("posting", n)
  /\ pc' = "resolve" /\ reply' = NoReply
  /\ wire' = IF LateDelivery THEN wire ELSE wire \ {n}
  /\ UNCHANGED <<node, job, disk, todo, seen, req, budget>>

(* resolveStart: adopt a newer or a running node job, else give the run up. *)
Resolve(n) ==
  /\ At("resolve", n)
  /\ node[n].reachable
  /\ IF node[n].id > job.runs[n].prev \/ node[n].state = "running"
       THEN WaitFor(n, node[n].id)
       ELSE FinishRun(n, "failed")
  /\ UNCHANGED <<node, req, wire, reply>>

(* Mutant: every interrupted run is queued again.                          *)
ReconcileRequeueAlways(n) ==
  /\ At("reconcile", n)
  /\ node[n].reachable
  /\ LET j == SetRun(n, [job.runs[n] EXCEPT !.state = "queued"])
     IN job' = j /\ Persist(j)
  /\ pc' = "pick"
  /\ UNCHANGED <<node, todo, seen, req, wire, reply>>

(* reconcileCheckingNode: a run interrupted between "checking" and the     *)
(* answer to its POST. Without a baseline, or with the baseline still the  *)
(* node's last job and not running, nothing was started: queue it again.   *)
ReconcileRequeue(n) ==
  /\ At("reconcile", n)
  /\ node[n].reachable
  /\ \/ job.runs[n].prev = NoBaseline
     \/ node[n].id = job.runs[n].prev /\ node[n].state # "running"
  /\ LET j == SetRun(n, [job.runs[n] EXCEPT !.state = "queued"])
     IN job' = j /\ Persist(j)
  /\ pc' = "pick"
  /\ UNCHANGED <<node, todo, seen, req, wire, reply>>

(* Mutant: an off-by-one adopts the job that was there before the POST.    *)
ReconcileAdoptSame(n) ==
  /\ At("reconcile", n)
  /\ node[n].reachable
  /\ job.runs[n].prev # NoBaseline /\ node[n].id >= job.runs[n].prev
  /\ WaitFor(n, node[n].id)
  /\ UNCHANGED <<node, req, wire, reply>>

ReconcileAdopt(n) ==
  /\ At("reconcile", n)
  /\ node[n].reachable
  /\ job.runs[n].prev # NoBaseline /\ node[n].id > job.runs[n].prev
  /\ WaitFor(n, node[n].id)
  /\ UNCHANGED <<node, req, wire, reply>>

ReconcileForeign(n) ==
  /\ At("reconcile", n)
  /\ node[n].reachable
  /\ node[n].id <= job.runs[n].prev
  /\ node[n].id < job.runs[n].prev \/ node[n].state = "running"
  /\ IF node[n].state = "running"
       THEN pc' = "foreign" /\ UNCHANGED <<job, disk, todo, seen, budget>>
       ELSE FinishRun(n, "failed")
  /\ UNCHANGED <<node, req, wire, reply>>

(* waitNodeJob, as reconcileCheckingNode calls it: only the end matters.   *)
AwaitForeign(n) ==
  /\ At("foreign", n)
  /\ Available(n)
  /\ FinishRun(n, "failed")
  /\ UNCHANGED <<node, req, wire, reply>>

(* Mutant: a node that cannot be reached has failed its run.               *)
AwaitJobOrOutage(n) ==
  /\ At("wait", n)
  /\ node[n].reachable => node[n].state # "running"
  /\ FinishRun(n, IF node[n].reachable /\ node[n].id = job.runs[n].id
                    THEN node[n].state ELSE "failed")
  /\ UNCHANGED <<node, req, wire, reply>>

(* Mutant: only the expected job ends the wait.                            *)
AwaitJobExactly(n) ==
  /\ At("wait", n)
  /\ Available(n)
  /\ node[n].id = job.runs[n].id
  /\ FinishRun(n, node[n].state)
  /\ UNCHANGED <<node, req, wire, reply>>

(* finishRunningNode: waitNodeJob returns when a poll succeeds and finds   *)
(* no job running; the result counts only if it is the expected job's.     *)
AwaitJob(n) ==
  /\ At("wait", n)
  /\ Available(n)
  /\ FinishRun(n, IF node[n].id = job.runs[n].id THEN node[n].state ELSE "failed")
  /\ UNCHANGED <<node, req, wire, reply>>

(* The loop is over, or a stopped queue breaks out of it at a node that is *)
(* not open. The verdict is saved, if it can be, and the disk released.    *)
FinishQueue ==
  /\ pc = "pick"
  /\ todo = {} \/ \E n \in Nodes : StopAfter /\ IsHead(n) /\ ~Open(job, n)
  /\ LET stopped == seen.stopped \/ StopAfter
         skipped == [n \in Nodes |->
                       IF job.runs[n].state = "queued"
                         THEN [job.runs[n] EXCEPT !.state = "skipped"]
                         ELSE job.runs[n]]
         j == IF stopped THEN [state |-> "stopped", runs |-> skipped]
              ELSE [job EXCEPT !.state = IF seen.failed THEN "failed"
                                                        ELSE "succeeded"]
     IN job' = j /\ Persist(j)
  /\ pc' = "free" /\ todo' = {} /\ seen' = NothingSeen
  /\ UNCHANGED <<node, req, wire, reply>>

-----------------------------------------------------------------------------
(* The process ends (killed, or shut down: the runner returns without      *)
(* saving anything) and is started again by its supervisor.                *)

Crash ==
  /\ pc # "down"
  /\ pc' = "down"
  /\ job' = disk
  /\ todo' = {} /\ seen' = NothingSeen /\ reply' = NoReply
  /\ req' = [r \in Requesters |-> NoRequest]
  /\ Spend({"crashes"})
  /\ UNCHANGED <<node, disk, wire>>

(* Mutant: interrupted runs of an active job are queued again.             *)
RepairedByQueueing(j) ==
  IF Active(j)
    THEN [j EXCEPT !.runs = [n \in Nodes |->
            IF Open(j, n) THEN [j.runs[n] EXCEPT !.state = "queued"]
                          ELSE j.runs[n]]]
    ELSE j

(* recoverableJobs: a legacy shutdown marker of an active job becomes a    *)
(* run to wait for.                                                        *)
Repaired(j) ==
  IF Active(j)
    THEN [j EXCEPT !.runs = [n \in Nodes |->
            IF j.runs[n].state = "cut" /\ j.runs[n].id # 0
              THEN [j.runs[n] EXCEPT !.state = "running"] ELSE j.runs[n]]]
    ELSE j

(* newOrchestrator. A repair must be saved before anything runs. Between   *)
(* the end of a process and the next start, undelivered POSTs are lost     *)
(* unless LateDelivery.                                                    *)
Restart ==
  /\ pc = "down"
  /\ job' = Repaired(disk) /\ disk' = Repaired(disk)
  /\ pc' = IF Active(disk) THEN "pick" ELSE "free"
  /\ todo' = IF Active(disk) THEN Members(disk) ELSE {}
  /\ wire' = IF LateDelivery THEN wire ELSE {}
  /\ UNCHANGED <<node, seen, req, reply, budget>>

RestartUnsaved ==
  /\ pc = "down"
  /\ Repaired(disk) # disk
  /\ Spend({"failedSaves"})
  /\ UNCHANGED <<node, job, disk, pc, todo, seen, req, wire, reply>>

-----------------------------------------------------------------------------
(* The storage nodes and the network, modelled from what the code relies   *)
(* on: job numbers that grow until the node restarts, one manual job at a  *)
(* time, 202 with the new job, 409 while one is running.                   *)

HandleStart(n) ==
  /\ n \in wire /\ node[n].reachable
  /\ wire' = wire \ {n}
  /\ LET answer(code, id) ==
           reply' = IF At("posting", n) THEN [code |-> code, id |-> id] ELSE reply
     IN \/ /\ n \in RefusingNodes
           /\ answer("refused", 0) /\ UNCHANGED node
        \/ /\ n \notin RefusingNodes /\ node[n].state = "running"
           /\ answer("conflict", 0) /\ UNCHANGED node
        \/ /\ n \notin RefusingNodes /\ node[n].state # "running"
           /\ answer("accepted", node[n].id + 1)
           /\ node' = [node EXCEPT ![n] =
                         [@ EXCEPT !.id = node[n].id + 1, !.state = "running", !.own = TRUE]]
  /\ UNCHANGED <<job, disk, pc, todo, seen, req, budget>>

NodeFinishes(n) ==
  /\ node[n].state = "running"
  /\ \E result \in {"succeeded", "failed"} :
       node' = [node EXCEPT ![n] = [@ EXCEPT !.state = result, !.own = FALSE]]
  /\ UNCHANGED <<job, disk, pc, todo, seen, req, wire, reply, budget>>

(* Somebody else starts a compaction on the node.                          *)
ForeignStart(n) ==
  /\ node[n].state # "running"
  /\ node' = [node EXCEPT ![n] = [@ EXCEPT !.id = node[n].id + 1, !.state = "running"]]
  /\ Spend({"foreignStarts"})
  /\ UNCHANGED <<job, disk, pc, todo, seen, req, wire, reply>>

(* A restarted node has forgotten its jobs and counts them from 0 again.   *)
NodeRestarts(n) ==
  /\ node' = [node EXCEPT ![n] = [@ EXCEPT !.id = 0, !.state = "idle", !.own = FALSE]]
  /\ Spend({"nodeRestarts"})
  /\ UNCHANGED <<job, disk, pc, todo, seen, req, wire, reply>>

Disconnect(n) ==
  /\ node[n].reachable
  /\ node' = [node EXCEPT ![n] = [@ EXCEPT !.reachable = FALSE]]
  /\ Spend({"outages"})
  /\ UNCHANGED <<job, disk, pc, todo, seen, req, wire, reply>>

Reconnect(n) ==
  /\ ~node[n].reachable
  /\ node' = [node EXCEPT ![n] = [@ EXCEPT !.reachable = TRUE]]
  /\ UNCHANGED <<job, disk, pc, todo, seen, req, wire, reply, budget>>

-----------------------------------------------------------------------------
(* The first start finds an empty database, or one whose job an older      *)
(* version left while it was waiting for its first node's compaction.      *)
LegacyJob(n, state, id) ==
  [NewJob(Nodes) EXCEPT !.runs[n] =
     [state |-> state, prev |-> NoBaseline, id |-> id]]

IdleNode == [id |-> 0, state |-> "idle", own |-> FALSE, reachable |-> TRUE]

Init ==
  /\ \/ /\ disk = NoJob
        /\ node = [n \in Nodes |-> IdleNode]
     \/ /\ LegacyDatabase
        /\ \E n \in Nodes, state \in {"cut", "running"}, id \in {0, 1} :
             /\ \A m \in Nodes : n <= m
             /\ disk = LegacyJob(n, state, id)
             /\ node = [m \in Nodes |->
                          IF m = n THEN [IdleNode EXCEPT !.id = 1, !.own = TRUE,
                                                         !.state = "running"]
                                   ELSE IdleNode]
  /\ job = disk
  /\ pc = "down" /\ todo = {} /\ seen = NothingSeen
  /\ req = [r \in Requesters |-> NoRequest]
  /\ wire = {} /\ reply = NoReply
  /\ budget \in Budgets

RequestNext(r) ==
  \/ \E S \in SUBSET Nodes : RequestStart(r, S)
  \/ \E n \in Nodes : PreflightVerify(r, n) \/ PreflightReject(r, n)
  \/ AdmitConflict(r) \/ Admit(r) \/ AdmitUnsaved(r)

RunnerNext(n) ==
  \/ SkipSettled(n) \/ TakeQueued(n) \/ TakeRunning(n) \/ TakeChecking(n)
  \/ ProbeFails(n) \/ ProbeBaseline(n)
  \/ SendStart(n) \/ ReceiveAccepted(n) \/ ReceiveRefused(n)
  \/ StartAmbiguous(n) \/ Resolve(n)
  \/ ReconcileRequeue(n) \/ ReconcileAdopt(n) \/ ReconcileForeign(n)
  \/ AwaitForeign(n) \/ AwaitJob(n)

NodeNext(n) ==
  \/ HandleStart(n) \/ NodeFinishes(n) \/ ForeignStart(n) \/ NodeRestarts(n)
  \/ Disconnect(n) \/ Reconnect(n)

Next ==
  \/ \E r \in Requesters : RequestNext(r)
  \/ \E n \in Nodes : RunnerNext(n) \/ NodeNext(n)
  \/ Stop \/ FinishQueue \/ SaveElsewhere \/ Crash \/ Restart \/ RestartUnsaved

Spec == Init /\ [][Next]_vars

(* The goroutine keeps running; the supervisor restarts the process; a     *)
(* compaction ends; an unreachable node comes back.                        *)
Fairness ==
  /\ \A n \in Nodes : /\ WF_vars(RunnerNext(n))
                      /\ WF_vars(NodeFinishes(n))
                      /\ WF_vars(Reconnect(n))
  /\ WF_vars(FinishQueue) /\ WF_vars(Restart)

FairSpec == Spec /\ Fairness

-----------------------------------------------------------------------------
(* Properties.                                                             *)

(* Two nodes of the disk never run compactions this orchestrator started   *)
(* at the same time: the promise the whole program exists for, through     *)
(* crashes, unreachable nodes, lost answers and compactions that others    *)
(* start (orchestrator.go 720-1082).                                       *)
Exclusion == \A m, n \in Nodes : node[m].own /\ node[n].own => m = n

(* The verdict on a finished job agrees with its runs, however often the   *)
(* process that collected it was restarted: "succeeded" means every run    *)
(* succeeded, "failed" that one did not while all were tried, and a        *)
(* finished job keeps no run queued (orchestrator.go 819-849).             *)
VerdictMatchesRuns ==
  LET is(states) == {n \in Members(job) : job.runs[n].state \in states} IN
    /\ job.state = "succeeded" => Members(job) = is({"succeeded"})
    /\ job.state = "failed" =>
         /\ Members(job) # is({"succeeded"})
         /\ Members(job) = is({"succeeded", "failed", "cut"})
    /\ job.state = "stopped" => is({"queued"}) = {}

(* What the database says of a settled run stays so until the next job,    *)
(* whatever the process forgets or fails to save later (store.go 368-409,  *)
(* orchestrator.go 751-761, 1084-1117).                                    *)
CommittedResultsStay ==
  [][\A n \in Nodes :
       disk.runs[n].state \in {"succeeded", "failed", "skipped"}
         => disk'.runs[n] = disk.runs[n] \/ (pc = "free" /\ pc' = "pick")]_vars

(* README.md 167-170: a queue picked up after a restart "waits for the end *)
(* of exactly this compaction" before it goes on, so a queue that released *)
(* its disk has no run still open.                                         *)
ReleasedQueueHasNoOpenRun ==
  pc = "free" => \A n \in Nodes : ~Open(job, n)

(* Whatever fails, a queue that was admitted comes to an end and gives its *)
(* disk back (orchestrator.go 819-849, 1010-1082).                         *)
QueueDrains == Active(job) ~> pc = "free"

=============================================================================

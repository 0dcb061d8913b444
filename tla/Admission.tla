----------------------------- MODULE Admission -----------------------------
(***************************************************************************)
(* Which nodes may be in a job: start requests for several disk groups     *)
(* (orchestrator.go, startGroupWithTrigger and the functions it asks),     *)
(* updates of the settings that move, disable or remove nodes meanwhile    *)
(* (updateSettings), and the restart that must find a node in the settings *)
(* for every run it resumes (recoverableJobs).                             *)
(*                                                                         *)
(* How a job is worked off is DiskQueue's subject. Here an active job may  *)
(* end at any time, and what the nodes report to a request is left open.   *)
(***************************************************************************)
EXTENDS Naturals

CONSTANTS
  Nodes, Groups,
  JobIds,      \* numbers for jobs; the code draws them at random
  Requesters,  \* goroutines that may ask for a start
  Layouts,     \* the settings an update may put in place
  Budgets      \* bounds: how often each of the events below may happen

BudgetKinds == {"updates", "crashes", "failedSaves"}
NoGroup == "removed"
NoJob == 0

(* The settings: the group of each node, NoGroup if it is not listed. A    *)
(* group that was removed is one without nodes: both refuse a start.       *)
Settings == [home : [Nodes -> Groups \cup {NoGroup}], enabled : SUBSET Nodes]

ASSUME GroupsAssumption == NoGroup \notin Groups
ASSUME JobIdsAssumption == JobIds \subseteq Nat \ {NoJob}
ASSUME LayoutsAssumption == Layouts \subseteq Settings
ASSUME BudgetAssumption == Budgets \subseteq [BudgetKinds -> Nat]

VARIABLES
  up,        \* there is a process
  settings,  \* o.state.Settings
  jobs,      \* o.state.Jobs
  running,   \* o.running: the job of each group
  saved,     \* settings and jobs as last committed to SQLite
  req,       \* start requests between their first check and their admission
  budget

vars == <<up, settings, jobs, running, saved, req, budget>>

JobStates == {"unused", "running", "stopping", "done"}
Jobs == [group : Groups \cup {NoGroup}, state : JobStates, members : SUBSET Nodes]
Requests == [phase : {"none", "preflight", "verified"},
             group : Groups \cup {NoGroup}, wanted : SUBSET Nodes]

NoRequest == [phase |-> "none", group |-> NoGroup, wanted |-> {}]
Unused == [group |-> NoGroup, state |-> "unused", members |-> {}]

TypeOK ==
  /\ up \in BOOLEAN
  /\ settings \in Settings
  /\ jobs \in [JobIds -> Jobs]
  /\ running \in [Groups -> JobIds \cup {NoJob}]
  /\ saved \in [settings : Settings, jobs : [JobIds -> Jobs]]
  /\ req \in [Requesters -> Requests]
  /\ budget \in [BudgetKinds -> Nat]

-----------------------------------------------------------------------------
Active(job) == job.state \in {"running", "stopping"}

GroupNodes(g) == {n \in settings.enabled : settings.home[n] = g}

(* ensureNodesAvailableLocked: the group has a job, or a wanted node is    *)
(* reserved by the job of any group.                                       *)
Conflict(g, wanted) ==
  \/ running[g] # NoJob
  \/ \E h \in Groups : running[h] # NoJob /\ jobs[running[h]].members \cap wanted # {}

Spend(kind) ==
  budget[kind] > 0 /\ budget' = [budget EXCEPT ![kind] = budget[kind] - 1]

(* Save writes settings and jobs in one transaction; it either commits all *)
(* that changed since the last commit, or nothing.                         *)
Commit == saved' = [settings |-> settings', jobs |-> jobs'] /\ UNCHANGED budget
SaveFails == Spend("failedSaves") /\ UNCHANGED saved

-----------------------------------------------------------------------------
(* The first look, under the read lock: the enabled nodes of the group as  *)
(* the settings have them now, all or one of them, and no conflict.        *)
RequestStart(r, g, wanted) ==
  /\ up /\ req[r] = NoRequest
  /\ wanted # {} /\ wanted \subseteq GroupNodes(g)
  /\ wanted = GroupNodes(g) \/ \E n \in Nodes : wanted = {n}
  /\ ~Conflict(g, wanted)
  /\ req' = [req EXCEPT ![r] = [phase |-> "preflight", group |-> g, wanted |-> wanted]]
  /\ UNCHANGED <<up, settings, jobs, running, saved, budget>>

(* The preflight, without the lock: every node of the group reports that   *)
(* it is idle ...                                                          *)
PreflightVerify(r) ==
  /\ req[r].phase = "preflight"
  /\ req' = [req EXCEPT ![r].phase = "verified"]
  /\ UNCHANGED <<up, settings, jobs, running, saved, budget>>

(* Mutant: a rejected request is left standing.                            *)
PreflightRejectKept(r) ==
  /\ req[r].phase = "preflight"
  /\ req' = [req EXCEPT ![r].phase = "rejected"]
  /\ UNCHANGED <<up, settings, jobs, running, saved, budget>>

(* ... or one is offline or compacting.                                    *)
PreflightReject(r) ==
  /\ req[r].phase = "preflight"
  /\ req' = [req EXCEPT ![r] = NoRequest]
  /\ UNCHANGED <<up, settings, jobs, running, saved, budget>>

(* Mutant: the second check only asks whether the group has a job.         *)
AdmissibleInGroup(r) ==
  req[r].phase = "verified" /\ running[req[r].group] = NoJob

(* The second check, under the lock. It asks for conflicts again, but not  *)
(* what the settings say of the group and its nodes by now.                *)
Admissible(r) ==
  req[r].phase = "verified" /\ ~Conflict(req[r].group, req[r].wanted)

AdmitConflict(r) ==
  /\ req[r].phase = "verified" /\ Conflict(req[r].group, req[r].wanted)
  /\ req' = [req EXCEPT ![r] = NoRequest]
  /\ UNCHANGED <<up, settings, jobs, running, saved, budget>>

Admit(r, j) ==
  /\ Admissible(r)
  /\ jobs[j] = Unused
  /\ \A i \in JobIds : i < j => jobs[i] # Unused
  /\ jobs' = [jobs EXCEPT ![j] = [group |-> req[r].group, state |-> "running",
                                  members |-> req[r].wanted]]
  /\ running' = [running EXCEPT ![req[r].group] = j]
  /\ req' = [req EXCEPT ![r] = NoRequest]
  /\ UNCHANGED <<up, settings>>
  /\ Commit

(* Mutant: only the job list is taken back.                                *)
AdmitUnsavedReserved(r) ==
  /\ Admissible(r)
  /\ \E j \in JobIds : /\ jobs[j] = Unused
                       /\ running' = [running EXCEPT ![req[r].group] = j]
  /\ req' = [req EXCEPT ![r] = NoRequest]
  /\ UNCHANGED <<up, settings, jobs>>
  /\ SaveFails

(* The job cannot be saved: job list and reservation are taken back.       *)
AdmitUnsaved(r) ==
  /\ Admissible(r)
  /\ running' = [running EXCEPT ![req[r].group] = NoJob]
  /\ req' = [req EXCEPT ![r] = NoRequest]
  /\ UNCHANGED <<up, settings, jobs>>
  /\ SaveFails

-----------------------------------------------------------------------------
(* Mutant: a stopping job no longer holds its nodes in the settings.       *)
UpdateWhileStopping(layout) ==
  /\ up
  /\ \A g \in Groups : running[g] # NoJob /\ jobs[running[g]].state = "running" =>
       \A n \in jobs[running[g]].members : layout.home[n] # NoGroup
  /\ Spend("updates")
  /\ settings' = layout
  /\ saved' = [settings |-> layout, jobs |-> jobs]
  /\ UNCHANGED <<up, jobs, running, req>>

(* updateSettings: refused if a job still needs a node that is gone. An    *)
(* update that cannot be saved changes nothing.                            *)
UpdateSettings(layout) ==
  /\ up
  /\ \A g \in Groups : running[g] # NoJob =>
       \A n \in jobs[running[g]].members : layout.home[n] # NoGroup
  /\ Spend("updates")
  /\ settings' = layout
  /\ saved' = [settings |-> layout, jobs |-> jobs]
  /\ UNCHANGED <<up, jobs, running, req>>

(* A stop that cannot be saved changes nothing.                            *)
StopJob(g) ==
  /\ up /\ running[g] # NoJob
  /\ jobs' = [jobs EXCEPT ![running[g]].state = "stopping"]
  /\ UNCHANGED <<up, settings, running, req>>
  /\ Commit

(* The verdict of runJob. That it could not be saved is only logged.       *)
FinishJob(j) ==
  /\ up /\ Active(jobs[j])
  /\ jobs' = [jobs EXCEPT ![j].state = "done"]
  /\ running' = [running EXCEPT ![jobs[j].group] = NoJob]
  /\ UNCHANGED <<up, settings, req>>
  /\ Commit \/ SaveFails

-----------------------------------------------------------------------------
(* The process ends in any way; what it had not saved is forgotten.        *)
Crash ==
  /\ up
  /\ up' = FALSE
  /\ Spend("crashes")
  /\ settings' = saved.settings /\ jobs' = saved.jobs
  /\ running' = [g \in Groups |-> NoJob]
  /\ req' = [r \in Requesters |-> NoRequest]
  /\ UNCHANGED saved

(* Nodes of active jobs that the settings do not list.                     *)
Orphans(s) ==
  {n \in Nodes : /\ s.settings.home[n] = NoGroup
                 /\ \E j \in JobIds : Active(s.jobs[j]) /\ n \in s.jobs[j].members}

(* recoverableJobs: one active job per group, and a node for every run.    *)
Recoverable(s) ==
  /\ Orphans(s) = {}
  /\ \A i, j \in JobIds :
       (/\ Active(s.jobs[i]) /\ Active(s.jobs[j])
        /\ s.jobs[i].group = s.jobs[j].group) => i = j

ActiveJobs(g) == {j \in JobIds : Active(jobs[j]) /\ jobs[j].group = g}

(* newOrchestrator: it exits at once if the jobs cannot be recovered.      *)
Restart ==
  /\ ~up /\ Recoverable(saved)
  /\ up' = TRUE
  /\ running' = [g \in Groups |-> IF ActiveJobs(g) = {} THEN NoJob
                                  ELSE CHOOSE j \in ActiveJobs(g) : TRUE]
  /\ UNCHANGED <<settings, jobs, saved, req, budget>>

-----------------------------------------------------------------------------
Init ==
  /\ up = TRUE
  /\ settings \in {s \in Layouts : \A n \in Nodes : s.home[n] # NoGroup}
  /\ jobs = [j \in JobIds |-> Unused]
  /\ running = [g \in Groups |-> NoJob]
  /\ saved = [settings |-> settings, jobs |-> jobs]
  /\ req = [r \in Requesters |-> NoRequest]
  /\ budget \in Budgets

RequestNext(r) ==
  \/ \E g \in Groups, wanted \in SUBSET Nodes : RequestStart(r, g, wanted)
  \/ PreflightVerify(r) \/ PreflightReject(r)
  \/ AdmitConflict(r) \/ AdmitUnsaved(r)
  \/ \E j \in JobIds : Admit(r, j)

Next ==
  \/ \E r \in Requesters : RequestNext(r)
  \/ \E layout \in Layouts : UpdateSettings(layout)
  \/ \E g \in Groups : StopJob(g)
  \/ \E j \in JobIds : FinishJob(j)
  \/ Crash \/ Restart

Spec == Init /\ [][Next]_vars

-----------------------------------------------------------------------------
(* Properties.                                                             *)

(* A node is in one active job at most, also in what a restart would find, *)
(* however nodes are moved between groups while jobs and requests are      *)
(* under way (orchestrator.go 602-606, 651-671).                           *)
NodeInOneJob ==
  \A s \in {jobs, saved.jobs} : \A i, j \in JobIds :
    Active(s[i]) /\ Active(s[j]) /\ i # j => s[i].members \cap s[j].members = {}

(* The map of running jobs, which all checks read, says exactly which jobs *)
(* are active, so a group has one at most, through failed saves and        *)
(* restarts (orchestrator.go 106-128, 619-644, 845).                       *)
RunningMatchesJobs ==
  up => \A j \in JobIds, g \in Groups :
          running[g] = j <=> Active(jobs[j]) /\ jobs[j].group = g

(* Only an admission can leave an active job with a node that the settings *)
(* do not list: no update does, and no crash or failed save brings such a  *)
(* state back (orchestrator.go 478-508).                                   *)
OnlyAdmissionOrphans ==
  [][Orphans(saved') \subseteq
       Orphans(saved) \cup {n \in Nodes : \E j \in JobIds :
                              jobs[j] = Unused /\ n \in jobs'[j].members}]_vars

(* README.md 167: after a restart, an unfinished queue "is restored from   *)
(* SQLite". What is stored never keeps the process from starting           *)
(* (orchestrator.go 106-115).                                              *)
AlwaysRecoverable == Recoverable(saved)

=============================================================================

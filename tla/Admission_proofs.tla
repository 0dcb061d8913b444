-------------------------- MODULE Admission_proofs --------------------------
(***************************************************************************)
(* Theorems about Admission for any number of nodes, groups, jobs,         *)
(* requests and budgeted events: types, that no node is in two jobs, that  *)
(* the reservations match the jobs, and that only an admission can leave a *)
(* job in the database whose node the settings do not list. What the page  *)
(* offers (WebOffers) follows for every state of them and of its cache.    *)
(***************************************************************************)
EXTENDS WebOffers, WellFoundedInduction, TLAPS

USE GroupsAssumption, JobIdsAssumption, LayoutsAssumption, BudgetAssumption

(* A list of jobs in which every active job belongs to a group and no node *)
(* is in two active jobs.                                                  *)
Disjoint(s) ==
  /\ \A j \in JobIds : Active(s[j]) => s[j].group \in Groups
  /\ \A i, j \in JobIds :
       Active(s[i]) /\ Active(s[j]) /\ i # j => s[i].members \cap s[j].members = {}

(* A request under way is for a group.                                     *)
RequestInv == \A r \in Requesters : req[r].phase # "none" => req[r].group \in Groups

(* The database is never behind on the settings, and behind on jobs only   *)
(* where one has ended. Without a process there is no difference and there *)
(* are no requests.                                                        *)
StoreInv ==
  /\ settings = saved.settings
  /\ \A j \in JobIds : Active(jobs[j]) =>
       Active(saved.jobs[j]) /\ saved.jobs[j].members = jobs[j].members
  /\ ~up => jobs = saved.jobs /\ \A r \in Requesters : req[r] = NoRequest

IInv ==
  /\ TypeOK
  /\ RunningMatchesJobs
  /\ Disjoint(jobs) /\ Disjoint(saved.jobs)
  /\ RequestInv
  /\ StoreInv

(* Spending from a budget leaves a budget.                                 *)
LEMMA SpendType ==
  ASSUME TypeOK, NEW kind \in BudgetKinds, Spend(kind)
  PROVE  budget' \in [BudgetKinds -> Nat]
  BY DEF Spend, TypeOK

(* What a save leaves in the database: the new state or the old one.       *)
LEMMA SaveType ==
  ASSUME TypeOK, Commit \/ SaveFails,
         settings' \in Settings, jobs' \in [JobIds -> Jobs]
  PROVE  /\ saved' \in [settings : Settings, jobs : [JobIds -> Jobs]]
         /\ budget' \in [BudgetKinds -> Nat]
<1>1. CASE Commit
  BY <1>1 DEF Commit, TypeOK
<1>2. CASE SaveFails
  <2>1. budget' \in [BudgetKinds -> Nat]
    BY <1>2, SpendType DEF SaveFails, BudgetKinds
  <2> QED BY <1>2, <2>1 DEF SaveFails, TypeOK
<1> QED BY <1>1, <1>2

(* Setting the state of one job leaves its group, its nodes and all other  *)
(* jobs as they are.                                                       *)
LEMMA SetStateFacts ==
  ASSUME TypeOK, NEW i \in JobIds, NEW st \in JobStates,
         jobs' = [jobs EXCEPT ![i].state = st]
  PROVE  /\ jobs' \in [JobIds -> Jobs]
         /\ jobs'[i].state = st
         /\ jobs'[i].group = jobs[i].group /\ jobs'[i].members = jobs[i].members
         /\ \A j \in JobIds \ {i} : jobs'[j] = jobs[j]
<1>1. jobs \in [JobIds -> Jobs] /\ jobs[i] \in Jobs
  BY DEF TypeOK
<1> DEFINE job == [jobs[i] EXCEPT !.state = st]
<1>2. /\ job \in Jobs /\ job.state = st
      /\ job.group = jobs[i].group /\ job.members = jobs[i].members
  BY <1>1 DEF Jobs
<1>3. jobs' = [jobs EXCEPT ![i] = job]
  OBVIOUS
<1> HIDE DEF job
<1> QED BY <1>1, <1>2, <1>3

(* Every step keeps the types.                                             *)
LEMMA TypeStep ==
  ASSUME TypeOK, [Next]_vars
  PROVE  TypeOK'
<1>1. ASSUME NEW r \in Requesters, NEW g \in Groups, NEW wanted \in SUBSET Nodes,
             RequestStart(r, g, wanted)
      PROVE  TypeOK'
  BY <1>1 DEF RequestStart, TypeOK, Requests
<1>2. ASSUME NEW r \in Requesters, PreflightVerify(r)
      PROVE  TypeOK'
  BY <1>2 DEF PreflightVerify, TypeOK, Requests
<1>3. ASSUME NEW r \in Requesters, PreflightReject(r) \/ AdmitConflict(r)
      PROVE  TypeOK'
  BY <1>3 DEF PreflightReject, AdmitConflict, TypeOK, Requests, NoRequest
<1>4. ASSUME NEW r \in Requesters, AdmitUnsaved(r)
      PROVE  TypeOK'
  <2>1. /\ saved' \in [settings : Settings, jobs : [JobIds -> Jobs]]
        /\ budget' \in [BudgetKinds -> Nat]
    BY <1>4, SaveType DEF AdmitUnsaved, TypeOK
  <2> QED BY <1>4, <2>1 DEF AdmitUnsaved, TypeOK, Requests, NoRequest
<1>5. ASSUME NEW r \in Requesters, NEW j \in JobIds, Admit(r, j)
      PROVE  TypeOK'
  <2>1. jobs' \in [JobIds -> Jobs]
    BY <1>5 DEF Admit, TypeOK, Jobs, JobStates, Requests
  <2>2. /\ saved' \in [settings : Settings, jobs : [JobIds -> Jobs]]
        /\ budget' \in [BudgetKinds -> Nat]
    BY <1>5, <2>1, SaveType DEF Admit, TypeOK
  <2> QED BY <1>5, <2>1, <2>2 DEF Admit, TypeOK, Requests, NoRequest
<1>6. ASSUME NEW layout \in Layouts, UpdateSettings(layout)
      PROVE  TypeOK'
  <2>1. budget' \in [BudgetKinds -> Nat]
    BY <1>6, SpendType DEF UpdateSettings, BudgetKinds
  <2> QED BY <1>6, <2>1 DEF UpdateSettings, TypeOK
<1>7. ASSUME NEW g \in Groups, StopJob(g)
      PROVE  TypeOK'
  <2>1. jobs' \in [JobIds -> Jobs]
    BY <1>7, SetStateFacts DEF StopJob, TypeOK, JobStates
  <2>2. /\ saved' \in [settings : Settings, jobs : [JobIds -> Jobs]]
        /\ budget' \in [BudgetKinds -> Nat]
    BY <1>7, <2>1, SaveType DEF StopJob, TypeOK
  <2> QED BY <1>7, <2>1, <2>2 DEF StopJob, TypeOK
<1>8. ASSUME NEW j \in JobIds, FinishJob(j)
      PROVE  TypeOK'
  <2>1. jobs' \in [JobIds -> Jobs]
    BY <1>8, SetStateFacts DEF FinishJob, JobStates
  <2>2. /\ saved' \in [settings : Settings, jobs : [JobIds -> Jobs]]
        /\ budget' \in [BudgetKinds -> Nat]
    BY <1>8, <2>1, SaveType DEF FinishJob, TypeOK
  <2> QED BY <1>8, <2>1, <2>2 DEF FinishJob, TypeOK
<1>9. CASE Crash
  <2>1. budget' \in [BudgetKinds -> Nat]
    BY <1>9, SpendType DEF Crash, BudgetKinds
  <2> QED BY <1>9, <2>1 DEF Crash, TypeOK, Requests, NoRequest
<1>10. CASE Restart
  <2>1. \A g \in Groups : ActiveJobs(g) # {} => (CHOOSE j \in ActiveJobs(g) : TRUE) \in JobIds
    BY DEF ActiveJobs
  <2> QED BY <1>10, <2>1 DEF Restart, TypeOK
<1>11. CASE UNCHANGED vars
  BY <1>11 DEF vars, TypeOK
<1> QED BY <1>1, <1>2, <1>3, <1>4, <1>5, <1>6, <1>7, <1>8, <1>9, <1>10, <1>11
        DEF Next, RequestNext

(* The process starts with a well-typed state in which nothing runs.       *)
LEMMA InitInv == Init => IInv
<1> SUFFICES ASSUME Init PROVE IInv
  OBVIOUS
<1>1. TypeOK
  BY DEF Init, TypeOK, Jobs, JobStates, Unused, Requests, NoRequest
<1>2. \A j \in JobIds : ~Active(jobs[j])
  BY DEF Init, Active, Unused
<1> QED BY <1>1, <1>2 DEF Init, IInv, RunningMatchesJobs, Disjoint, RequestInv,
                          StoreInv, NoRequest

-----------------------------------------------------------------------------
(* A request under way means there is a process.                           *)
LEMMA RequestUp ==
  ASSUME IInv, NEW r \in Requesters, req[r].phase # "none"
  PROVE  up
  BY DEF IInv, StoreInv, NoRequest, TypeOK

(* The steps of a request before its job exists, and after it is refused,  *)
(* change no job and no reservation.                                       *)
LEMMA RequestStep ==
  ASSUME IInv, TypeOK', NEW r \in Requesters,
         \/ \E g \in Groups, wanted \in SUBSET Nodes : RequestStart(r, g, wanted)
         \/ PreflightVerify(r) \/ PreflightReject(r)
         \/ AdmitConflict(r) \/ AdmitUnsaved(r)
  PROVE  IInv'
<1>1. up /\ up' /\ UNCHANGED <<settings, jobs, saved>>
  BY RequestUp DEF RequestStart, PreflightVerify, PreflightReject, AdmitConflict,
                   AdmitUnsaved, Admissible, SaveFails
<1>2. UNCHANGED running
  <2>1. CASE AdmitUnsaved(r)
    <3>1. req[r].group \in Groups
      BY <2>1 DEF AdmitUnsaved, Admissible, IInv, RequestInv
    <3> QED BY <2>1, <3>1 DEF AdmitUnsaved, Admissible, Conflict, IInv, TypeOK
  <2> QED BY <2>1 DEF RequestStart, PreflightVerify, PreflightReject, AdmitConflict
<1>3. RequestInv'
  BY DEF RequestStart, PreflightVerify, PreflightReject, AdmitConflict,
         AdmitUnsaved, NoRequest, IInv, RequestInv, TypeOK, Requests
<1> QED BY <1>1, <1>2, <1>3 DEF IInv, RunningMatchesJobs, Disjoint, Active, StoreInv

(* An admitted job has no node of another active job, and its group had    *)
(* none.                                                                   *)
LEMMA AdmitStep ==
  ASSUME IInv, TypeOK', NEW r \in Requesters, NEW j \in JobIds, Admit(r, j)
  PROVE  IInv'
<1> DEFINE g == req[r].group
<1>1. up /\ up'
  BY RequestUp DEF Admit, Admissible
<1>2. g \in Groups /\ running[g] = NoJob
  BY DEF Admit, Admissible, Conflict, IInv, RequestInv
<1>3. /\ \A i \in JobIds \ {j} : jobs'[i] = jobs[i]
      /\ jobs'[j] = [group |-> g, state |-> "running", members |-> req[r].wanted]
      /\ ~Active(jobs[j])
      /\ saved'.jobs = jobs' /\ saved'.settings = settings'
  BY DEF Admit, Commit, Active, Unused, IInv, TypeOK
<1>4. running' = [running EXCEPT ![g] = j] /\ running \in [Groups -> JobIds \cup {NoJob}]
  BY DEF Admit, IInv, TypeOK
<1>5. \A i \in JobIds \ {j} : Active(jobs[i]) =>
        /\ jobs[i].group \in Groups /\ jobs[i].group # g
        /\ jobs[i].members \cap req[r].wanted = {}
  <2> SUFFICES ASSUME NEW i \in JobIds \ {j}, Active(jobs[i])
               PROVE  /\ jobs[i].group \in Groups /\ jobs[i].group # g
                      /\ jobs[i].members \cap req[r].wanted = {}
    OBVIOUS
  <2>1. jobs[i].group \in Groups /\ running[jobs[i].group] = i /\ i # NoJob
    BY <1>1 DEF IInv, Disjoint, RunningMatchesJobs
  <2> QED BY <2>1, <1>2 DEF Admit, Admissible, Conflict
<1>6. RunningMatchesJobs'
  BY <1>1, <1>2, <1>3, <1>4, <1>5 DEF RunningMatchesJobs, Active, IInv
<1>7. Disjoint(jobs)' /\ Disjoint(saved.jobs)'
  <2>1. Disjoint(jobs')
    BY <1>2, <1>3, <1>5 DEF Disjoint, Active, IInv
  <2> QED BY <2>1, <1>3 DEF Disjoint, Active
<1>8. RequestInv'
  BY DEF Admit, NoRequest, IInv, RequestInv, TypeOK, Requests
<1>9. StoreInv'
  BY <1>1, <1>3 DEF StoreInv
<1> QED BY <1>6, <1>7, <1>8, <1>9 DEF IInv

(* An update of the settings changes no job.                               *)
LEMMA UpdateStep ==
  ASSUME IInv, TypeOK', NEW layout \in Layouts, UpdateSettings(layout)
  PROVE  IInv'
<1>1. /\ up /\ up' /\ UNCHANGED <<jobs, running, req>>
      /\ saved'.jobs = jobs /\ saved'.settings = settings'
  BY DEF UpdateSettings
<1>2. Disjoint(jobs') /\ Disjoint(saved'.jobs)
  BY <1>1 DEF IInv
<1>3. RunningMatchesJobs'
  BY <1>1 DEF IInv, RunningMatchesJobs, Active
<1>4. RequestInv' /\ StoreInv'
  BY <1>1 DEF IInv, RequestInv, StoreInv
<1> QED BY <1>2, <1>3, <1>4 DEF IInv, Disjoint, Active

(* A stopped job is still active and keeps its nodes.                      *)
LEMMA StopStep ==
  ASSUME IInv, TypeOK', NEW g \in Groups, StopJob(g)
  PROVE  IInv'
<1>1. up /\ up' /\ UNCHANGED <<running, req>>
  BY DEF StopJob
<1>2. running[g] \in JobIds /\ Active(jobs[running[g]])
  BY DEF StopJob, IInv, TypeOK, RunningMatchesJobs
<1>3. saved'.jobs = jobs' /\ saved'.settings = settings'
  BY DEF StopJob, Commit
<1>4. \A i \in JobIds : /\ Active(jobs'[i]) <=> Active(jobs[i])
                        /\ jobs'[i].group = jobs[i].group
                        /\ jobs'[i].members = jobs[i].members
  BY <1>2, SetStateFacts DEF StopJob, IInv, Active, JobStates
<1>5. Disjoint(jobs')
  BY <1>4 DEF IInv, Disjoint
<1>6. RunningMatchesJobs'
  BY <1>1, <1>4 DEF IInv, RunningMatchesJobs, Active
<1>7. RequestInv' /\ StoreInv'
  BY <1>1, <1>3 DEF IInv, RequestInv, StoreInv
<1> QED BY <1>3, <1>5, <1>6, <1>7 DEF IInv, Disjoint, Active

(* A job that ends gives up its group and its nodes.                       *)
LEMMA FinishStep ==
  ASSUME IInv, TypeOK', NEW j \in JobIds, FinishJob(j)
  PROVE  IInv'
<1>1. up /\ up' /\ UNCHANGED <<settings, req>> /\ Active(jobs[j])
  BY DEF FinishJob
<1>2. /\ ~Active(jobs'[j])
      /\ \A i \in JobIds \ {j} : jobs'[i] = jobs[i]
  <2>1. jobs' = [jobs EXCEPT ![j].state = "done"] /\ "done" \in JobStates
    BY DEF FinishJob, JobStates
  <2>2. jobs'[j].state = "done" /\ \A i \in JobIds \ {j} : jobs'[i] = jobs[i]
    BY <2>1, SetStateFacts DEF IInv
  <2> QED BY <2>2 DEF Active
<1>3. \/ saved'.jobs = jobs' /\ saved'.settings = settings'
      \/ saved' = saved
  <2>1. Commit \/ SaveFails
    BY DEF FinishJob
  <2>2. CASE Commit
    BY <2>2 DEF Commit
  <2>3. CASE SaveFails
    BY <2>3 DEF SaveFails
  <2> QED BY <2>1, <2>2, <2>3
<1>4. Disjoint(jobs')
  BY <1>2 DEF IInv, Disjoint
<1>5. RunningMatchesJobs'
  <2>1. jobs[j].group \in Groups /\ running[jobs[j].group] = j
    BY <1>1 DEF IInv, Disjoint, RunningMatchesJobs
  <2>2. /\ running' = [running EXCEPT ![jobs[j].group] = NoJob]
        /\ running \in [Groups -> JobIds \cup {NoJob}]
    BY DEF FinishJob, IInv, TypeOK
  <2> QED BY <1>1, <1>2, <2>1, <2>2 DEF IInv, RunningMatchesJobs, Active
<1>6. StoreInv'
  BY <1>1, <1>2, <1>3 DEF IInv, StoreInv, Active
<1>7. RequestInv'
  BY <1>1 DEF IInv, RequestInv
<1> QED BY <1>3, <1>4, <1>5, <1>6, <1>7 DEF IInv, Disjoint, Active

(* The end of the process leaves what the database holds.                  *)
LEMMA CrashStep ==
  ASSUME IInv, TypeOK', Crash
  PROVE  IInv'
<1>1. /\ up' = FALSE /\ saved' = saved
      /\ settings' = saved.settings /\ jobs' = saved.jobs
      /\ \A r \in Requesters : req'[r] = NoRequest
  BY DEF Crash
<1>2. Disjoint(jobs') /\ Disjoint(saved'.jobs)
  BY <1>1 DEF IInv
<1>3. RunningMatchesJobs'
  BY <1>1 DEF RunningMatchesJobs
<1>4. RequestInv' /\ StoreInv'
  BY <1>1 DEF RequestInv, StoreInv, NoRequest, Active
<1> QED BY <1>2, <1>3, <1>4 DEF IInv, Disjoint, Active

(* A restart reserves for each group the one active job it has.            *)
LEMMA RestartStep ==
  ASSUME IInv, TypeOK', Restart
  PROVE  IInv'
<1>1. UNCHANGED <<settings, jobs, saved, req>> /\ jobs = saved.jobs /\ up'
  BY DEF Restart, IInv, StoreInv
<1>2. ASSUME NEW g \in Groups, NEW j \in JobIds
      PROVE  running'[g] = j <=> j \in ActiveJobs(g)
  <2>1. running'[g] = IF ActiveJobs(g) = {} THEN NoJob
                      ELSE CHOOSE i \in ActiveJobs(g) : TRUE
    BY DEF Restart
  <2>2. \A i, k \in ActiveJobs(g) : i = k
    BY <1>1 DEF Restart, Recoverable, ActiveJobs
  <2>3. j # NoJob
    OBVIOUS
  <2> QED BY <2>1, <2>2, <2>3
<1>3. RunningMatchesJobs'
  BY <1>1, <1>2 DEF RunningMatchesJobs, ActiveJobs, Active
<1> QED BY <1>1, <1>3 DEF IInv, Disjoint, Active, RequestInv, StoreInv, Restart

(* IInv is inductive.                                                      *)
LEMMA InvStep ==
  ASSUME IInv, [Next]_vars
  PROVE  IInv'
<1>1. TypeOK'
  BY TypeStep DEF IInv
<1>2. CASE UNCHANGED vars
  BY <1>1, <1>2 DEF vars, IInv, RunningMatchesJobs, Disjoint, Active, RequestInv, StoreInv
<1> QED BY <1>1, <1>2, RequestStep, AdmitStep, UpdateStep, StopStep, FinishStep,
           CrashStep, RestartStep DEF Next, RequestNext

-----------------------------------------------------------------------------
(* Every reachable state satisfies IInv, whatever the settings are changed *)
(* to and whichever saves fail.                                            *)
LEMMA Invariance == Spec => []IInv
<1>1. IInv /\ [Next]_vars => IInv'
  BY InvStep
<1> QED BY InitInv, <1>1, PTL DEF Spec

(* Every variable keeps its type.                                          *)
THEOREM TypeCorrect == Spec => []TypeOK
<1>1. IInv => TypeOK
  BY DEF IInv
<1> QED BY Invariance, <1>1, PTL

(* No node is ever in two active jobs, in memory or on disk.               *)
THEOREM NodesAreReserved == Spec => []NodeInOneJob
<1>1. IInv => NodeInOneJob
  BY DEF IInv, Disjoint, NodeInOneJob
<1> QED BY Invariance, <1>1, PTL

(* The reservations are exactly the active jobs.                           *)
THEOREM ReservationsAreJobs == Spec => []RunningMatchesJobs
<1>1. IInv => RunningMatchesJobs
  BY DEF IInv
<1> QED BY Invariance, <1>1, PTL

-----------------------------------------------------------------------------
(* A job that is stored with a node the settings do not list was so before *)
(* this step, or the step has admitted it.                                 *)
OrphanStep ==
  Orphans(saved') \subseteq
    Orphans(saved) \cup {n \in Nodes : \E j \in JobIds :
                           jobs[j] = Unused /\ n \in jobs'[j].members}

(* A save under the same settings stores no such job, unless it is new.    *)
LEMMA SameSettings ==
  ASSUME IInv, UNCHANGED settings,
         \/ saved'.jobs = jobs' /\ saved'.settings = settings'
         \/ saved' = saved,
         \A j \in JobIds : Active(jobs'[j]) =>
           \/ Active(jobs[j]) /\ jobs'[j].members = jobs[j].members
           \/ jobs[j] = Unused
  PROVE  OrphanStep
<1>1. CASE saved' = saved
  BY <1>1 DEF OrphanStep
<1>2. CASE saved'.jobs = jobs' /\ saved'.settings = settings'
  <2> SUFFICES ASSUME NEW n \in Nodes, NEW i \in JobIds,
                      settings.home[n] = NoGroup, Active(jobs'[i]), n \in jobs'[i].members
               PROVE  \/ n \in Orphans(saved)
                      \/ jobs[i] = Unused /\ n \in jobs'[i].members
    BY <1>2 DEF OrphanStep, Orphans
  <2>1. CASE jobs[i] = Unused
    BY <2>1
  <2>2. CASE Active(jobs[i]) /\ jobs'[i].members = jobs[i].members
    <3>1. Active(saved.jobs[i]) /\ n \in saved.jobs[i].members
      BY <2>2 DEF IInv, StoreInv
    <3>2. saved.settings.home[n] = NoGroup
      BY DEF IInv, StoreInv
    <3> QED BY <3>1, <3>2 DEF Orphans
  <2> QED BY <2>1, <2>2
<1> QED BY <1>1, <1>2

(* An update keeps a place for every node of an active job.                *)
LEMMA UpdateKeepsNodes ==
  ASSUME IInv, NEW layout \in Layouts, UpdateSettings(layout)
  PROVE  Orphans(saved') = {}
<1> SUFFICES ASSUME NEW n \in Nodes, NEW i \in JobIds,
                    Active(jobs[i]), n \in jobs[i].members
             PROVE  layout.home[n] # NoGroup
  BY DEF UpdateSettings, Orphans
<1>1. jobs[i].group \in Groups /\ running[jobs[i].group] = i /\ i # NoJob
  BY DEF UpdateSettings, IInv, Disjoint, RunningMatchesJobs
<1> QED BY <1>1 DEF UpdateSettings

(* So every step is of that kind.                                          *)
LEMMA OrphansGrowByAdmission ==
  ASSUME IInv, [Next]_vars
  PROVE  OrphanStep
<1>1. ASSUME NEW r \in Requesters, NEW j \in JobIds, Admit(r, j)
      PROVE  OrphanStep
  <2>1. UNCHANGED settings /\ saved'.jobs = jobs' /\ saved'.settings = settings'
    BY <1>1 DEF Admit, Commit
  <2>2. jobs[j] = Unused /\ \A i \in JobIds \ {j} : jobs'[i] = jobs[i]
    BY <1>1 DEF Admit, IInv, TypeOK
  <2> QED BY <2>1, <2>2, SameSettings
<1>2. ASSUME NEW g \in Groups, StopJob(g)
      PROVE  OrphanStep
  <2>1. UNCHANGED settings /\ saved'.jobs = jobs' /\ saved'.settings = settings'
    BY <1>2 DEF StopJob, Commit
  <2>2. running[g] \in JobIds /\ Active(jobs[running[g]])
    BY <1>2 DEF StopJob, IInv, TypeOK, RunningMatchesJobs
  <2>3. /\ jobs'[running[g]].members = jobs[running[g]].members
        /\ \A i \in JobIds \ {running[g]} : jobs'[i] = jobs[i]
    BY <1>2, <2>2, SetStateFacts DEF StopJob, IInv, JobStates
  <2>4. \A i \in JobIds : Active(jobs'[i]) =>
          Active(jobs[i]) /\ jobs'[i].members = jobs[i].members
    BY <2>2, <2>3
  <2> QED BY <2>1, <2>4, SameSettings
<1>3. ASSUME NEW j \in JobIds, FinishJob(j)
      PROVE  OrphanStep
  <2>1. Commit \/ SaveFails
    BY <1>3 DEF FinishJob
  <2>2. saved' = saved \/ (saved'.jobs = jobs' /\ saved'.settings = settings')
    BY <2>1 DEF Commit, SaveFails
  <2>3. jobs'[j].members = jobs[j].members /\ \A i \in JobIds \ {j} : jobs'[i] = jobs[i]
    BY <1>3, SetStateFacts DEF FinishJob, IInv, JobStates
  <2>4. \A i \in JobIds : Active(jobs'[i]) =>
          Active(jobs[i]) /\ jobs'[i].members = jobs[i].members
    BY <1>3, <2>3 DEF FinishJob
  <2>5. UNCHANGED settings
    BY <1>3 DEF FinishJob
  <2> QED BY <2>2, <2>4, <2>5, SameSettings
<1>4. ASSUME NEW layout \in Layouts, UpdateSettings(layout)
      PROVE  OrphanStep
  BY <1>4, UpdateKeepsNodes DEF OrphanStep
<1>5. CASE UNCHANGED saved
  BY <1>5 DEF OrphanStep
<1>6. ASSUME NEW r \in Requesters, AdmitUnsaved(r)
      PROVE  UNCHANGED saved
  BY <1>6 DEF AdmitUnsaved, SaveFails
<1> QED BY <1>1, <1>2, <1>3, <1>4, <1>5, <1>6
        DEF Next, RequestNext, vars, RequestStart, PreflightVerify,
            PreflightReject, AdmitConflict, Crash, Restart

(* No update, crash or failed save stores an active job without one of its *)
(* nodes; only an admission does.                                          *)
THEOREM OrphansComeFromAdmission == Spec => OnlyAdmissionOrphans
<1>1. IInv /\ [Next]_vars => [OrphanStep]_vars
  BY OrphansGrowByAdmission
<1> QED BY Invariance, <1>1, PTL DEF Spec, OnlyAdmissionOrphans, OrphanStep

-----------------------------------------------------------------------------
(* What the page offers.                                                   *)

(* Some node is the first of those that compact, if there are any.         *)
LEMMA FirstOf ==
  ASSUME NEW S, S \subseteq Nodes, S # {}
  PROVE  First(S) \in S /\ First(S) # NoNode
<1>1. S \subseteq Nat \ {NoNode}
  BY NodesAssumption
<1>2. PICK n \in S : \A m \in S : ~(<<m, n>> \in OpToRel(<, Nat))
  BY <1>1, NatLessThanWellFounded, WFMin
<1>3. \A m \in S : n <= m
  <2> SUFFICES ASSUME NEW m \in S PROVE n <= m
    OBVIOUS
  <2>1. m \in Nat /\ n \in Nat
    BY <1>1
  <2>2. ~(m < n)
    BY <1>2, <2>1 DEF OpToRel
  <2> QED BY <2>1, <2>2
<1> QED BY <1>1, <1>3 DEF First

(* Statuses of a node, in words.                                           *)
LEMMA StatusCases ==
  ASSUME NEW s \in NodeStatuses
  PROVE  s = "idle" <=> Online(s) /\ ~Compacting(s) /\ s # "barred"
  BY DEF NodeStatuses, Online, Compacting

(* A disk without a job shows the nodes that the settings give it and no   *)
(* job holds.                                                              *)
LEMMA ShownWithoutJob ==
  ASSUME TypeOK, NEW g \in Groups, ~ActiveJob(g)
  PROVE  EnabledNodes(g) = GroupNodes(g) \ HeldElsewhere(g)
<1>0. Reserved(g) = {}
  BY DEF Reserved
<1>1. ASSUME NEW n \in EnabledNodes(g)
      PROVE  n \in GroupNodes(g) \ HeldElsewhere(g)
  <2>1. n \in Nodes /\ n \in settings.enabled /\ ShownGroup(n) = g
    BY <1>1 DEF EnabledNodes, ShownNodes
  <2>2. ~ \E h \in Groups : n \in Reserved(h)
    BY <1>0, <2>1 DEF ShownGroup
  <2> QED BY <2>1, <2>2 DEF ShownGroup, GroupNodes, HeldElsewhere
<1>2. ASSUME NEW n \in GroupNodes(g) \ HeldElsewhere(g)
      PROVE  n \in EnabledNodes(g)
  <2>1. ~ \E h \in Groups : n \in Reserved(h)
    BY <1>0, <1>2 DEF HeldElsewhere
  <2>2. settings.home[n] = g /\ n \in settings.enabled /\ n \in Nodes /\ g # NoGroup
    BY <1>2 DEF GroupNodes, TypeOK, Settings
  <2> QED BY <1>2, <2>1, <2>2 DEF ShownGroup, EnabledNodes, ShownNodes
<1> QED BY <1>1, <1>2

(* The row and the card of a disk, and the rows of its nodes, agree.       *)
AgreeOn(g, cache, current) ==
  LET row == groupOperationRow(g, cache, current)
      card == groupCard(g, cache, current)
  IN /\ row.button = card.button
     /\ row.status = card.status \/ (row.status = "no nodes" /\ card.status = "idle")
     /\ card.node \in {row.node, NoNode}
     /\ row.button = "start" <=> /\ EnabledNodes(g) # {}
                                 /\ \A n \in EnabledNodes(g) : startBlocked(n, cache) = ""

LEMMA SameViews ==
  ASSUME NEW g \in Groups, NEW cache \in Caches(g), NEW current \in Reserved(g) \cup {NoNode}
  PROVE  AgreeOn(g, cache, current)
<1> DEFINE compacting == {n \in EnabledNodes(g) : Compacting(cache[n])}
           unavailable == {n \in EnabledNodes(g) : ~Online(cache[n])}
           ready == EnabledNodes(g) # {} /\ \A n \in EnabledNodes(g) : cache[n] = "idle"
           row == groupOperationRow(g, cache, current)
           card == groupCard(g, cache, current)
           start == IF ready THEN "start" ELSE "start, disabled"
<1>0. /\ EnabledNodes(g) \subseteq ShownNodes(g) /\ ShownNodes(g) \subseteq Nodes
      /\ \A n \in EnabledNodes(g) : cache[n] \in NodeStatuses
  BY DEF EnabledNodes, ShownNodes, Caches
<1>1. /\ compacting = {} => First(compacting) = NoNode
      /\ compacting # {} => First(compacting) # NoNode
  <2>1. compacting \subseteq Nodes
    BY <1>0
  <2> QED BY <2>1, FirstOf DEF First
<1>2. CASE ActiveJob(g)
  <2>1. /\ row.button = "stop" /\ card.button = "stop"
        /\ row.status = "job" /\ card.status = "job"
    BY <1>2 DEF groupOperationRow, groupCard, groupContext
  <2>2. card.node \in {row.node, NoNode}
    BY <1>0, <1>2 DEF groupOperationRow, groupCard, groupContext
  <2>3. ASSUME NEW n \in EnabledNodes(g) PROVE startBlocked(n, cache) # ""
    <3>1. ShownGroup(n) = g
      BY DEF EnabledNodes, ShownNodes
    <3> QED BY <1>2, <3>1 DEF startBlocked
  <2> QED BY <2>1, <2>2, <2>3 DEF AgreeOn
<1>3. CASE ~ActiveJob(g)
  <2>1. /\ row.button = IF compacting # {} THEN "busy" ELSE start
        /\ row.node = First(compacting)
        /\ row.status = IF compacting # {} THEN "working"
                        ELSE IF unavailable # {} THEN "offline"
                        ELSE IF EnabledNodes(g) # {} THEN "idle" ELSE "no nodes"
    BY <1>3 DEF groupOperationRow, groupContext, Start
  <2>2. /\ card.button = IF First(compacting) # NoNode THEN "busy" ELSE start
        /\ card.node = First(compacting)
        /\ card.status = IF First(compacting) # NoNode THEN "working"
                         ELSE IF unavailable # {} THEN "offline" ELSE "idle"
    BY <1>3 DEF groupCard, groupContext, Start
  <2>3. row.button = "start" <=> compacting = {} /\ ready
    BY <2>1
  <2>4. compacting = {} /\ ready <=>
          /\ EnabledNodes(g) # {}
          /\ \A n \in EnabledNodes(g) : startBlocked(n, cache) = ""
    <3>1. ASSUME NEW n \in EnabledNodes(g)
          PROVE  startBlocked(n, cache) = "" =>
                   Online(cache[n]) /\ ~Compacting(cache[n]) /\ cache[n] # "barred"
      BY DEF startBlocked
    <3>2. ASSUME NEW n \in EnabledNodes(g), compacting = {}, ready
          PROVE  startBlocked(n, cache) = ""
      <4>1. ShownGroup(n) = g /\ n \in settings.enabled
        BY DEF EnabledNodes, ShownNodes
      <4>2. \A m \in EnabledNodes(g) : /\ ~Compacting(cache[m]) /\ Online(cache[m])
                                       /\ cache[m] # "barred"
        BY <1>0, <3>2, StatusCases
      <4> QED BY <1>3, <4>1, <4>2 DEF startBlocked
    <3> QED BY <1>0, <3>1, <3>2, StatusCases
  <2> HIDE DEF row, card, compacting, unavailable, start
  <2>5. row.button = card.button /\ card.node = row.node
    BY <1>1, <2>1, <2>2
  <2>6. row.status = card.status \/ (row.status = "no nodes" /\ card.status = "idle")
    BY <1>1, <2>1, <2>2
  <2> QED BY <2>3, <2>4, <2>5, <2>6 DEF AgreeOn, row, card
<1> QED BY <1>2, <1>3

(* The three places where the page works out what can be done agree.       *)
THEOREM ViewsAlwaysAgree == Spec => []ViewsAgree
<1>1. ViewsAgree
  BY SameViews DEF ViewsAgree, AgreeOn
<1> QED BY <1>1, PTL

(* What the page offers without a job on the disk, the server accepts.     *)
LEMMA OfferAccepted ==
  ASSUME TypeOK, NEW g \in Groups, NEW cache \in Caches(g), ~ActiveJob(g),
         \A n \in EnabledNodes(g) : Online(cache[n]) /\ ~Compacting(cache[n]),
         NEW asked, asked \subseteq EnabledNodes(g)
  PROVE  LET free == GroupNodes(g) \ HeldElsewhere(g) IN
           /\ asked \subseteq GroupNodes(g) /\ ~Conflict(g, asked)
           /\ \A n \in free : Online(cache[n]) /\ ~Compacting(cache[n])
<1>1. EnabledNodes(g) = GroupNodes(g) \ HeldElsewhere(g)
  BY ShownWithoutJob
<1>2. running[g] = NoJob
  BY DEF ActiveJob
<1>3. ASSUME NEW h \in Groups, running[h] # NoJob
      PROVE  jobs[running[h]].members \cap asked = {}
  <2>1. h # g /\ Reserved(h) = jobs[running[h]].members
    BY <1>2, <1>3 DEF Reserved, ActiveJob
  <2> QED BY <1>1, <2>1 DEF HeldElsewhere
<1> QED BY <1>1, <1>2, <1>3 DEF Conflict

(* A start that the page offers is accepted if nothing has changed.        *)
THEOREM OffersAreAccepted == Spec => []OfferedStartIsAccepted
<1>1. TypeOK => OfferedStartIsAccepted
  <2> SUFFICES ASSUME TypeOK, NEW g \in Groups, NEW cache \in Caches(g)
               PROVE  LET asked == {n \in ShownNodes(g) : startBlocked(n, cache) = ""}
                          free == GroupNodes(g) \ HeldElsewhere(g)
                          passes == \A n \in free : Online(cache[n]) /\ ~Compacting(cache[n])
                      IN /\ groupOperationRow(g, cache, NoNode).button = "start" =>
                              free # {} /\ ~Conflict(g, free) /\ passes
                         /\ \A n \in asked : n \in GroupNodes(g) /\ ~Conflict(g, {n}) /\ passes
    BY DEF OfferedStartIsAccepted
  <2> DEFINE free == GroupNodes(g) \ HeldElsewhere(g)
             passes == \A n \in free : Online(cache[n]) /\ ~Compacting(cache[n])
  <2>1. ASSUME groupOperationRow(g, cache, NoNode).button = "start"
        PROVE  free # {} /\ ~Conflict(g, free) /\ passes
    <3>1. /\ ~ActiveJob(g) /\ EnabledNodes(g) # {}
          /\ \A n \in EnabledNodes(g) : cache[n] = "idle"
      BY <2>1 DEF groupOperationRow, groupContext, Start
    <3>2. \A n \in EnabledNodes(g) : Online(cache[n]) /\ ~Compacting(cache[n])
      BY <3>1 DEF Online, Compacting
    <3> QED BY <3>1, <3>2, ShownWithoutJob, OfferAccepted
  <2>2. ASSUME NEW n \in ShownNodes(g), startBlocked(n, cache) = ""
        PROVE  n \in GroupNodes(g) /\ ~Conflict(g, {n}) /\ passes
    <3>1. ShownGroup(n) = g
      BY DEF ShownNodes
    <3>2. /\ ~ActiveJob(g) /\ n \in EnabledNodes(g)
          /\ Online(cache[n]) /\ ~Compacting(cache[n])
          /\ \A m \in EnabledNodes(g) \ {n} : Online(cache[m]) /\ ~Compacting(cache[m])
      BY <2>2, <3>1 DEF startBlocked, EnabledNodes
    <3>3. \A m \in EnabledNodes(g) : Online(cache[m]) /\ ~Compacting(cache[m])
      BY <3>2
    <3>4. {n} \subseteq EnabledNodes(g)
      BY <3>2
    <3> QED BY <3>2, <3>3, <3>4, OfferAccepted
  <2> QED BY <2>1, <2>2
<1> QED BY <1>1, TypeCorrect, PTL
=============================================================================

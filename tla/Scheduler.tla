----------------------------- MODULE Scheduler -----------------------------
(***************************************************************************)
(* When a rule of the schedule starts a queue (schedule.go): every half    *)
(* minute processSchedules picks the rules that are due, one per disk,     *)
(* notes the attempt and hands it to a goroutine, of which a semaphore     *)
(* admits a few; that one checks the nodes and asks for admission like     *)
(* any other start (orchestrator.go, startGroupWithTrigger).               *)
(*                                                                         *)
(* Time is what passes between two events: a rule's next occurrence        *)
(* arrives, the retry interval since its last attempt elapses. What an     *)
(* occurrence is for a calendar is not the subject: it has a due key, and  *)
(* the keys of a rule grow with time as long as nobody edits the pattern   *)
(* of the rule or the timezone, which may bring back any key. One is due   *)
(* until it is consumed or the next one arrives, and that of a weekly rule *)
(* until midnight.                                                         *)
(***************************************************************************)
EXTENDS Naturals, FiniteSets

CONSTANTS
  Rules,          \* numbered in the order of the settings
  Groups,
  Targets,        \* what a rule may be for: a group or one node
  SingleNode,     \* the targets that are one node
  GroupOf,        \* the group of each target
  FirstTarget,    \* the target of each rule at the start, and
  FirstWeekly,    \* the rules that are weekly then; the others are interval rules
  Slots,          \* capacity of o.scheduleSem
  MaxOccurrence,  \* bound: due keys of a rule
  Budgets         \* bounds: how often each of the events below may happen

BudgetKinds == {"occurrences", "requests", "edits", "disturbances", "crashes", "failedSaves"}
Statuses == {"enabled", "off", "deleted"}
NoKey == 0
NoJob == [trigger |-> "none", rule |-> 0]

ASSUME RulesAssumption == Rules \subseteq Nat \ {0} /\ FirstWeekly \subseteq Rules
ASSUME OccurrenceAssumption == MaxOccurrence \in Nat
ASSUME TargetAssumption ==
  /\ SingleNode \subseteq Targets
  /\ GroupOf \in [Targets -> Groups] /\ FirstTarget \in [Rules -> Targets]
ASSUME BudgetAssumption == Budgets \subseteq [BudgetKinds -> Nat]

(* An attempt that has its slot takes ten seconds at most, the timeout of  *)
(* nodeClient. So with this many disks none is as old as the retry         *)
(* interval of a minute, the time it waited for a slot included.           *)
ASSUME SlotsAssumption == Slots \in Nat \ {0} /\ Cardinality(Groups) <= 5 * Slots

VARIABLES
  up,
  rules,      \* the rules' status in the settings,
  target,     \* their targets,
  weekly,     \* those in weekly mode,
  barred,     \* and the nodes that are disabled
  current,    \* the due key of the occurrence of each rule whose time has come
  over,       \* the weekly rules with midnight after it
  state,      \* o.state.ScheduleState
  running,    \* the active job of each group
  saved,      \* schedule states and jobs as last committed to SQLite
  selected,   \* what processSchedules has picked and still has to hand over
  attempts,   \* runSchedule calls that are not over, with their progress
  disturbed,  \* disks with a node that is offline or compacting on its own
  starts,     \* history: jobs admitted for each key since the rule last had it
  budget

settings == <<rules, target, weekly, barred>>
memory == <<settings, state, running>>
time == <<current, over>>
vars == <<up, memory, time, saved, selected, attempts, disturbed, starts, budget>>

Occurrences == 1 .. MaxOccurrence
Keys == {NoKey} \cup Occurrences
Candidates == [rule : Rules, key : Occurrences, target : Targets]
RunStates == [key : Nat, fresh : BOOLEAN]
NoState == [key |-> NoKey, fresh |-> FALSE]
Jobs == [trigger : {"none", "manual", "manual-node", "schedule", "schedule-node"},
         rule : Rules \cup {0}]
Phases == {"asked", "verified", "refused"}

TypeOK ==
  /\ up \in BOOLEAN
  /\ rules \in [Rules -> Statuses] /\ target \in [Rules -> Targets]
  /\ weekly \subseteq Rules /\ barred \subseteq SingleNode
  /\ current \in [Rules -> Keys] /\ over \subseteq Rules
  /\ state \in [Rules -> RunStates]
  /\ running \in [Groups -> Jobs]
  /\ saved \in [state : [Rules -> RunStates], running : [Groups -> Jobs]]
  /\ selected \subseteq Candidates
  /\ attempts \subseteq [rule : Rules, key : Occurrences, target : Targets, phase : Phases]
  /\ Cardinality(attempts) <= Slots
  /\ disturbed \subseteq Groups
  /\ starts \in [Rules -> [Occurrences -> Nat]]
  /\ budget \in [BudgetKinds -> Nat]

-----------------------------------------------------------------------------
Spend(kind) ==
  budget[kind] > 0 /\ budget' = [budget EXCEPT ![kind] = budget[kind] - 1]

(* Save writes the state of the rules that are listed, and all jobs.       *)
Written ==
  [state |-> [r \in Rules |-> IF rules'[r] = "deleted" THEN NoState ELSE state'[r]],
   running |-> running']
Commit == saved' = Written /\ UNCHANGED budget
SaveFails == Spend("failedSaves") /\ UNCHANGED saved

DiskWide(job) == job.trigger \in {"manual", "schedule"}
Trigger(t) == IF t \in SingleNode THEN "schedule-node" ELSE "schedule"
Disk(r) == GroupOf[target[r]]

-----------------------------------------------------------------------------
(* The loop.                                                               *)

(* Mutant: a due rule is tried at every tick.                              *)
DueEachTick(r) ==
  /\ rules[r] = "enabled" /\ r \notin over
  /\ current[r] \notin {NoKey, state[r].key} /\ target[r] \notin barred

(* processSchedules, the conditions up to the target of the rule: a node   *)
(* that is disabled is not found. fresh: less than the retry interval has  *)
(* passed since the last attempt.                                          *)
Due(r) ==
  /\ rules[r] = "enabled" /\ r \notin over /\ ~state[r].fresh
  /\ current[r] \notin {NoKey, state[r].key} /\ target[r] \notin barred

(* A due rule that finds a disk-wide queue on its disk is consumed; behind *)
(* a job of one node it only waits.                                        *)
Skipped == {r \in Rules : Due(r) /\ DiskWide(running[Disk(r)])}

(* Of the due rules of a free disk, the first.                             *)
Picked ==
  {r \in Rules : /\ Due(r) /\ running[Disk(r)] = NoJob
                 /\ \A other \in Rules : other < r /\ Disk(other) = Disk(r) => ~Due(other)}

(* One pass of the loop, after the last one has handed over all it picked. *)
(* That the attempts could not be saved is only logged.                    *)
ProcessSchedules ==
  /\ up /\ selected = {}
  /\ Skipped \cup Picked # {}
  /\ state' = [r \in Rules |-> IF r \in Skipped THEN [key |-> current[r], fresh |-> TRUE]
                               ELSE IF r \in Picked THEN [state[r] EXCEPT !.fresh = TRUE]
                               ELSE state[r]]
  /\ selected' = {[rule |-> r, key |-> current[r], target |-> target[r]] : r \in Picked}
  /\ UNCHANGED <<up, settings, time, running, attempts, disturbed, starts>>
  /\ Commit \/ SaveFails

Begun(c) == [rule |-> c.rule, key |-> c.key, target |-> c.target, phase |-> "asked"]

(* Mutant: a goroutine at once, whatever is under way.                     *)
HandOverAtOnce(c) ==
  /\ c \in selected
  /\ selected' = selected \ {c}
  /\ attempts' = attempts \cup {Begun(c)}
  /\ UNCHANGED <<up, memory, time, saved, disturbed, starts, budget>>

(* The semaphore has room for one more.                                    *)
HandOver(c) ==
  /\ c \in selected /\ Cardinality(attempts) < Slots
  /\ selected' = selected \ {c}
  /\ attempts' = attempts \cup {Begun(c)}
  /\ UNCHANGED <<up, memory, time, saved, disturbed, starts, budget>>

-----------------------------------------------------------------------------
(* runSchedule, one of them per slot.                                      *)

Advance(a, phase) == attempts' = (attempts \ {a}) \cup {[a EXCEPT !.phase = phase]}

(* The first look and the preflight.                                       *)
Verify(a) ==
  /\ a \in attempts /\ a.phase = "asked"
  /\ running[GroupOf[a.target]] = NoJob /\ GroupOf[a.target] \notin disturbed
  /\ a.target \notin barred
  /\ Advance(a, "verified")
  /\ UNCHANGED <<up, memory, time, saved, selected, disturbed, starts, budget>>

Refuse(a) ==
  /\ a \in attempts /\ a.phase = "asked"
  /\ \/ running[GroupOf[a.target]] # NoJob
     \/ GroupOf[a.target] \in disturbed
     \/ a.target \in barred
  /\ Advance(a, "refused")
  /\ UNCHANGED <<up, memory, time, saved, selected, disturbed, starts, budget>>

(* The second check under the lock, with the job and the occurrence in one *)
(* transaction. Nothing is asked of the rule again.                        *)
Admit(a) ==
  /\ a \in attempts /\ a.phase = "verified" /\ running[GroupOf[a.target]] = NoJob
  /\ running' = [running EXCEPT ![GroupOf[a.target]] =
                   [trigger |-> Trigger(a.target), rule |-> a.rule]]
  /\ state' = [state EXCEPT ![a.rule].key = a.key]
  /\ starts' = [starts EXCEPT ![a.rule][a.key] = @ + 1]
  /\ attempts' = attempts \ {a}
  /\ UNCHANGED <<up, settings, time, selected, disturbed>>
  /\ Commit

(* Mutant: only job list and reservation are taken back.                   *)
AdmitUnsavedConsumed(a) ==
  /\ a \in attempts /\ a.phase = "verified" /\ running[GroupOf[a.target]] = NoJob
  /\ state' = [state EXCEPT ![a.rule].key = a.key]
  /\ Advance(a, "refused")
  /\ UNCHANGED <<up, settings, running, time, selected, disturbed, starts>>
  /\ SaveFails

(* The job cannot be saved: all is taken back, the state of the rule too.  *)
AdmitUnsaved(a) ==
  /\ a \in attempts /\ a.phase = "verified" /\ running[GroupOf[a.target]] = NoJob
  /\ Advance(a, "refused")
  /\ UNCHANGED <<up, memory, time, selected, disturbed, starts>>
  /\ SaveFails

AdmitConflict(a) ==
  /\ a \in attempts /\ a.phase = "verified" /\ running[GroupOf[a.target]] # NoJob
  /\ Advance(a, "refused")
  /\ UNCHANGED <<up, memory, time, saved, selected, disturbed, starts, budget>>

(* Mutant: a refused attempt keeps its slot.                               *)
RecordErrorHoldingSlot(a) ==
  /\ a \in attempts /\ a.phase = "refused"
  /\ UNCHANGED <<up, memory, time, selected, attempts, disturbed, starts>>
  /\ Commit

(* The error becomes part of the rule's state, and the slot is free.       *)
RecordError(a) ==
  /\ a \in attempts /\ a.phase = "refused"
  /\ attempts' = attempts \ {a}
  /\ UNCHANGED <<up, memory, time, selected, disturbed, starts>>
  /\ Commit \/ SaveFails

-----------------------------------------------------------------------------
(* What goes on around it.                                                 *)

(* The due keys of the rules become these; what was started for one that a *)
(* rule had before does not count for this occurrence.                     *)
Arrive(keys) ==
  /\ current' = keys
  /\ starts' = [r \in Rules |-> [k \in Occurrences |->
                  IF k = keys[r] /\ k # current[r] THEN 0 ELSE starts[r][k]]]

(* The next occurrence of a rule has a newer key: not than all keys, if    *)
(* its pattern has been edited in between.                                 *)
NextOccurrence(r, key) ==
  /\ current[r] < key
  /\ Spend("occurrences")
  /\ Arrive([current EXCEPT ![r] = key])
  /\ over' = over \ {r}
  /\ UNCHANGED <<up, memory, saved, selected, attempts, disturbed>>

(* To an occurrence that is consumed midnight does not matter.             *)
Midnight(r) ==
  /\ r \in weekly \ over /\ current[r] \notin {NoKey, state[r].key}
  /\ over' = over \cup {r}
  /\ UNCHANGED <<up, memory, current, saved, selected, attempts, disturbed, starts, budget>>

(* A minute has passed since the last attempt of the rule. It is longer    *)
(* than any attempt, see SlotsAssumption.                                  *)
Elapse(r) ==
  /\ state[r].fresh \/ saved.state[r].fresh
  /\ \A c \in selected \cup attempts : c.rule # r
  /\ state' = [state EXCEPT ![r].fresh = FALSE]
  /\ saved' = [saved EXCEPT !.state[r].fresh = FALSE]
  /\ UNCHANGED <<up, settings, running, time, selected, attempts, disturbed, starts, budget>>

(* A start that somebody asks for, of a disk or of one node on it.         *)
Request(g, trigger) ==
  /\ up /\ running[g] = NoJob /\ g \notin disturbed
  /\ Spend("requests")
  /\ running' = [running EXCEPT ![g] = [trigger |-> trigger, rule |-> 0]]
  /\ UNCHANGED <<up, settings, state, time, selected, attempts, disturbed, starts>>
  /\ saved' = Written

FinishJob(g) ==
  /\ up /\ running[g] # NoJob
  /\ running' = [running EXCEPT ![g] = NoJob]
  /\ UNCHANGED <<up, settings, state, time, selected, attempts, disturbed, starts>>
  /\ Commit \/ SaveFails

-----------------------------------------------------------------------------
(* The settings. Every update keeps the states of the rules that remain; a *)
(* rule that was deleted does not come back: a new one has a new id.       *)
Update ==
  /\ up
  /\ Spend("edits")
  /\ state' = [r \in Rules |-> IF rules'[r] = "deleted" THEN NoState ELSE state[r]]
  /\ UNCHANGED <<up, running, selected, attempts, disturbed>>
  /\ saved' = Written

SwitchRule(r, status) ==
  /\ rules[r] \notin {"deleted", status}
  /\ rules' = [rules EXCEPT ![r] = status]
  /\ UNCHANGED <<target, weekly, barred, time, starts>>
  /\ Update

Retarget(r, t) ==
  /\ rules[r] # "deleted" /\ target[r] # t
  /\ target' = [target EXCEPT ![r] = t]
  /\ UNCHANGED <<rules, weekly, barred, time, starts>>
  /\ Update

SwitchNode(n) ==
  /\ barred' = IF n \in barred THEN barred \ {n} ELSE barred \cup {n}
  /\ UNCHANGED <<rules, target, weekly, time, starts>>
  /\ Update

(* The time, the days, the interval or its start, or the mode of a rule:   *)
(* the occurrence whose time has come by the new pattern may be any, or    *)
(* none, and may be one that the rule had before.                          *)
EditPattern(r, key) ==
  /\ rules[r] # "deleted" /\ key # current[r]
  /\ Arrive([current EXCEPT ![r] = key])
  /\ over' = over \ {r}
  /\ weekly' \in {weekly, weekly \cup {r}, weekly \ {r}}
  /\ UNCHANGED <<rules, target, barred>>
  /\ Update

(* The timezone moves the times of all rules, and midnight with them.      *)
EditZone(keys) ==
  /\ Arrive(keys)
  /\ over' \in SUBSET {r \in weekly : keys[r] = current[r]}
  /\ UNCHANGED settings
  /\ Update

SettingsNext ==
  \/ \E r \in Rules : \/ \E status \in Statuses : SwitchRule(r, status)
                      \/ \E t \in Targets : Retarget(r, t)
                      \/ \E key \in Keys : EditPattern(r, key)
  \/ \E n \in SingleNode : SwitchNode(n)
  \/ \E keys \in [Rules -> Keys] : EditZone(keys)

-----------------------------------------------------------------------------
(* The disks and the process.                                              *)

Disturb(g) ==
  /\ g \notin disturbed
  /\ Spend("disturbances")
  /\ disturbed' = disturbed \cup {g}
  /\ UNCHANGED <<up, memory, time, saved, selected, attempts, starts>>

Calm(g) ==
  /\ g \in disturbed
  /\ disturbed' = disturbed \ {g}
  /\ UNCHANGED <<up, memory, time, saved, selected, attempts, starts, budget>>

(* The process ends; what it had not saved is forgotten.                   *)
Crash ==
  /\ up
  /\ Spend("crashes")
  /\ up' = FALSE
  /\ state' = saved.state /\ running' = saved.running
  /\ selected' = {} /\ attempts' = {}
  /\ UNCHANGED <<settings, time, saved, disturbed, starts>>

Restart ==
  /\ ~up /\ up' = TRUE
  /\ UNCHANGED <<memory, time, saved, selected, attempts, disturbed, starts, budget>>

-----------------------------------------------------------------------------
Init ==
  /\ up = TRUE
  /\ rules = [r \in Rules |-> "enabled"]
  /\ target = FirstTarget /\ weekly = FirstWeekly /\ barred = {}
  /\ current = [r \in Rules |-> NoKey] /\ over = {}
  /\ state = [r \in Rules |-> NoState]
  /\ running = [g \in Groups |-> NoJob]
  /\ saved = [state |-> state, running |-> running]
  /\ selected = {} /\ attempts = {} /\ disturbed = {}
  /\ starts = [r \in Rules |-> [k \in Occurrences |-> 0]]
  /\ budget \in Budgets

AttemptNext(a) ==
  Verify(a) \/ Refuse(a) \/ Admit(a) \/ AdmitUnsaved(a) \/ AdmitConflict(a) \/ RecordError(a)

RuleNext(r) ==
  \/ \E key \in Occurrences : NextOccurrence(r, key)
  \/ Midnight(r) \/ Elapse(r)

DiskNext(g) ==
  \/ \E trigger \in {"manual", "manual-node"} : Request(g, trigger)
  \/ FinishJob(g) \/ Disturb(g) \/ Calm(g)

Next ==
  \/ ProcessSchedules \/ SettingsNext \/ Crash \/ Restart
  \/ \E c \in selected : HandOver(c)
  \/ \E a \in attempts : AttemptNext(a)
  \/ \E r \in Rules : RuleNext(r)
  \/ \E g \in Groups : DiskNext(g)

(* The loop ticks, the requests of a preflight end, queues come to their   *)
(* end (DiskQueue), nodes come back, and the process is started again.     *)
Fairness ==
  /\ WF_vars(ProcessSchedules) /\ WF_vars(Restart)
  /\ \A r \in Rules : /\ WF_vars(Elapse(r))
                      /\ WF_vars(\E c \in selected : c.rule = r /\ HandOver(c))
                      /\ WF_vars(\E a \in attempts : a.rule = r /\ AttemptNext(a))
  /\ \A g \in Groups : WF_vars(FinishJob(g)) /\ WF_vars(Calm(g))

Spec == Init /\ [][Next]_vars /\ Fairness

-----------------------------------------------------------------------------
(* Properties.                                                             *)

(* From the time an occurrence of a rule comes until the rule has another  *)
(* one, no more than one job is started for it, whatever is retried,       *)
(* refused, rolled back, edited or lost in a crash; an edit of the pattern *)
(* and a second one that brings the old key back make a new occurrence of  *)
(* it (schedule.go 61, 119; orchestrator.go 620-644; README.md 191-192).   *)
OccurrenceStartsOnce == \A r \in Rules, k \in Occurrences : starts[r][k] <= 1

(* An occurrence is consumed only by a job that is admitted for it, or     *)
(* because its disk has a disk-wide queue: no failed attempt, no save that *)
(* failed and was rolled back, no crash loses it (schedule.go 44-46,       *)
(* 71-84; orchestrator.go 620-643).                                        *)
ConsumedForAReason ==
  [][\A r \in Rules :
       state'[r].key \notin {NoKey, state[r].key, saved.state[r].key} =>
         \/ /\ starts'[r][state'[r].key] = 1
            /\ \E g \in Groups : running[g] = NoJob /\ running'[g].rule = r
         \/ state'[r].key = current[r] /\ DiskWide(running[Disk(r)])]_vars

(* An occurrence that has come is consumed in the end, unless the next one *)
(* comes first, or the rule or its node is switched off: no rule starves   *)
(* behind the others of its disk, the retry interval or the semaphore. The *)
(* occurrence of a weekly rule may also lapse at midnight, against what    *)
(* the comment says: see DeferredStaysDue (schedule.go 43-134, 154-170).   *)
DueIsConsumed ==
  \A r \in Rules, k \in Occurrences :
    (current[r] = k /\ rules[r] = "enabled") ~>
      \/ state[r].key = k \/ current[r] # k
      \/ r \in over \/ rules[r] # "enabled" \/ target[r] \in barred

(* A start that was refused as its disk was busy is retried until it       *)
(* succeeds or the next occurrence comes (schedule.go 44-46; README.md     *)
(* 189-191). The code drops that of a weekly rule at midnight.             *)
DeferredStaysDue ==
  \A r \in Rules, k \in Occurrences :
    (current[r] = k /\ \E a \in attempts : a.rule = r /\ a.key = k /\ a.phase = "refused") ~>
      (state[r].key = k \/ current[r] # k)
=============================================================================

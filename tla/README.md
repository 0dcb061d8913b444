# Verification of the compaction orchestrator

The orchestrator runs `full compaction` on Storj storage nodes. Its one promise
(README.md:6) is that the nodes of a *disk group* are compacted strictly one at
a time, through crashes of the orchestrator, unreachable nodes and lost answers.
This directory holds TLA+ models of the code that keeps that promise, the TLC
runs that check them and the TLAPS proofs about them. File and line references
are to the repository.

## 1. Inventory

| Part | State | Operations | Interacts with |
|---|---|---|---|
| Disk queue (`orchestrator.go` 549-1117) | `state.Jobs`, `running` (group to job), per job its runs, `StopAfter`; locals of `runJob` | `startGroup(WithTrigger)`, `stopGroup`, `runJob`, `startNodeRun`, `resolveStart`, `reconcileCheckingNode`, `finishRunningNode`, `waitNodeJob`, `finishNodeRun` | node client (GET, POST), store (`Save` under `mu`), API and scheduler (callers) |
| Recovery (`orchestrator.go` 46-132) | the loaded state, `running` | `newOrchestrator`, `recoverableJobs` | store, starts one `runJob` per active job |
| Settings (`orchestrator.go` 299-519) | `state.Settings`, `ScheduleState`, `runtime` | `updateSettings`, `publicSettings` | store; admission reads groups and nodes |
| Scheduler (`schedule.go` 29-152) | `ScheduleState` (last due key, attempt, start, job, error), `scheduleSem` | `scheduleLoop`, `processSchedules`, `runSchedule` | `startGroupWithTrigger`, store |
| Schedule arithmetic (`schedule.go` 154-296) | none | `scheduleOccurrence`, `nextScheduleOccurrence`, `currentIntervalOccurrence`, `scheduleOccurrences` | scheduler, dashboard |
| State store (`store.go`) | SQLite tables, `last` (the last committed state) | `openStateStore`, `migrateSchema`, `load`, `Save`, `HistoryPage`, `HistoryStats` | everything that saves |
| Poller and dashboard (`orchestrator.go` 144-297) | `runtime` cache, `wake` | `pollLoop`, `pollAll`, `pollNode`, `dashboard` | node client |
| Node client (`node_client.go`) | none | `get`, `start` | storage nodes over HTTP |
| HTTP API and sessions (`api.go`) | password, session token (fixed at the start) | routing, login, logout | orchestrator |
| Process (`main.go`, service and compose files) | none | start, graceful shutdown | orchestrator |
| Settings and schedule page (`web/app.js` 663-1290, 1395-1419) | a draft of all settings (`state.settings`), `dirtySchedules`, `selectedSettingsGroup` | `loadSettings`, `saveSettings`, the handlers that edit the draft, `parseNodeImport` | `/api/settings`, overlapping calls |
| Dashboard page (`web/app.js` 182-660, 1324-1434) | `dashboard`, `history`, `filter.historyPage`, `sort.history`, `rewriteRates`, `reclaimedRounds` | `loadDashboard` (timer, clicks), `updateRewriteRates`, `updateReclaimedRounds`, rows, cards, pager | `/api/dashboard`, `/api/history`, commands |
| Login page (`web/login.js`) | the session cookie | submit | `/auth/login` |
| Translation (`web/i18n.js`) | the language | replaces texts | none |

What is hard here:

* **Concurrency.** API calls, scheduled starts, one runner goroutine per group,
  the poller and updates of the settings share one mutex, and every one of them
  lets go of it while it talks to a node. What was checked before an HTTP call
  may not hold after it (preflight 588-606, settings 359-508).
* **Crashes.** Memory is lost at any step; the database holds what the last
  successful save left. A POST may have been sent and its answer not saved.
* **Failing saves.** Admission, stop and settings undo themselves when a save
  fails; inside the runner a failed save is only logged.
* **The network.** A POST whose answer is lost, refused by a proxy or late; a
  node that is unreachable, restarts (and counts its jobs from 0 again) or is
  told to compact by somebody else.
* **Time.** Due keys of schedules, retries, calendar boundaries.
* **The page.** Nothing in it waits for anything: loads and saves overlap, their
  answers arrive in any order and replace what has been edited or shown since.
  The polls behind a dashboard overtake one another too, and counters start
  again with their node. Each of three views works out by itself what the server
  will accept.

What makes each part correct:

* *Queue*: one compaction per disk at a time; one start per node and job; a
  result counts only if it belongs to this job; the verdict agrees with the runs;
  a stop stops; the queue always comes to an end.
* *Admission*: fails closed on what it cannot verify; one job per group; a node
  is in one job at a time; what was admitted can be recovered.
* *Settings*: never drop a node a job needs, never revert what they do not touch.
* *Scheduler*: an occurrence starts one job at most, is skipped or deferred as
  README.md:187-192 says, and is not lost or doubled by a restart.
* *Store*: what load reads back is what was last saved; active jobs are never
  trimmed; a failed transaction changes nothing.
* *Settings page*: a draft can be saved unless the page says why not; what it shows
  as the server's (calendar, order of the queue) is the server's.
* *Dashboard page*: it ends up with the newest data as selected; a figure it computes
  never claims more than was done; it offers what will be accepted.
* *Login*: a page without a session leaves, and comes back once signed in.

The hazards behind these properties are listed with their lines in PROJECT.json.

## 2. Plan

Order: most important first. All of these exist.

1. `DiskQueue`: the queue of one group, with nodes, network and database.
   `DiskQueueHistory` and `QueueContract`/`DiskQueueContract` state what
   it promises; `DiskQueue_proofs` has types, mutual exclusion and the verdict, and
   `DiskQueueHistory_proofs` and `DiskQueueContract_proofs` the rest.
2. `Admission`, `Admission_proofs`: several groups, and settings that change between
   the look at a group and the admission of its job.
3. `Scheduler`, `Scheduler_proofs`: rules, attempts, retry interval and semaphore, with
   crashes.
4. `WebSettings`, `WebSettings_proofs`: drafts of the settings, the server's two halves
   of an update.
5. `WebRates`, `WebRates_proofs`: the polls, the cache, and the figures the page computes
   from them.
6. `WebDashboard`, `WebDashboard_proofs`: loads of the page, history pager, sessions.
7. `WebOffers`: what the page offers, on top of `Admission`; proved in `Admission_proofs`.

Each has an `MC` module with its bounds. `DiskQueueContract` and `DiskQueueHistory` are
about `DiskQueue`; `WebOffers` extends `Admission`; the others meet at the points named
in their sections: `Scheduler` takes from `Admission` that a start is admitted only for a
free disk and from `DiskQueue` that a queue ends, `WebRates` what a dashboard shows of a
queue.

Every invariant and every action property that a passing run checks is a theorem, but for
`ShownOrderIsQueueOrder`, and so is the refinement. Theorems to come: that order, that what `Admission` stores stays recoverable if no node is
removed, and that a job a restarted process finds is one of `DiskQueue`.

## 3. DiskQueue

### State and code

| Variable | Code |
|---|---|
| `node` | what a node answers to GET: number and state of its manual job (`manualCompactionJob`), whether it can be reached. `own` is not visible to the code: the running job was started by a POST of this orchestrator. |
| `job` | the group's latest job in `o.state.Jobs`: its state, and for each node its run's state, `PreviousJobID` (`prev`, -1 for nil) and `NodeJobID` (`id`). `StopAfter` is the job state "stopping". |
| `disk` | the same job as last committed; `s.last` of the store is equal to it. |
| `pc`, `todo`, `seen` | where `runJob` is, the nodes its loop has not left, its locals `failed` and `stopped`. `pc` = "free" is `o.running[group] == ""`, `pc` = "down" is no process. |
| `req` | calls of `startGroupWithTrigger` between line 581 and line 602: the nodes they want, and those the preflight has verified. |
| `wire`, `reply` | POSTs under way and the answer to the one the runner waits for. |
| `budget` | what is left of the bounds, see below. |

### Actions and code

| Actions | Code |
|---|---|
| `RequestStart`, `PreflightVerify`, `PreflightReject`, `AdmitConflict`, `Admit`, `AdmitUnsaved` | `startGroupWithTrigger` 557-649: first check, polls of *all* enabled nodes, second check under the lock, admission, rollback |
| `Stop` | `stopGroup` 699-718 |
| `SkipSettled`, `TakeQueued`, `TakeRunning`, `TakeChecking`, `FinishQueue` | `runJob` 720-850 |
| `ProbeFails`, `ProbeBaseline`, `SendStart`, `ReceiveAccepted`, `ReceiveRefused`, `StartAmbiguous`, `Resolve` | `startNodeRun` 852-921, `nodeClient.start`, `resolveStart` 1024-1048 |
| `ReconcileRequeue`, `ReconcileAdopt`, `ReconcileForeign`, `AwaitForeign` | `reconcileCheckingNode` 923-994 |
| `AwaitJob` | `finishRunningNode` and `waitNodeJob` 996-1082 |
| `FinishRun`, `WaitFor`, `Persist` | `finishNodeRun` 1084-1117, lines 903-920, `Save` (store.go 368-409) |
| `SaveElsewhere` | any other handler that calls `persistLocked`: `Save` writes the whole difference, so it also commits what this group failed to save |
| `Crash`, `Restart`, `RestartUnsaved`, `Repaired` | end of the process; `newOrchestrator` and `recoverableJobs` 46-132 |
| `HandleStart`, `NodeFinishes`, `ForeignStart`, `NodeRestarts`, `Disconnect`, `Reconnect` | the nodes and the network, external to the repository |

A poll of a node and the critical section after it are one step. This is sound
here because the section after a poll reads only the poll's result and the run
of the runner's current node, which no other goroutine writes. The polls that
find nothing new (node unreachable, job still running) change nothing and are the
absence of a step. The POST is split into sending, handling by the node and
receiving, with a crash possible between any two.

Left out: names, error texts, times, the totals before and after a run, the
node's automatic compactions (`Compacting` only makes the preflight reject more),
other groups except for `SaveElsewhere`, changes of the settings. `canceled` and
`interrupted` runs (754) behave as `failed` ones.

### Switches and bounds

`LateDelivery`, `GatewayErrors` and `LegacyDatabase` turn on what the environment
may do; `DisabledNodes` and `RefusingNodes` are nodes that answer in a special way.
`Budgets` is a set of records: the initial state picks one, and each event of a
kind (requests, stops, crashes, failed saves, foreign starts, node restarts,
outages) spends one unit. Nothing else is bounded: a requeued run is only queued
again after a crash. Each run takes several small budgets instead of one large
one, chosen so that every pair of events that can meet around a POST does meet:
two requests with two crashes and a stop, two requests with an outage and a
crash, two crashes with an outage and a foreign start, failed saves with a node
restart, a foreign start and an outage. Two nodes are enough for the exclusion
of pairs; runs about order and about special nodes have three.

### Fairness

`FairSpec` has weak fairness of the runner's steps for each node and of the
verdict (the goroutine is runnable whenever the action is enabled; every HTTP
call has the timeout of `newNodeClient`, so waiting for an answer ends), of `Restart`
(`Restart=on-failure` in the service file, `restart: unless-stopped` in
compose.yaml), and of the ends of compactions and outages, without which the code
waits on purpose (README.md:162-163, 170-172). Nothing is assumed of requests,
stops, saves or deliveries.

### Properties

| Property | Says |
|---|---|
| `TypeOK` | types |
| `Exclusion` | two nodes never run compactions of ours at once |
| `SingleStart` | a job starts each node once at most |
| `NoVacuousSuccess` | "succeeded" only if a compaction of that node succeeded since the admission |
| `VerdictMatchesRuns` | the verdict agrees with the runs, whatever was lost |
| `CommittedResultsStay` | the database never changes its mind about a settled run |
| `AdmissionFailsClosed` | every enabled node was seen free since the request came in |
| `StoppedNodesNeverStart` | a node queued when the stop was saved is never started |
| `QueueDrains` | an active job comes to an end |
| `ImplementsContract` | refinement of `QueueContract`, read off the database |
| `ReleasedQueueHasNoOpenRun` | README.md:167-170; does not hold, see 10 |

`DiskQueueHistory` adds the history variables four of them need; they constrain
nothing. `QueueContract` is what the README promises without processes, polls
or crashes: in order, one after the other, each node once, a stop takes no
further node. `DiskQueueContract` maps the *database* to it (`StoredQueue`, `StoredPhase`),
so that a crash is a stutter and what is refined is what a restarted process would find.

## 4. Admission

`DiskQueue` is about one group whose nodes never change. `Admission` is about what
lies between groups: the map `o.running`, the nodes each job reserves, and the
settings, which an operator may replace at any moment.

| Variable | Code |
|---|---|
| `settings` | `o.state.Settings`: the group of each listed node, and which are enabled |
| `jobs` | `o.state.Jobs`: group, state and nodes of each job. The ids, random in the code, are numbers used in turn |
| `running` | `o.running` |
| `saved` | both as last committed (`s.last` of the store) |
| `req` | calls of `startGroupWithTrigger` between lines 567 and 602 |
| `up`, `budget` | is there a process; what is left of the bounds |

| Actions | Code |
|---|---|
| `RequestStart`, `PreflightVerify`, `PreflightReject`, `AdmitConflict`, `Admit`, `AdmitUnsaved` | `startGroupWithTrigger` 549-649 with `groupNodesLocked` and `ensureNodesAvailableLocked` (`Conflict`) |
| `UpdateSettings` | the second lock section of `updateSettings`, 478-519 |
| `StopJob`, `FinishJob` | `stopGroup`; the end of `runJob` 819-850, whose save may fail |
| `Crash`, `Restart` | end of the process; `newOrchestrator`, with the refusals of `recoverableJobs` (`Recoverable`) |

What goes on inside a job is `DiskQueue`'s subject, so here it may end at any time,
and a preflight may find anything. Both only add behaviours. An update that is
refused or cannot be saved changes nothing and is the absence of a step; the keys,
addresses, schedules and times it also writes are left out. A restart that
`recoverableJobs` refuses is no step: the process exits.

`Layouts` are the settings an update may put in place, `Budgets` bounds updates,
crashes and failed saves as in `DiskQueue`. Nothing is fair: all properties are
about safety.

| Property | Says |
|---|---|
| `TypeOK` | types |
| `NodeInOneJob` | no node is in two active jobs, in memory or in the database, however nodes are moved meanwhile |
| `RunningMatchesJobs` | `o.running` is exactly the active jobs, through rollbacks and restarts |
| `OnlyAdmissionOrphans` | an active job whose node the settings do not list is never stored by anything but an admission |
| `AlwaysRecoverable` | README.md:167; does not hold, see 10 |

## 5. Scheduler

| Variable | Code |
|---|---|
| `rules`, `target`, `weekly`, `barred` | the rules of `o.state.Settings`: enabled, off or deleted; the disk or node each is for; those in weekly mode; and the nodes that are disabled |
| `current`, `over` | the occurrence of each rule whose time has come (its due key), and the weekly rules whose day has ended since |
| `state` | `o.state.ScheduleState`: `LastDueKey` (`key`), and whether `LastAttemptAt` is less than the retry interval ago (`fresh`) |
| `running`, `saved` | the active job of each group; states and jobs as last committed |
| `selected` | what `processSchedules` has picked and not handed over: its loop blocks on `scheduleSem` |
| `attempts` | `runSchedule` goroutines, one slot each, with what `startGroupWithTrigger` has found so far |
| `disturbed` | groups with a node that is offline or compacts on its own: the preflight refuses |
| `starts` | history: the jobs admitted for each due key since the rule last had it |

| Actions | Code |
|---|---|
| `ProcessSchedules` with `Due`, `Skipped`, `Picked` | `processSchedules` 43-98: due and not just tried; consumed behind a disk-wide queue, waiting behind a queue of one node, else one rule per disk in the order of the settings; the save may fail |
| `HandOver` | 99-110 |
| `Verify`, `Refuse`, `Admit`, `AdmitUnsaved`, `AdmitConflict`, `RecordError` | `runSchedule` 115-134 and `startGroupWithTrigger`, which stores job and occurrence together and takes both back |
| `NextOccurrence`, `Midnight`, `Elapse` | time, in place of the clock and of `scheduleOccurrence` 154-170 |
| `Update` with `SwitchRule`, `Retarget`, `SwitchNode`, `EditPattern`, `EditZone` | `updateSettings` 329-519: switches, deletion, another target, another time, day, interval or mode, another timezone |
| `Request`, `FinishJob`, `Disturb`, `Calm`, `Crash`, `Restart` | other starts, the end of a queue, nodes, the process |

A due key is a number; those of a rule grow while time passes. An edit of its pattern or of
the timezone makes the occurrence whose time has come any one, or none, as
`scheduleOccurrence` computes it anew from the edited rule: also one that the rule had before.
Only the last key is remembered, so such a rule is due once more. A rule moved back is a
case of its own (section 11) and `Arrive` counts the jobs of its occurrence from 0 again. A
new rule has a new id and no state, so the rules there are at the start stand for it. A node
stays on its disk here; `Admission` has the moves.

In the instance a rule for a whole disk and a weekly one for a node on it share one slot, so
that they compete for both; an edit may take either to a second disk. There are two keys, as
whatever goes wrong between occurrences goes wrong between one and another, and the
budgets are three occurrences with an outage; two with a request, a crash and a failed save;
two with an edit; and one with two edits, enough to move a rule and move it back.
`Fairness`: the loop ticks every 30 seconds; an attempt ends, for each of its requests has
the timeout of the node client; a queue ends (`QueueDrains`) and nodes come back; the
supervisor starts the process again. Nothing is assumed of when occurrences come, of edits, or
of the order of rules in the semaphore other than that a blocked loop goes on.

| Property | Says |
|---|---|
| `OccurrenceStartsOnce` | from the time an occurrence comes until the rule has another, it starts one job at most, through retries, rollbacks, edits and crashes |
| `ConsumedForAReason` | one is consumed by a job admitted for it or by a disk-wide queue, not by a failure |
| `DueIsConsumed` | one that has come is consumed, unless the next one or midnight comes first or the rule or its node is switched off |
| `DeferredStaysDue` | schedule.go:44-46; does not hold, see 10 |

## 6. WebSettings

| Variable | Code |
|---|---|
| `server`, `keys` | `o.state.Settings`, the API keys apart |
| `calls` | GET and PUT of `/api/settings` from their sending to their answer; a PUT is "checked" between the two locks of `updateSettings` and "committed" before its third, in `publicSettings` |
| `draft`, `dirty`, `selected` | of each page `state.settings`, `dirtySchedules`, `selectedSettingsGroup` |
| `received` | what the page got last; not in the code |

| Actions | Code |
|---|---|
| `AddGroup`, `DeleteGroup`, `AddNode`, `DeleteNode`, `EditNode`, `MoveNode` | the handlers of the settings view, with their refusals |
| `Import` | `parseNodeImport`: all of a list is checked before any of it is taken |
| `AddRule`, `EditRule`, `DeleteRule`, `EditZone` | the handlers of the schedule view and what they mark |
| `Load`, `Save`, `Receive`, `ReceiveError`, `Lose`, `Reload` | `loadSettings`, `saveSettings`, before and after the await |
| `Check`, `Commit`, `CommitRefused`, `Answer` | `updateSettings` 299-519, `publicSettings` |

Addresses are checked twice, by parsers that do not agree: `new URL` in the page (app.js
1083-1092, `PageTakes`) and `url.Parse` in the server (node_client.go 36-46, `ServerTakes`).
What the two take are arbitrary sets of addresses, none of them blank; nothing is assumed
about how they overlap, and in the instance each takes one that the other refuses.
`ValidKeys` are the keys of 32 bytes in base64, which both sides ask for. A disk keeps the
name that it is added with, which may be blank or the name of another; renaming one is not
an action.

The instance has two tabs (symmetric), four disks of which two have the same name and one
has none, two nodes stored and two more that can be added, two rules, addresses that are
equal only without their slash or only in lower case. The three budgets are three edits
around one call, two with two calls and a loss, and one with four calls: an
edit that goes wrong by itself needs one or two, and one that goes wrong with calls
needs a call of each tab or two of the same tab. Nothing is fair.

| Property | Says |
|---|---|
| `DraftIsConsistent` | nodes are on disks of the draft, rules have targets in it, whatever answers arrive between which edits |
| `CalendarShowsSavedRules` | the calendar never shows the server's times for a rule that differs from the server's answer |
| `ShownOrderIsQueueOrder` | the enabled nodes of a disk are listed in the order in which a job will take them |
| `ImportFailsOnlyForAddress` | a list the page accepts makes a good draft unsavable only by an address that the server alone refuses |

`Admission` has the same update as seen by the queues; here it may always be refused.

Sorting and filtering are one operator, `Arranged`: the elements at some places of a list,
each at its rank in an order. `Sorted` adds the place as the last criterion, which
is what a stable sort does. `Initial`, what the server starts with, is assumed to pass the
server's own checks and to have a timezone: it was once accepted (`updateSettings` turns an
empty timezone into UTC) or is the empty default. Lists of one and two entries are imported.

## 7. WebRates

| Variable | Code |
|---|---|
| `node` | a node's manual job, satellite and counter; `life` and `total` are not visible to the code and say what really happened |
| `runtime`, `late` | `o.runtime`; a poll that has its answer and not yet the lock of `pollNode` |
| `job`, `told` | the queue as a dashboard shows it; what its runner was told last |
| `dashboards` | an answer of `/api/dashboard` that others overtake |
| `rates`, `round` | `state.rewriteRates`, `state.reclaimedRounds`. `seen`, `from`, `to` are the polls a figure was made of; not in the code |

Actions: `PollNode`, `PollFails`, `PollSlowly`, `StoreLate` (`pollNode` 205-231, called by the
loop, the preflight and the runner); `StartJob` to `FinishJob` (the queue); `RestartServer`, `SwitchNode`;
`LoadDashboard`, `SendDashboard`, `ReceiveDashboard` with `UpdatedRate` and `UpdatedRound`
(`updateRewriteRates`, `updateReclaimedRounds`, app.js 182-259). A node may work, change its
work or be restarted between any two polls of it.

There is a window of two samples and a gap of one tick, so that both are exceeded. The
four starts each put one kind of trouble in the foreground: a restart (of node or server),
a change of work, a queue of two nodes with a restart or a switch of a node, a queue
with a change of work. At most one poll and one dashboard are overtaken at a time. Nothing
is fair.

Nodes are numbers in the order of the settings, as the queue takes them in that order
(720-850). The order matters: the figure of a disk adds what finished runs have reclaimed
(`done`) to what the current node has, so it would be wrong if a node could become
current a second time after another.

| Property | Says |
|---|---|
| `RateIsHonest` | a sample says no more than the node has done between its two polls, over a positive time |
| `SamplesAreContiguous` | the samples of a speed follow without a hole and belong to one job |
| `IncreaseIsHonest` | the last increase is no more than the current node has done between the dashboards it is made of, on the satellite shown |

## 8. WebDashboard and WebOffers

`WebDashboard` has the store by its number of jobs, the session of the process (`token`), the
`cookie` of the browser, the document that is open (`where`), and of the page `loads` (calls of
`loadDashboard`, each with its two requests), `page`, `sort`, `shown` and the error mark
`pulse`. Its actions are `Timer`, `ClickPage`, `ClickSort`, `Show`, `ShowError`, `Ignore` and
`LeavePage` (app.js 61-71, 524-528, 657-686, 1324-1368, 1434), `Open` and `Reload`, `Submit`,
`SignedIn`, `SignInRefused` (login.js), `Answer`, `AnswerSignIn`, `RestartServer` (api.go 202-270),
and an `OtherTab` that shares the cookie.

Two loads are enough for one to overtake the other; pages of one row make the number of
pages change with one job. One budget has clicks with a lost request and a job, the other
a restart, a lost request and another tab. `Fairness`: the timer of three seconds goes on,
requests are answered and answers handled, and a user at the login page tries the
right password in the end; nothing is assumed of clicks, losses and restarts. Deadlock is
checked: the timer always goes on.

| Property | Says |
|---|---|
| `HistoryPageExists` | no page of the history that does not exist is asked for or shown |
| `ShowsNewestAsSelected` | in the end the page shows the newest dashboard and the selected page and order, without an error mark |
| `EndedSessionLeaves` | a page whose session has ended leaves |
| `SignsIn` | the login page is left for good in the end |

`WebOffers` adds no state to `Admission`; its nodes are numbers, so that lists of them have an
order. It has what the page works out from a
dashboard: `groupContext`, `groupOperationRow`, `groupCard` and the button of `nodeRow`
(app.js 326-433, 533-622), for every cache of the poller. Both of its properties are asked in
the states of `Admission` without a request under way and with all saved.

| Property | Says |
|---|---|
| `ViewsAgree` | table, card and rows agree on status and buttons; a disk can be started iff each of its nodes can |
| `OfferedStartIsAccepted` | a start that is offered is accepted if nothing has changed since the poll, but for nodes moved under a job |

## 9. Runs

| Run | Instance | Shows |
|---|---|---|
| `queue_history` | 2 nodes, 2 requesters (symmetric), four budgets in which no crash loses an unsaved change | the seven properties of section 3 it lists |
| `hostile` | 3 nodes, one disabled, one refusing, all switches on, one of each event | bookkeeping and progress need none of the assumptions that exclusion needs |
| `contract` | 3 nodes, 2 requesters; two requests with a crash, or one with two crashes or a stop, a foreign start and an outage | the refinement |
| `released_queue`, `gateway_error` | 2 nodes, the smallest budget that shows it | the first two disagreements of section 10 |
| `admission` | 3 nodes on two disks, 3 jobs, 2 requesters (symmetric); node 1 stays, moves to the other disk or is removed; two updates, or one with a crash and a failed save | reservations across groups, that recovery is in danger from admissions only, and that the page offers what the server accepts |
| `removed_node` | 3 nodes, 1 requester, one update | the fourth disagreement |
| `scheduler` | 2 rules, 2 disks, 1 slot, 2 due keys, four budgets, section 5 | occurrences run once, through edits and crashes too, and are not lost |
| `lapsed_occurrence` | the same rules and disks, one occurrence and one outage | the third disagreement |
| `web_settings` | 2 tabs (symmetric), section 6 | drafts, calendar, order and imports through overlapping calls |
| `web_rates` | 2 nodes, 2 satellites, four starts, section 7 | the computed figures |
| `web_dashboard` | 2 loads, 2 columns, two budgets, section 8 | the page comes to rest on the newest data, and sessions |

But for `web_dashboard`, deadlock is not checked: with its budget spent and its queue
finished the system stops, as the real one does when nobody asks for anything.

`SingleStart` needs nodes that are not restarted after a crash: a node that has
forgotten the interrupted job is rightly started again. The contract is not
kept by a stop followed by a crash: that is the first finding.

Every property has a mutant: a definition like `PreflightVerifyBlindly` in `DiskQueue`,
`PayloadUnsorted` in `WebSettings` or `SampledFromStart` in `WebRates` is a plausible bug of
the definition it stands before, and makes the property fail.

## 10. Disagreements of the code with its documents

1. *A stopped queue recovered after a restart gives its disk away*
   (orchestrator.go:745, run `released_queue`). The loop begins at the first node,
   which is settled; as `StopAfter` is set and that state is not open, the
   loop ends there and never reaches the node still being compacted. README.md:167-170
   promises to wait for it. The next job's preflight keeps `Exclusion` while the
   node answers, but the run stays open in the history for ever.
2. *An HTTP error of a proxy is taken for the node's* (orchestrator.go:1026, run
   `gateway_error`). Any error but 409 ends the run without a look at the node,
   and the queue goes on beside the compaction it started.
3. *A deferred weekly occurrence lapses at midnight* (schedule.go:164, run
   `lapsed_occurrence`). The comment at schedule.go:44-46 says that a start refused
   for a passing reason remains due until the next occurrence, and README.md:189-191 that it
   waits for the disk and tries again. `scheduleOccurrence` knows a weekly occurrence only
   on its own day, so one that is still refused at midnight is dropped, days before
   the next. `DueIsConsumed` excuses this lapse and nothing else of the kind.
4. *A node removed while its job is being admitted keeps the process down*
   (orchestrator.go:604, run `removed_node`). `startGroupWithTrigger` looks at the
   settings before the preflight and not again when it admits the job;
   `updateSettings` refuses only to remove nodes of admitted jobs. The job is stored
   with the removed node, and from then on `recoverableJobs` (112-115) fails every
   start of the process, although README.md:167 promises to restore the queue.

A POST delivered after its client has given up (`LateDelivery`), and a legacy
failure without a node job number (`LegacyDatabase`, line 120 asks for one),
break `Exclusion` too. The code cannot see the one and repairs on purpose only what
is unambiguous in the other, so both are assumptions and not findings.

## 11. Observations

What came up while modelling and has no run of its own: most of it contradicts no document, and
where it does the item says so.

* A failed save inside a queue is only logged (orchestrator.go:772, 882, 916, 1112). After
  enough of them the database still has the first node queued while the second is being
  compacted (with two nodes this takes five), and a crash then makes recovery start the first
  node beside it. No run shows this; the proofs exclude it by `Reliable`, and `hostile` has
  failed saves with crashes for what does not depend on it.
* Nothing but the retry interval keeps an occurrence from being tried twice at once:
  `startGroupWithTrigger` does not look at `LastDueKey` again. `SlotsAssumption` states when
  that is enough: up to five disks for each of the twelve slots, so about sixty.
* An attempt under way still starts its queue when its rule is deleted or switched off
  meanwhile. The error of one that is refused writes a state for the deleted rule
  into memory only, where nobody reads it.
* Only the last due key of a rule is kept: a weekly rule that is moved to a later time,
  runs there, and is moved back on the same day is due again for a time it has
  already run at. No document says whether it should be; `OccurrenceStartsOnce` counts it
  as a new occurrence.
* Two overlapping updates of the settings: the second may restore a key the first has
  replaced, as it read the keys before (orchestrator.go:359-364). BULK_NODE_IMPORT.md:113-115
  says that a blank key keeps the saved one. `Check` and `Commit` have the overlap; no
  property states the promise, as it does not hold.
* The number a node has on its disk under "Queue position" counts the disabled nodes
  (app.js:723-726), which a queue leaves out (orchestrator.go:686). `ShownOrderIsQueueOrder`
  compares the order and not the numbers.
* The two checks of an address differ: the page takes `http:host:port` and `http://@host`,
  which the server refuses, and the server takes `http://host:99999`, which the page
  refuses. So an import that the page accepts may fail to be saved.
* What is edited while a save is under way is replaced by its answer.
* A poll of a node's life before a restart, stored after one of the life that followed,
  shows up as a gain if the new life has got further; `RateIsHonest` and
  `IncreaseIsHonest` exclude just that.
* The increase of a disk is kept while later dashboards show none, and while no node
  is current its key is that of the job alone.
* A delayed older answer of the history may move the selected page back
  (app.js:526).
* Table and card of a disk may name different nodes: the card leaves out a current node
  that is disabled. An empty disk is "no nodes" in the table and "idle" on its card.
* A node moved to another disk while a job holds it is shown with the job's disk, so a
  start offered for its new disk may be refused. `OfferedStartIsAccepted` excludes it.
* Without a session the server gives out the login page, its script and its styles,
  but not `i18n.js`: the login page is not translated then.

## 12. Proofs

The theorems hold for every value of the constants that the `ASSUME`s of the modules allow:
every number of nodes, groups, requests, tabs or calls, every budget. The only further
assumptions are the three named here, each about the environment.

| Assumption | Says | Without it |
|---|---|---|
| `Reliable` | no late POSTs, no proxy answers, no legacy database; a budget has failed saves or crashes, not both | `gateway_error`, the last paragraph of section 10, the first item of 11: two nodes run |
| `Steady` | `Reliable`, and a budget has node restarts or crashes, not both | a node that forgot its job is rightly started again |
| `Undisturbed` | `Reliable`, no failed saves, and a budget has stops or crashes, not both | `released_queue`; a failed save leaves the database behind the nodes |

Systems that satisfy them are checked in `queue_history` and `contract`. A budget with one
of two kinds of event may have as many of it as it likes.

| Module | Theorems, under the assumption |
|---|---|
| `DiskQueue_proofs` | `TypeCorrect`, `VerdictHolds`, `ResultsStay`; `ExclusionHolds` (`Reliable`) |
| `DiskQueueHistory_proofs` | `FailsClosed`, `SuccessObserved`; `StopHolds` (`Reliable`), `SingleStartHolds` (`Steady`) |
| `DiskQueueContract_proofs` | `ContractHolds` (`Undisturbed`) |
| `Admission_proofs` | `TypeCorrect`, `NodesAreReserved`, `ReservationsAreJobs`, `OrphansComeFromAdmission`; of `WebOffers` `ViewsAlwaysAgree`, `OffersAreAccepted` |
| `Scheduler_proofs` | `TypeCorrect`, `StartsAtMostOnce`, `ConsumedWithReason` |
| `WebSettings_proofs` | `TypeCorrect`, `DraftsAreConsistent`, `CalendarIsSaved`, `ImportsFailOnlyForAddress` |
| `WebRates_proofs` | `TypeCorrect`, `RatesAreHonest`, `SamplesFollow`, `IncreasesAreHonest` |
| `WebDashboard_proofs` | `TypeCorrect`, `PagesAlwaysExist` |

Each proof has a lemma per action or group of actions that says the inductive invariant
is kept, and one lemma that puts them together. The invariants were checked with TLC first.

### DiskQueue

`TypeOK` is not inductive: the result of a node job is written into
the run (1005-1006) and "idle" is no run state. `NumberInv` says why that cannot
happen: a node is idle iff its job number is 0, and the runner never awaits
number 0.

`IInv`, the inductive invariant behind `ExclusionHolds`, consists of

* `NodeInv`: a compaction of ours is a running one, on a node that takes POSTs;
* `StoreInv`: as long as a crash may come, memory and database agree;
* `OrderInv`: settled runs, then one open run at most, then queued ones;
* `RunInv`: a run that is "running" has a node job number;
* `RunnerInv`: where the runner is determines the state of its node's run;
* `WireInv`: a POST is under way only for the run being checked, whose baseline is
  known;
* `OwnerInv`: a compaction of ours belongs to an open run of the active job. With
  `OrderInv` this gives `Exclusion` while a job is active;
* `RequestInv`: what a preflight has verified stays free of our compactions until
  the next admission. It carries `Exclusion` from one job to the next.

Why `OwnerInv` survives a crash around the POST: the baseline is saved before the
POST is sent, so a recovered run either has no baseline and nothing was
sent, or has one and the node's number tells. There is one lemma per group of
actions for the types and the numbers, and one per kind of step for `SafetyInv`.

`HonestInv`, behind the verdict, needs no reliable environment. Besides types and numbers:

* `PlaceInv`: where the runner is says what state the run of its node has;
* `VerdictInv`: a finished job, in memory and in the database, has the verdict its runs
  call for; of an active one, the nodes the loop has left are settled, and `seen.failed`
  tells whether one of them has not succeeded (`CollectInv`);
* `AgreeInv`: where the database has settled a run of the job in memory, memory says the
  same. Hence `ResultsStay`, though the two differ after a failed save.

`DiskQueueHistory_proofs` adds to these

* `ClearInv`: what a request has verified was seen free since the request came;
* `ReplyInv` and `SuccessInv`: if the node's job that a run awaits, or that an accepted POST
  names, has succeeded, it was one observed at work since the admission. So a success
  recorded, in memory or in the database, is one too;
* `FrozenInv`: nodes queued when the stop was saved are queued or skipped until the next
  job;
* `StartInv`: each node has been started once at most, not at all while it is queued or its
  POST is under way; and if the reconciliation may yet ask whether it was, the job number of
  the node is above the saved baseline. `CalmInv` says that while nodes may restart
  there is nothing to reconcile.

`DiskQueueContract_proofs` maps each step to one of `QueueContract` or to none, from `IInv`
and two facts: `SavedInv`, the database equals the memory, and `StopInv`, a queue that
is or may be told to stop is never interrupted. Taking a queued node, a run becoming
"running", its end, the admission, the stop, the skip and the verdict are steps of
the contract; polls, requests, crashes, restarts and everything in the nodes are none.

### Admission and WebOffers

`IInv` adds to `TypeOK`, `NodeInOneJob` and `RunningMatchesJobs`

* `Disjoint`: an active job belongs to a group, so that the check by groups in
  `Conflict` reaches it, and shares no node with another. It holds of the memory
  and of the database separately, as a failed save of a verdict lets them differ;
* `RequestInv`: a request under way is for a group;
* `StoreInv`: the database has the same settings, and every job that is active in
  memory, with the same nodes. It may have more. This is why a save stores no
  job without its node unless it has just been admitted.

The two theorems about the page follow from it: a reservation that the row of a node finds
is the one that `Conflict` finds, and the job that the card of a disk shows is the one that
`running` has.

### Scheduler

That attempts end within the retry interval is in the guard of `Elapse`, which is
where `SlotsAssumption` stands for the code's timing. `IInv` adds to the types

* `OneClaim`: what is picked or being tried is one occurrence of a rule at most;
* `ClaimsOpen`: no job was started for it, nor for an occurrence that an edit has put in its
  place meanwhile, and its rule is not due again: tried a moment ago, or deleted since;
* `StartsInv`: an occurrence that has started a job is consumed, in memory and in the
  database, as long as the rule has it. This is what a crash leaves, and why the job and the
  occurrence must be in one save.

What an edit does is in `ArriveFacts`: a key that is new to the rule has no job yet, so both
parts hold of it at once, and the key of an attempt under way stays claimed though the rule
has another.

### WebSettings

First about lists: in a total order of finitely many places ranks are numbers from 1, each
taken once (`RankOrder`, `RankReached`), so that sorting and filtering keep the elements
(`ArrangedElements`) and the types.

`IInv` has for each page that its draft is consistent (`Consistent`), that its selection is a
disk of it, and that rules without a mark are as received, in the timezone received
(`Marked`). Cleaning an empty timezone before a save marks nothing (936-939); `Good`, what the
server sends always has a timezone, is why that is right. `CallInv` has for each
call that its answer is `Good`, that what was sent has a timezone, and that what was checked
is well formed.

`ImportsFailOnlyForAddress` compares the page's checks with the server's: addresses equal to
the server are equal in the page's stricter sense, entries get ids that nobody uses, and a
valid key and a name are required, so nothing but the parser of addresses is left to differ.
`ImportSavable` states it for a list of any length.

### WebRates

`IInv` orders what is known of a node in time. What the cache, an overtaken poll, the
dashboards and the page know are moments of one history: none is ahead of the node, and from
one to another of the same life the counters grow as much as the node has reclaimed in
between; a later life has counted only what came after (`KnownInv`). `Chain` has that the
samples follow, up to the poll seen last, and each is honest.
`QueueInv` has that the current node is the first open one. `Agree` is the heart of
`IncreasesAreHonest`: all dashboards on their way, and the page, claim the same `done` for the
same job and current node, and it is right as long as the node is not done. Otherwise
two dashboards that overtake each other could make an increase out of a finished run.

### WebDashboard

`IInv` needs more than the pages that are shown: each load asks for a page that exists
for the jobs there are, its answer counts no more jobs than there are, and the page
selected exists for the count shown (`Exists`). Jobs are only added, so an older answer
keeps existing pages; the pager's rounding up is done in `RoundedUp` and `PagesExist`.

### Checked by TLC only

Liveness: `QueueDrains`, `DueIsConsumed`, `ShowsNewestAsSelected`, `EndedSessionLeaves`,
`SignsIn`. The prover has no rules for fairness and `ENABLED`. `ShownOrderIsQueueOrder`, for
which a theorem is planned, is checked on lists of up to four nodes. The four disagreements
are counterexamples that TLC finds.

## 13. Not modelled

* Schedule arithmetic (schedule.go 154-296): calendars, time zones and daylight saving
  are those of Go's `time` package. `Scheduler` takes from it that an occurrence has one
  key, and when it lapses.
* The rows of the database: what `load` reads back, the trim of loaded jobs, `migrateSchema`,
  `HistoryStats`. A save is one step that succeeds or fails. The trim is thousands of jobs
  away from any bound TLC can explore.
* The totals of a finished run (1119-1146), an account no decision depends on;
  `IncreaseIsHonest` covers the same counters where the page subtracts them.
* The HTTP layer: routing, decoding, status codes. Its sessions are in `WebDashboard`.
* Of the page: `i18n.js`, the export and the clipboard, filters, expanded rows, the
  sorting of tables in the browser, layout. They read the state that is modelled and no
  other state depends on them.

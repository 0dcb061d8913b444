------------------------------ MODULE WebRates ------------------------------
(***************************************************************************)
(* The figures that the page computes by itself (web/app.js): the speed at *)
(* which a node rewrites, from the dashboards of the last polls, and the   *)
(* last increase of what the current job has reclaimed. The counters they  *)
(* rest on start again at zero with the node; the polls of a node overtake *)
(* one another on their way into the runtime cache (pollNode), and so do   *)
(* the dashboards on their way to the page.                                *)
(*                                                                         *)
(* A node's counters of rewritten and of reclaimed bytes are read by       *)
(* different code and grow alike: one counter stands for both.             *)
(***************************************************************************)
EXTENDS Integers, Sequences, FiniteSets, FiniteSetsExt

CONSTANTS
  Nodes,    \* by position in the settings
  Satellites,
  Window,   \* REWRITE_RATE_WINDOW
  MaxGap,   \* REWRITE_RATE_MAX_GAP_SECONDS, in ticks of the clock
  MaxPause, \* bound on the time between two polls
  Starts    \* enabled nodes, nodes at work, and bounds on what can happen

BudgetKinds == {"work", "bytes", "polls", "jobs", "loads", "faults"}
NoSatellite == "no satellite"
NoNode == 0
NoJob == 0

ASSUME NodesAssumption == Nodes \subseteq Nat \ {NoNode} /\ NoSatellite \notin Satellites
ASSUME RateAssumption == Window \in Nat \ {0} /\ MaxGap \in Nat /\ MaxPause \in Nat
ASSUME StartsAssumption ==
  Starts \subseteq [enabled : SUBSET Nodes,
                   working : [Nodes -> Satellites \cup {NoSatellite}],
                   budget : [BudgetKinds -> Nat]]

VARIABLES
  clock,      \* the latest time a poll was stamped with
  node,       \* each storage node
  enabled,    \* the nodes that are enabled in the settings
  late,       \* a poll that is answered and not yet stored
  told,       \* what the runner has been told by the current node
  runtime,    \* o.runtime
  job,        \* the job of the group
  dashboards, \* dashboards on their way to the page
  rates,      \* state.rewriteRates
  round,      \* state.reclaimedRounds of the group
  budget

nodeVars == <<node, clock>>
serverVars == <<enabled, late, told, runtime, job>>
pageVars == <<rates, round>>
vars == <<nodeVars, serverVars, dashboards, pageVars, budget>>

(* A node: the manual job that is running (the code compares its id and    *)
(* start time: a number), the satellite that is being compacted, and the   *)
(* counter. Not in the code: life counts the restarts of the node, and     *)
(* total is all it has ever done.                                          *)
Infos == [manual : Nat, satellite : Satellites \cup {NoSatellite},
          counter : Nat, life : Nat, total : Nat]
NoInfo == [manual |-> 0, satellite |-> NoSatellite, counter |-> 0, life |-> 0, total |-> 0]

(* An answer to pollNode, if ok. runner: it is the runner who asked.       *)
Answers == [node : Nodes \cup {NoNode}, runner : BOOLEAN, ok : BOOLEAN, info : Infos]
NoAnswer == [node |-> NoNode, runner |-> FALSE, ok |-> FALSE, info |-> NoInfo]
Untold == -1

Runtimes == [online : BOOLEAN, known : BOOLEAN, info : Infos, checkedAt : Nat]
NoRuntime == [online |-> FALSE, known |-> FALSE, info |-> NoInfo, checkedAt |-> 0]

(* "absent": not in the queue; "current": checking or running. based are   *)
(* the nodes with a baseline, done is what the finished runs have reclaimed *)
(* together.                                                               *)
Jobs == [id : Nat, current : Nodes \cup {NoNode},
         state : [Nodes -> {"absent", "queued", "current", "done"}],
         based : SUBSET Nodes, before : [Nodes -> Nat], done : Nat]
JobNumber(id, queue) ==
  [id |-> id, current |-> NoNode,
   state |-> [n \in Nodes |-> IF n \in queue THEN "queued" ELSE "absent"],
   based |-> {}, before |-> [n \in Nodes |-> 0], done |-> 0]

Dashboards == [enabled : SUBSET Nodes, runtime : [Nodes -> Runtimes], job : Jobs]

(* What the page knows of a node, NoRate if it is not in the map. The code *)
(* has neither seen, the poll of its last dashboard, nor the two polls     *)
(* beside each sample.                                                     *)
Sessions == [manual : Nat, satellite : Satellites \cup {NoSatellite}]
NoSession == [manual |-> 0, satellite |-> NoSatellite]
Samples == [bytes : Int, seconds : Int, from : Infos, to : Infos]
Rates == [session : Sessions, checkedAt : Nat, rewritten : Nat, seen : Infos,
          samples : Seq(Samples)]
NoRate == [session |-> NoSession, checkedAt |-> 0, rewritten |-> 0, seen |-> NoInfo,
           samples |-> <<>>]

Keys == [id : Nat, node : Nodes \cup {NoNode}, satellite : Satellites \cup {NoSatellite}]
NoKey == [id |-> NoJob, node |-> NoNode, satellite |-> NoSatellite]
(* last is 0 for null. seen is the dashboard of bytes, and from and to are *)
(* those of last; the code has neither.                                    *)
Evidence == [before : Int, info : Infos]
NoEvidence == [before |-> -1, info |-> NoInfo]
Rounds == [key : Keys, bytes : Nat, last : Nat, seen : Evidence, from : Evidence, to : Evidence]
NoRound == [key |-> NoKey, bytes |-> 0, last |-> 0,
            seen |-> NoEvidence, from |-> NoEvidence, to |-> NoEvidence]

TypeOK ==
  /\ clock \in Nat
  /\ node \in [Nodes -> Infos]
  /\ enabled \subseteq Nodes
  /\ late \in [answer : Answers, since : Nat] /\ told \in Nat \cup {Untold}
  /\ runtime \in [Nodes -> Runtimes]
  /\ job \in Jobs
  /\ dashboards \subseteq Dashboards
  /\ rates \in [Nodes -> Rates]
  /\ round \in Rounds
  /\ budget \in [BudgetKinds -> Nat]

Spend(kind) ==
  budget[kind] > 0 /\ budget' = [budget EXCEPT ![kind] = budget[kind] - 1]

-----------------------------------------------------------------------------
(* The nodes.                                                              *)

(* What a node is up to, manual job and satellite, and the counter when it *)
(* is asked: it may have done some work since, may work on something else, *)
(* and may have been restarted, which ends its manual job. A new manual    *)
(* job has a number of its own.                                            *)
Since(n, restarted, manual, satellite, bytes) ==
  LET start == IF restarted THEN 0 ELSE node[n].counter IN
  [manual |-> manual, satellite |-> satellite,
   counter |-> start + bytes, life |-> node[n].life + (IF restarted THEN 1 ELSE 0),
   total |-> node[n].total + bytes]

Cost(n, restarted, manual, satellite, bytes) ==
  [budget EXCEPT !["polls"] = @ - 1,
                 !["faults"] = IF restarted THEN @ - 1 ELSE @,
                 !["bytes"] = @ - bytes,
                 !["work"] = IF <<manual, satellite>> = <<node[n].manual, node[n].satellite>>
                             THEN @ ELSE @ - 1]
Affordable(costs) == \A kind \in BudgetKinds : costs[kind] >= 0

(* A node is asked by the loop over the enabled nodes, the preflight of a  *)
(* start or the runner of the queue: it answers ...                        *)
Asked(n, runner) == IF runner THEN n = job.current ELSE n \in enabled

Answer(n, runner, restarted, manual, satellite, bytes) ==
  /\ Asked(n, runner)
  /\ restarted => manual # node[n].manual \/ manual = 0
  /\ Affordable(Cost(n, restarted, manual, satellite, bytes))
  /\ budget' = Cost(n, restarted, manual, satellite, bytes)
  /\ node' = [node EXCEPT ![n] = Since(n, restarted, manual, satellite, bytes)]

(* ... or it does not.                                                     *)
NoReply(n, runner) == Asked(n, runner) /\ Spend("polls") /\ UNCHANGED node

-----------------------------------------------------------------------------
(* The server.                                                             *)

(* pollNode takes the time and then the lock, so the time may be older     *)
(* than the one that is stored. Without an answer the last known info      *)
(* stays. The runner goes on with what it was told itself.                 *)
Store(a, at) ==
  /\ clock' = Max({clock, at})
  /\ runtime' = [runtime EXCEPT ![a.node] =
                   [online |-> a.ok, known |-> a.ok \/ @.known,
                    info |-> IF a.ok THEN a.info ELSE @.info, checkedAt |-> at]]
  /\ told' = IF a.runner /\ a.node = job.current /\ a.ok THEN a.info.counter ELSE told
  /\ UNCHANGED <<enabled, job, dashboards, pageVars>>

PollNode(n, runner, restarted, manual, satellite, bytes, at) ==
  /\ Answer(n, runner, restarted, manual, satellite, bytes)
  /\ Store([node |-> n, runner |-> runner, ok |-> TRUE, info |-> node'[n]], at)
  /\ UNCHANGED late

PollFails(n, runner, at) ==
  /\ NoReply(n, runner)
  /\ Store([NoAnswer EXCEPT !.node = n, !.runner = runner], at)
  /\ UNCHANGED late

(* A poll that others overtake between its answer and its place in the     *)
(* cache.                                                                  *)
PollSlowly(n, runner, restarted, manual, satellite, bytes) ==
  /\ late.answer = NoAnswer
  /\ Answer(n, runner, restarted, manual, satellite, bytes)
  /\ late' = [answer |-> [node |-> n, runner |-> runner, ok |-> TRUE, info |-> node'[n]],
              since |-> clock]
  /\ UNCHANGED <<clock, enabled, told, runtime, job, dashboards, pageVars>>

NothingLate == [answer |-> NoAnswer, since |-> 0]
StoreLate(at) ==
  /\ late.answer # NoAnswer /\ at >= late.since
  /\ Store(late.answer, at)
  /\ late' = NothingLate
  /\ UNCHANGED <<node, budget>>

(* The queue, as far as a dashboard shows it.                              *)
StartJob ==
  /\ job.id = NoJob
  /\ Spend("jobs")
  /\ job' = JobNumber(budget["jobs"], enabled)
  /\ UNCHANGED <<nodeVars, enabled, late, told, runtime, dashboards, pageVars>>

(* The loop of runJob takes the first node that is still queued.           *)
CheckNode(n) ==
  /\ job.id # NoJob /\ job.current = NoNode /\ job.state[n] = "queued"
  /\ \A m \in Nodes : job.state[m] = "queued" => n <= m
  /\ job' = [job EXCEPT !.current = n, !.state[n] = "current"]
  /\ told' = Untold
  /\ UNCHANGED <<nodeVars, enabled, late, runtime, dashboards, pageVars, budget>>

Baseline(n) ==
  /\ job.current = n /\ told # Untold
  /\ job' = [job EXCEPT !.based = @ \cup {n}, !.before[n] = told]
  /\ UNCHANGED <<nodeVars, enabled, late, told, runtime, dashboards, pageVars, budget>>

(* finishNodeRun, with the info of the last poll or without one.           *)
FinishNode(n, informed) ==
  /\ job.current = n
  /\ informed => told # Untold
  /\ job' = [job EXCEPT !.current = NoNode, !.state[n] = "done",
                        !.done = IF informed /\ n \in job.based
                                   THEN @ + Max({0, told - job.before[n]}) ELSE @]
  /\ UNCHANGED <<nodeVars, enabled, late, told, runtime, dashboards, pageVars, budget>>

FinishJob ==
  /\ job.id # NoJob /\ job.current = NoNode
  /\ job' = JobNumber(NoJob, {})
  /\ UNCHANGED <<nodeVars, enabled, late, told, runtime, dashboards, pageVars, budget>>

(* The process is restarted: what was polled is forgotten, the job is read *)
(* back, and a run that was being checked may be queued again.             *)
RestartServer ==
  /\ Spend("faults")
  /\ runtime' = [n \in Nodes |-> NoRuntime]
  /\ late' = NothingLate /\ told' = Untold
  /\ job' \in {job, [job EXCEPT !.current = NoNode,
                                !.state = [n \in Nodes |-> IF @[n] = "current" THEN "queued" ELSE @[n]]]}
  /\ UNCHANGED <<nodeVars, enabled, dashboards, pageVars>>

(* updateSettings switches a node off or on.                               *)
SwitchNode(n) ==
  /\ Spend("faults")
  /\ enabled' = IF n \in enabled THEN enabled \ {n} ELSE enabled \cup {n}
  /\ UNCHANGED <<nodeVars, late, told, runtime, job, dashboards, pageVars>>

-----------------------------------------------------------------------------
(* The page.                                                               *)

(* rewriteSession, NoSession for ''.                                       *)
Session(d, n) ==
  LET info == d.runtime[n].info IN
  IF n \notin d.enabled \/ ~d.runtime[n].online THEN NoSession
  ELSE [manual |-> info.manual,
        satellite |-> IF info.manual # 0 THEN NoSatellite ELSE info.satellite]

(* Mutant: the last counter is kept when a sample is taken.                *)
SampledFromStart(rate, r) ==
  LET sample == [bytes |-> r.info.counter - rate.rewritten,
                 seconds |-> r.checkedAt - rate.checkedAt, from |-> rate.seen, to |-> r.info]
      samples == Append(rate.samples, sample)
  IN [rate EXCEPT !.checkedAt = r.checkedAt, !.seen = r.info,
                  !.samples = IF Len(samples) > Window THEN Tail(samples) ELSE samples]

Sampled(rate, r) ==
  LET sample == [bytes |-> r.info.counter - rate.rewritten,
                 seconds |-> r.checkedAt - rate.checkedAt, from |-> rate.seen, to |-> r.info]
      samples == Append(rate.samples, sample)
  IN [rate EXCEPT !.checkedAt = r.checkedAt, !.rewritten = r.info.counter, !.seen = r.info,
                  !.samples = IF Len(samples) > Window THEN Tail(samples) ELSE samples]

(* Mutant: the session is not compared.                                    *)
UpdatedRateAnySession(rate, d, n) ==
  LET session == Session(d, n)
      r == d.runtime[n]
      gap == r.checkedAt - rate.checkedAt
      reset == [session |-> session, checkedAt |-> r.checkedAt,
                rewritten |-> r.info.counter, seen |-> r.info, samples |-> <<>>]
  IN IF session = NoSession THEN NoRate
     ELSE IF rate = NoRate \/ gap < 0 \/ r.info.counter < rate.rewritten \/ gap > MaxGap THEN reset
     ELSE IF gap = 0 THEN rate
     ELSE Sampled([rate EXCEPT !.session = session], r)

(* updateRewriteRates for one node.                                        *)
UpdatedRate(rate, d, n) ==
  LET session == Session(d, n)
      r == d.runtime[n]
      gap == r.checkedAt - rate.checkedAt
      reset == [session |-> session, checkedAt |-> r.checkedAt,
                rewritten |-> r.info.counter, seen |-> r.info, samples |-> <<>>]
  IN IF session = NoSession THEN NoRate
     ELSE IF \/ rate.session # session \/ gap < 0 \/ gap > MaxGap
             \/ r.info.counter < rate.rewritten THEN reset
     ELSE IF gap = 0 THEN rate
     ELSE Sampled(rate, r)

(* Mutant: a counter that started again is subtracted from.                *)
JobBytesUnchecked(d) ==
  LET n == d.job.current IN
  IF n \in d.job.based /\ d.job.state[n] = "current" /\ d.runtime[n].known
    THEN d.job.done + d.runtime[n].info.counter - d.job.before[n]
    ELSE d.job.done

(* jobCounterBytes: what the finished runs have reclaimed, and what the    *)
(* current node has since its baseline.                                    *)
JobBytes(d) ==
  LET n == d.job.current IN
  IF /\ n \in d.job.based /\ d.job.state[n] = "current"
     /\ d.runtime[n].known /\ d.runtime[n].info.counter >= d.job.before[n]
    THEN d.job.done + d.runtime[n].info.counter - d.job.before[n]
    ELSE d.job.done

RoundKey(d) ==
  LET n == d.job.current IN
  [id |-> d.job.id, node |-> n,
   satellite |-> IF n = NoNode THEN NoSatellite ELSE d.runtime[n].info.satellite]

EvidenceOf(d) ==
  LET n == d.job.current IN
  IF n = NoNode THEN NoEvidence
  ELSE [before |-> IF n \in d.job.based THEN d.job.before[n] ELSE -1, info |-> d.runtime[n].info]

(* Mutant: only the job is compared.                                       *)
UpdatedRoundSameJob(old, d) ==
  LET key == RoundKey(d)
      bytes == JobBytes(d)
      seen == EvidenceOf(d)
  IN IF d.job.id = NoJob THEN NoRound
     ELSE IF old.key.id # key.id \/ bytes < old.bytes
     THEN [NoRound EXCEPT !.key = key, !.bytes = bytes, !.seen = seen]
     ELSE IF bytes = old.bytes THEN [old EXCEPT !.key = key, !.seen = seen]
     ELSE [old EXCEPT !.key = key, !.bytes = bytes, !.last = bytes - old.bytes, !.seen = seen,
                      !.from = old.seen, !.to = seen]

(* updateReclaimedRounds for the group.                                    *)
UpdatedRound(old, d) ==
  LET key == RoundKey(d)
      bytes == JobBytes(d)
      seen == EvidenceOf(d)
  IN IF d.job.id = NoJob THEN NoRound
     ELSE IF old.key # key \/ bytes < old.bytes
     THEN [NoRound EXCEPT !.key = key, !.bytes = bytes, !.seen = seen]
     ELSE IF bytes = old.bytes THEN [old EXCEPT !.seen = seen]
     ELSE [old EXCEPT !.bytes = bytes, !.last = bytes - old.bytes, !.seen = seen,
                      !.from = old.seen, !.to = seen]

(* loadDashboard: the page gets dashboard() as it is now, or one that was  *)
(* on its way longer than others.                                          *)
Show(d) ==
  /\ rates' = [n \in Nodes |-> UpdatedRate(rates[n], d, n)]
  /\ round' = UpdatedRound(round, d)
  /\ UNCHANGED <<nodeVars, serverVars>>

Snapshot == [enabled |-> enabled, runtime |-> runtime, job |-> job]
LoadDashboard == Spend("loads") /\ Show(Snapshot) /\ UNCHANGED dashboards

SendDashboard ==
  /\ dashboards = {}
  /\ Spend("loads")
  /\ dashboards' = {Snapshot}
  /\ UNCHANGED <<nodeVars, serverVars, pageVars>>

ReceiveDashboard(d) == Show(d) /\ dashboards' = dashboards \ {d} /\ UNCHANGED budget

-----------------------------------------------------------------------------
Init ==
  /\ clock = 0
  /\ late = NothingLate /\ told = Untold
  /\ runtime = [n \in Nodes |-> NoRuntime]
  /\ job = JobNumber(NoJob, {})
  /\ dashboards = {}
  /\ rates = [n \in Nodes |-> NoRate]
  /\ round = NoRound
  /\ \E start \in Starts :
       /\ enabled = start.enabled
       /\ node = [n \in Nodes |-> [NoInfo EXCEPT !.satellite = start.working[n]]]
       /\ budget = start.budget

RunnerNext(n) ==
  \/ CheckNode(n) \/ Baseline(n)
  \/ \E informed \in BOOLEAN : FinishNode(n, informed)

(* Bounds: how much later a poll is, and what a node does between two.     *)
Times == clock .. clock + MaxPause
Amounts == 0 .. 1
PollNext(n, runner) ==
  /\ budget["polls"] > 0 /\ Asked(n, runner)
  /\ \/ \E manual \in {0, node[n].manual, budget["work"]},
           satellite \in Satellites \cup {NoSatellite}, bytes \in Amounts, restarted \in BOOLEAN :
          \/ \E at \in Times : PollNode(n, runner, restarted, manual, satellite, bytes, at)
          \/ PollSlowly(n, runner, restarted, manual, satellite, bytes)
     \/ \E at \in Times : PollFails(n, runner, at)

Next ==
  \/ \E n \in Nodes, runner \in BOOLEAN : PollNext(n, runner)
  \/ \E n \in Nodes : RunnerNext(n) \/ SwitchNode(n)
  \/ \E at \in late.since .. clock + MaxPause : StoreLate(at)
  \/ StartJob \/ FinishJob \/ RestartServer
  \/ LoadDashboard \/ SendDashboard
  \/ \E d \in dashboards : ReceiveDashboard(d)

Spec == Init /\ [][Next]_vars

-----------------------------------------------------------------------------
(* Properties.                                                             *)

(* A sample of the speed never says more than the node has done between    *)
(* the two polls it is made of, and its time is never zero or negative: a  *)
(* restart of the node or the server, a poll that is stored late and       *)
(* dashboards in any order only lose samples. The exception is a poll of   *)
(* the node's life before a restart that is stored after one of the life   *)
(* that followed (app.js 182-225; orchestrator.go 213-231).                *)
RateIsHonest ==
  \A n \in Nodes : \A i \in DOMAIN rates[n].samples :
    LET sample == rates[n].samples[i] IN
      /\ sample.seconds \in 1 .. MaxGap
      /\ sample.from.life <= sample.to.life =>
           sample.bytes \in 0 .. sample.to.total - sample.from.total

(* The samples of a node follow one another without a hole and are of one  *)
(* manual job: their sum is what was done over their time, as the speed is *)
(* computed from it (app.js 193-219).                                      *)
SamplesAreContiguous ==
  \A n \in Nodes : LET samples == rates[n].samples IN
    /\ Len(samples) <= Window
    /\ \A i \in 1 .. Len(samples) - 1 : samples[i].to = samples[i + 1].from
    /\ \A i \in DOMAIN samples : {samples[i].from.manual, samples[i].to.manual} = {rates[n].session.manual}

(* The last increase shown for a disk is no more than the current node has *)
(* done between the two dashboards it is made of, on the satellite that is *)
(* shown, as long as the baseline stays, with the same exception           *)
(* (app.js 231-259, 316-324).                                              *)
IncreaseIsHonest ==
  (/\ round.last > 0 /\ round.key.node # NoNode /\ round.from.before = round.to.before
   /\ round.from.info.life <= round.to.info.life) =>
     /\ round.last <= round.to.info.total - round.from.info.total
     /\ round.from.info.satellite = round.key.satellite
     /\ round.to.info.satellite = round.key.satellite
=============================================================================

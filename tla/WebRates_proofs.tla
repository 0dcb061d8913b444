--------------------------- MODULE WebRates_proofs ---------------------------
(***************************************************************************)
(* The figures of the page are honest, whatever the nodes, the order of    *)
(* polls and dashboards, and however long it goes on. Everything that is   *)
(* known of a node is a moment of one history (KnownInv): this makes the   *)
(* samples honest. For the last increase the queue matters as well: what   *)
(* the finished runs have reclaimed is the same in all dashboards that     *)
(* show one job at one node (Agree), because the loop of the queue goes    *)
(* through the nodes in order.                                             *)
(***************************************************************************)
EXTENDS WebRates, SequenceTheorems, TLAPS

(* What the page, the cache, a late poll and a dashboard know of node n    *)
(* are moments of one history.                                             *)
Known(n) ==
  {NoInfo, node[n], runtime[n].info, rates[n].seen}
    \cup {d.runtime[n].info : d \in dashboards}
    \cup (IF late.answer.node = n THEN {late.answer.info} ELSE {})
    \cup (IF round.key.node = n THEN {round.seen.info} ELSE {})

(* Two moments of one life differ as much in the counter as in the total,  *)
(* and a later life has counted only what came after the earlier one.      *)
Honest(a, b) ==
  /\ a.life = b.life => b.total - a.total = b.counter - a.counter
  /\ a.life < b.life => a.total <= b.total - b.counter

Ahead(a, b) == a.life <= b.life /\ a.total <= b.total /\ Honest(a, b)

KnownInv ==
  \A n \in Nodes : \A a \in Known(n) :
    Ahead(a, node[n]) /\ (\A b \in Known(n) : Honest(a, b))

(* A rate and its samples, of which the last is up to the poll seen last.  *)
HonestSample(sample, manual) ==
  /\ sample.seconds \in 1 .. MaxGap
  /\ sample.from.life <= sample.to.life =>
       sample.bytes \in 0 .. sample.to.total - sample.from.total
  /\ sample.from.manual = manual /\ sample.to.manual = manual

Chain(samples, seen, manual) ==
  /\ Len(samples) > 0 => samples[Len(samples)].to = seen
  /\ \A i \in 1 .. Len(samples) - 1 : samples[i].to = samples[i + 1].from
  /\ \A i \in 1 .. Len(samples) : HonestSample(samples[i], manual)

RateInv(rate) ==
  /\ rate.rewritten = rate.seen.counter /\ rate.seen.manual = rate.session.manual
  /\ Len(rate.samples) <= Window
  /\ Chain(rate.samples, rate.seen, rate.session.manual)

RatesInv == \A n \in Nodes : RateInv(rates[n])

(* Dashboards, now and on their way: what is not known is empty, and the   *)
(* current node of a job is at work for it.                                *)
Sound(d) ==
  /\ \A n \in Nodes : ~d.runtime[n].known => d.runtime[n].info = NoInfo
  /\ d.job.current # NoNode => d.job.state[d.job.current] = "current"

(* The queue is worked through in the order of the settings.               *)
Open(n) == job.state[n] \in {"queued", "current"}
FirstOpen(n) == Open(n) /\ (\A m \in Nodes : Open(m) => n <= m)
QueueInv ==
  /\ job.id = NoJob => job.current = NoNode
  /\ job.id # NoJob => job.id > budget["jobs"]
  /\ job.current # NoNode => FirstOpen(job.current)
  /\ \A n \in Nodes : job.state[n] = "current" <=> job.current = n

(* What a dashboard, or the page, claims the finished runs of a job have   *)
(* reclaimed while one node is the current one.                            *)
Contribution(seen) ==
  IF seen.before >= 0 /\ seen.info.counter >= seen.before
    THEN seen.info.counter - seen.before ELSE 0
Claim(d) == [id |-> d.job.id, node |-> d.job.current, done |-> d.job.done]
RoundClaim ==
  [id |-> round.key.id, node |-> round.key.node, done |-> round.bytes - Contribution(round.seen)]
Claims == {Claim(d) : d \in dashboards} \cup {RoundClaim}

(* It is what all others claim, and as long as the node is not done it is  *)
(* still true.                                                             *)
Stands(c) == c.id = job.id => job.state[c.node] = "done" \/ (job.done = c.done /\ FirstOpen(c.node))
Agree(claims) ==
  \A c \in claims : c.node \in Nodes =>
    /\ c.id > budget["jobs"] /\ Stands(c)
    /\ \A other \in claims : other.id = c.id /\ other.node = c.node => other.done = c.done

RoundInv ==
  /\ IncreaseIsHonest
  /\ round.key.node \in Nodes => round.seen.info.satellite = round.key.satellite

IInv ==
  /\ TypeOK /\ KnownInv /\ RatesInv /\ QueueInv /\ RoundInv
  /\ Sound(Snapshot) /\ (\A d \in dashboards : Sound(d))
  /\ Agree(Claims)
  /\ late.answer # NoAnswer => late.answer.node \in Nodes

-----------------------------------------------------------------------------
(* Lemmas about numbers, moments of a node and budgets.                    *)

(* The larger of two numbers (Max of the community modules).               *)
LEMMA MaxOfTwo ==
  ASSUME NEW a \in Int, NEW b \in Int
  PROVE  Max({a, b}) \in {a, b} /\ Max({a, b}) >= a /\ Max({a, b}) >= b
<1> DEFINE P(x) == x \in {a, b} /\ \A y \in {a, b} : x >= y
<1>1. \E x : P(x)
  <2>1. CASE a >= b
    <3>1. P(a)
      BY <2>1
    <3> QED
      BY <3>1
  <2>2. CASE ~(a >= b)
    <3>1. P(b)
      BY <2>2
    <3> QED
      BY <3>1
  <2> QED
    BY <2>1, <2>2
<1>2. P(CHOOSE x : P(x))
  BY <1>1, Zenon
<1>3. Max({a, b}) = CHOOSE x : P(x)
  BY DEF Max
<1> QED
  BY <1>2, <1>3

(* Being ahead is transitive.                                              *)
LEMMA AheadOfAll ==
  ASSUME NEW a \in Infos, NEW b \in Infos, NEW c \in Infos, Ahead(a, b), Ahead(b, c)
  PROVE  Ahead(a, c) /\ Honest(c, a)
<1>1. /\ a.life \in Nat /\ b.life \in Nat /\ c.life \in Nat
      /\ a.total \in Nat /\ b.total \in Nat /\ c.total \in Nat
      /\ a.counter \in Nat /\ b.counter \in Nat /\ c.counter \in Nat
  BY DEF Infos
<1> QED
  BY <1>1 DEF Ahead, Honest

(* A node is ahead of itself.                                              *)
LEMMA AheadOfItself ==
  ASSUME NEW a \in Infos
  PROVE  Ahead(a, a)
  BY DEF Ahead, Honest, Infos

(* Spending takes one from one kind.                                       *)
LEMMA SpendStep ==
  ASSUME TypeOK, NEW kind \in BudgetKinds, Spend(kind)
  PROVE  /\ budget' \in [BudgetKinds -> Nat]
         /\ \A k \in BudgetKinds : budget'[k] <= budget[k]
         /\ budget'[kind] < budget[kind]
  BY DEF TypeOK, Spend

(* What a node answers is a later moment of its history, whatever it has   *)
(* done since and whether it was restarted.                                *)
LEMMA AnswerStep ==
  ASSUME TypeOK, NEW n \in Nodes, NEW runner \in BOOLEAN, NEW restarted \in BOOLEAN,
         NEW manual \in Nat, NEW satellite \in Satellites \cup {NoSatellite},
         NEW bytes \in Nat,
         Answer(n, runner, restarted, manual, satellite, bytes)
  PROVE  /\ node' \in [Nodes -> Infos]
         /\ budget' \in [BudgetKinds -> Nat] /\ budget'["jobs"] = budget["jobs"]
         /\ Ahead(node[n], node'[n])
         /\ \A m \in Nodes : m # n => node'[m] = node[m]
<1>1. node[n] \in Infos /\ node'[n] = Since(n, restarted, manual, satellite, bytes)
  BY DEF TypeOK, Answer
<1>2. /\ node[n].life \in Nat /\ node[n].total \in Nat /\ node[n].counter \in Nat
  BY <1>1 DEF Infos
<1>3. Since(n, restarted, manual, satellite, bytes) \in Infos
  <2> DEFINE start == IF restarted THEN 0 ELSE node[n].counter
  <2>1. start + bytes \in Nat
    BY <1>2
  <2>2. node[n].life + (IF restarted THEN 1 ELSE 0) \in Nat /\ node[n].total + bytes \in Nat
    BY <1>2
  <2> QED
    BY <2>1, <2>2 DEF Since, Infos
<1>4. node' \in [Nodes -> Infos] /\ (\A m \in Nodes : m # n => node'[m] = node[m])
  BY <1>3 DEF TypeOK, Answer
<1>5. Ahead(node[n], node'[n])
  <2>1. CASE restarted
    <3>1. /\ node'[n].life = node[n].life + 1 /\ node'[n].counter = 0 + bytes
          /\ node'[n].total = node[n].total + bytes
      BY <1>1, <2>1 DEF Since
    <3> QED
      BY <1>2, <3>1 DEF Ahead, Honest
  <2>2. CASE ~restarted
    <3>1. /\ node'[n].life = node[n].life + 0 /\ node'[n].counter = node[n].counter + bytes
          /\ node'[n].total = node[n].total + bytes
      BY <1>1, <2>2 DEF Since
    <3> QED
      BY <1>2, <3>1 DEF Ahead, Honest
  <2> QED
    BY <2>1, <2>2
<1>6. /\ budget' \in [BudgetKinds -> Nat] /\ budget'["jobs"] = budget["jobs"]
  <2>1. budget' = Cost(n, restarted, manual, satellite, bytes)
    BY DEF Answer
  <2>2. /\ Cost(n, restarted, manual, satellite, bytes) \in [BudgetKinds -> Int]
        /\ Cost(n, restarted, manual, satellite, bytes)["jobs"] = budget["jobs"]
    BY DEF Cost, TypeOK, BudgetKinds
  <2>3. \A k \in BudgetKinds : Cost(n, restarted, manual, satellite, bytes)[k] >= 0
    BY DEF Answer, Affordable
  <2>4. \A k \in BudgetKinds : budget'[k] \in Nat
    BY <2>1, <2>2, <2>3
  <2> QED
    BY <2>1, <2>2, <2>4
<1> QED
  BY <1>4, <1>5, <1>6

-----------------------------------------------------------------------------
(* What is known of a node.                                                *)

(* A round shows the moment of a node, if it is of one.                    *)
LEMMA KnownTyped ==
  ASSUME TypeOK, NEW n \in Nodes
  PROVE  Known(n) \subseteq Infos
<1>1. NoInfo \in Infos
  BY DEF NoInfo, Infos
<1>2. node[n] \in Infos /\ runtime[n].info \in Infos /\ rates[n].seen \in Infos
  BY DEF TypeOK, Runtimes, Rates
<1>3. \A d \in dashboards : d.runtime[n].info \in Infos
  <2> SUFFICES ASSUME NEW d \in dashboards PROVE d.runtime[n].info \in Infos
    OBVIOUS
  <2>1. d \in Dashboards
    BY DEF TypeOK
  <2>2. d.runtime[n] \in Runtimes
    BY <2>1 DEF Dashboards
  <2> QED
    BY <2>2 DEF Runtimes
<1>4. late.answer.info \in Infos
  BY DEF TypeOK, Answers
<1>5. round.seen.info \in Infos
  BY DEF TypeOK, Rounds, Evidence
<1> QED
  BY <1>1, <1>2, <1>3, <1>4, <1>5 DEF Known

(* KnownInv outlasts a step that tells nobody of a node but what was known *)
(* of it already and what it is up to now.                                 *)
LEMMA KnownKept ==
  ASSUME TypeOK, KnownInv, node' \in [Nodes -> Infos],
         \A n \in Nodes : Ahead(node[n], node'[n]),
         \A n \in Nodes : Known(n)' \subseteq Known(n) \cup {node'[n]}
  PROVE  KnownInv'
<1> SUFFICES ASSUME NEW n \in Nodes, NEW a \in Known(n)', NEW b \in Known(n)'
             PROVE  Ahead(a, node'[n]) /\ Honest(a, b)
  BY DEF KnownInv
<1>1. Known(n) \subseteq Infos /\ node[n] \in Infos /\ node'[n] \in Infos
  BY KnownTyped DEF TypeOK
<1>2. Ahead(node[n], node'[n]) /\ Ahead(node'[n], node'[n])
  BY <1>1, AheadOfItself
<1>3. \A c \in Known(n) : Ahead(c, node'[n]) /\ Honest(node'[n], c)
  <2> SUFFICES ASSUME NEW c \in Known(n) PROVE Ahead(c, node'[n]) /\ Honest(node'[n], c)
    OBVIOUS
  <2>1. Ahead(c, node[n])
    BY DEF KnownInv
  <2> QED
    BY <1>1, <1>2, <2>1, AheadOfAll
<1>4. (a \in Known(n) \/ a = node'[n]) /\ (b \in Known(n) \/ b = node'[n])
  OBVIOUS
<1>5. CASE a \in Known(n) /\ b \in Known(n)
  BY <1>3, <1>5 DEF KnownInv
<1>6. CASE a \in Known(n) /\ b = node'[n]
  BY <1>3, <1>6 DEF Ahead
<1>7. CASE a = node'[n] /\ b \in Known(n)
  BY <1>2, <1>3, <1>7
<1>8. CASE a = node'[n] /\ b = node'[n]
  BY <1>2, <1>8 DEF Ahead
<1> QED
  BY <1>4, <1>5, <1>6, <1>7, <1>8

(* pollNode puts an answer into the cache, or keeps the last known info.   *)
LEMMA StoreStep ==
  ASSUME TypeOK, NEW a \in Answers, NEW at \in Nat, a.node \in Nodes, Store(a, at)
  PROVE  /\ clock' \in Nat /\ told' \in Nat \cup {Untold}
         /\ runtime' \in [Nodes -> Runtimes]
         /\ \A m \in Nodes : runtime'[m].info = runtime[m].info \/ (m = a.node /\ runtime'[m].info = a.info)
         /\ \A m \in Nodes : ~runtime'[m].known => ~runtime[m].known /\ runtime'[m].info = runtime[m].info
<1>1. a.info \in Infos /\ a.ok \in BOOLEAN /\ a.info.counter \in Nat
  BY DEF Answers, Infos
<1>2. clock' \in Nat
  <2>1. clock \in Int /\ at \in Int
    BY DEF TypeOK
  <2> QED
    BY <2>1, MaxOfTwo DEF Store, TypeOK
<1>3. told' \in Nat \cup {Untold}
  BY <1>1 DEF Store, TypeOK
<1> DEFINE r == runtime[a.node]
           stored == [online |-> a.ok, known |-> a.ok \/ r.known,
                      info |-> IF a.ok THEN a.info ELSE r.info, checkedAt |-> at]
<1>4. r \in Runtimes /\ r.known \in BOOLEAN /\ r.info \in Infos
  BY DEF TypeOK, Runtimes
<1>5. stored \in Runtimes
  BY <1>1, <1>4 DEF Runtimes
<1>6. runtime' = [runtime EXCEPT ![a.node] = stored]
  BY DEF Store
<1>7. /\ runtime' \in [Nodes -> Runtimes] /\ runtime'[a.node] = stored
      /\ \A m \in Nodes : m # a.node => runtime'[m] = runtime[m]
  BY <1>5, <1>6 DEF TypeOK
<1>8. /\ stored.info = a.info \/ stored.info = r.info
      /\ ~stored.known => ~r.known /\ stored.info = r.info
  OBVIOUS
<1> QED
  BY <1>2, <1>3, <1>7, <1>8

(* The queue, the dashboards on their way and the page are left alone by a *)
(* step, which may have spent something.                                   *)
LEMMA PageQuiet ==
  ASSUME IInv, UNCHANGED <<job, dashboards, pageVars>>,
         budget' \in [BudgetKinds -> Nat], budget'["jobs"] <= budget["jobs"]
  PROVE  /\ RatesInv' /\ QueueInv' /\ RoundInv'
         /\ (\A d \in dashboards : Sound(d))' /\ Agree(Claims)'
<1>1. UNCHANGED <<job, dashboards, rates, round>>
  BY DEF pageVars
<1>2. /\ budget["jobs"] \in Nat /\ budget'["jobs"] \in Nat
      /\ job.id \in Nat
  BY DEF IInv, TypeOK, BudgetKinds, Jobs
<1>3. RatesInv' /\ RoundInv'
  <2>1. RatesInv'
    BY <1>1 DEF IInv, RatesInv, RateInv, Chain, HonestSample
  <2>2. RoundInv'
    <3>1. IncreaseIsHonest' /\ IncreaseIsHonest
      BY <1>1 DEF IInv, RoundInv, IncreaseIsHonest
    <3> QED
      BY <1>1, <3>1 DEF IInv, RoundInv
  <2> QED
    BY <2>1, <2>2
<1>4. QueueInv'
  <2>1. \A n : FirstOpen(n)' <=> FirstOpen(n)
    BY <1>1 DEF Open, FirstOpen
  <2>2. job.id > budget["jobs"] => job.id > budget'["jobs"]
    BY <1>2
  <2> QED
    BY <1>1, <2>1, <2>2 DEF IInv, QueueInv
<1>5. (\A d \in dashboards : Sound(d))'
  BY <1>1 DEF IInv, Sound
<1>6. Claims' = Claims /\ (\A c : Stands(c)' <=> Stands(c))
  BY <1>1 DEF Claims, RoundClaim, Stands, FirstOpen, Open
<1>7. \A c \in Claims : c.node \in Nodes => c.id \in Nat
  <2>1. \A d \in dashboards : d.job.id \in Nat
    BY DEF IInv, TypeOK, Dashboards, Jobs
  <2>2. round.key.id \in Nat
    BY DEF IInv, TypeOK, Rounds, Keys
  <2> QED
    BY <2>1, <2>2 DEF Claims, Claim, RoundClaim
<1>8. Agree(Claims)'
  BY <1>2, <1>6, <1>7 DEF IInv, Agree
<1> QED
  BY <1>3, <1>4, <1>5, <1>8

-----------------------------------------------------------------------------
(* Steps of the polls.                                                     *)

(* An answer that is stored is known already or is what the node is up to  *)
(* now.                                                                    *)
LEMMA StoredAnswer ==
  ASSUME IInv, NEW a \in Answers, NEW at \in Nat, a.node \in Nodes, Store(a, at),
         node' \in [Nodes -> Infos], \A n \in Nodes : Ahead(node[n], node'[n]),
         a.info \in Known(a.node) \cup {node'[a.node]},
         late' = late \/ late' = NothingLate,
         budget' \in [BudgetKinds -> Nat], budget'["jobs"] <= budget["jobs"]
  PROVE  IInv'
<1>1. TypeOK /\ KnownInv /\ Sound(Snapshot)
  BY DEF IInv
<1>2. /\ UNCHANGED <<enabled, job, dashboards, pageVars>>
      /\ UNCHANGED <<rates, round>>
  BY DEF Store, pageVars
<1>3. /\ RatesInv' /\ QueueInv' /\ RoundInv'
      /\ (\A d \in dashboards : Sound(d))' /\ Agree(Claims)'
  BY <1>2, PageQuiet
<1>4. /\ clock' \in Nat /\ told' \in Nat \cup {Untold}
      /\ runtime' \in [Nodes -> Runtimes]
      /\ \A m \in Nodes : runtime'[m].info = runtime[m].info \/ (m = a.node /\ runtime'[m].info = a.info)
      /\ \A m \in Nodes : ~runtime'[m].known => ~runtime[m].known /\ runtime'[m].info = runtime[m].info
  BY <1>1, StoreStep
<1>5. /\ late' \in [answer : Answers, since : Nat]
      /\ late'.answer # NoAnswer => late'.answer.node \in Nodes
      /\ late' = late \/ late'.answer.node = NoNode
  <2>1. /\ late \in [answer : Answers, since : Nat]
        /\ late.answer # NoAnswer => late.answer.node \in Nodes
    BY DEF IInv, TypeOK
  <2>2. NoAnswer \in Answers /\ NoAnswer.node = NoNode
    BY DEF NoAnswer, Answers, NoInfo, Infos
  <2>3. NothingLate \in [answer : Answers, since : Nat] /\ NothingLate.answer = NoAnswer
    BY <2>2 DEF NothingLate
  <2> QED
    BY <2>1, <2>2, <2>3
<1>6. TypeOK'
  BY <1>1, <1>2, <1>4, <1>5 DEF TypeOK
<1>7. ASSUME NEW n \in Nodes
      PROVE  Known(n)' \subseteq Known(n) \cup {node'[n]}
  <2>1. runtime'[n].info \in Known(n) \cup {node'[n]}
    <3>1. CASE runtime'[n].info = runtime[n].info
      BY <3>1 DEF Known
    <3>2. CASE n = a.node /\ runtime'[n].info = a.info
      BY <3>2
    <3> QED
      BY <1>4, <3>1, <3>2
  <2>2. (IF late'.answer.node = n THEN {late'.answer.info} ELSE {})
          \subseteq (IF late.answer.node = n THEN {late.answer.info} ELSE {})
    BY <1>5, NodesAssumption
  <2> QED
    BY <1>2, <2>1, <2>2 DEF Known
<1>8. KnownInv'
  BY <1>1, <1>7, KnownKept
<1>9. Sound(Snapshot)'
  <2>1. \A m \in Nodes : ~runtime'[m].known => runtime'[m].info = NoInfo
    BY <1>1, <1>4 DEF Sound, Snapshot
  <2>2. (job.current # NoNode => job.state[job.current] = "current")'
    BY <1>1, <1>2 DEF Sound, Snapshot
  <2> QED
    BY <2>1, <2>2 DEF Sound, Snapshot
<1> QED
  BY <1>3, <1>5, <1>6, <1>8, <1>9 DEF IInv

LEMMA PollNodeStep ==
  ASSUME IInv, NEW n \in Nodes, NEW runner \in BOOLEAN, NEW restarted \in BOOLEAN,
         NEW manual \in Nat, NEW satellite \in Satellites \cup {NoSatellite},
         NEW bytes \in Nat, NEW at \in Nat,
         PollNode(n, runner, restarted, manual, satellite, bytes, at)
  PROVE  IInv'
<1> DEFINE a == [node |-> n, runner |-> runner, ok |-> TRUE, info |-> node'[n]]
<1>1. TypeOK
  BY DEF IInv
<1>2. Answer(n, runner, restarted, manual, satellite, bytes) /\ Store(a, at) /\ late' = late
  BY DEF PollNode
<1>3. /\ node' \in [Nodes -> Infos]
      /\ budget' \in [BudgetKinds -> Nat] /\ budget'["jobs"] = budget["jobs"]
      /\ Ahead(node[n], node'[n])
      /\ \A m \in Nodes : m # n => node'[m] = node[m]
  BY <1>1, <1>2, AnswerStep
<1>4. \A m \in Nodes : Ahead(node[m], node'[m])
  BY <1>1, <1>3, AheadOfItself DEF TypeOK
<1>5. a \in Answers /\ a.node \in Nodes /\ a.info = node'[a.node]
  BY <1>3 DEF Answers
<1>6. budget'["jobs"] <= budget["jobs"]
  BY <1>1, <1>3 DEF TypeOK, BudgetKinds
<1> HIDE DEF a
<1> QED
  BY <1>2, <1>3, <1>4, <1>5, <1>6, StoredAnswer

LEMMA PollFailsStep ==
  ASSUME IInv, NEW n \in Nodes, NEW runner \in BOOLEAN, NEW at \in Nat,
         PollFails(n, runner, at)
  PROVE  IInv'
<1> DEFINE a == [NoAnswer EXCEPT !.node = n, !.runner = runner]
<1>1. TypeOK
  BY DEF IInv
<1>2. Spend("polls") /\ node' = node /\ Store(a, at) /\ late' = late
  BY DEF PollFails, NoReply
<1>3. a \in Answers /\ a.node \in Nodes /\ a.info = NoInfo
  BY DEF Answers, NoAnswer, NoInfo, Infos
<1>4. \A m \in Nodes : Ahead(node[m], node'[m])
  BY <1>1, <1>2, AheadOfItself DEF TypeOK
<1>5. budget' \in [BudgetKinds -> Nat] /\ budget'["jobs"] <= budget["jobs"]
  BY <1>1, <1>2, SpendStep DEF BudgetKinds
<1>6. node' \in [Nodes -> Infos]
  BY <1>1, <1>2 DEF TypeOK
<1>7. a.info \in Known(a.node)
  BY <1>3 DEF Known
<1> HIDE DEF a
<1> QED
  BY <1>2, <1>3, <1>4, <1>5, <1>6, <1>7, StoredAnswer

LEMMA StoreLateStep ==
  ASSUME IInv, NEW at \in Nat, StoreLate(at)
  PROVE  IInv'
<1>1. TypeOK
  BY DEF IInv
<1>2. /\ late.answer # NoAnswer /\ Store(late.answer, at) /\ late' = NothingLate
      /\ node' = node /\ budget' = budget
  BY DEF StoreLate
<1>3. late.answer \in Answers /\ late.answer.node \in Nodes
  BY <1>1, <1>2 DEF IInv, TypeOK
<1>4. late.answer.info \in Known(late.answer.node)
  BY DEF Known
<1>5. \A m \in Nodes : Ahead(node[m], node'[m])
  BY <1>1, <1>2, AheadOfItself DEF TypeOK
<1>6. /\ budget' \in [BudgetKinds -> Nat] /\ budget'["jobs"] <= budget["jobs"]
      /\ node' \in [Nodes -> Infos]
  BY <1>1, <1>2 DEF TypeOK, BudgetKinds
<1> QED
  BY <1>2, <1>3, <1>4, <1>5, <1>6, StoredAnswer

LEMMA PollSlowlyStep ==
  ASSUME IInv, NEW n \in Nodes, NEW runner \in BOOLEAN, NEW restarted \in BOOLEAN,
         NEW manual \in Nat, NEW satellite \in Satellites \cup {NoSatellite},
         NEW bytes \in Nat,
         PollSlowly(n, runner, restarted, manual, satellite, bytes)
  PROVE  IInv'
<1>1. TypeOK /\ KnownInv
  BY DEF IInv
<1>2. /\ Answer(n, runner, restarted, manual, satellite, bytes)
      /\ late' = [answer |-> [node |-> n, runner |-> runner, ok |-> TRUE, info |-> node'[n]],
                  since |-> clock]
      /\ UNCHANGED <<clock, enabled, told, runtime, job, dashboards, pageVars>>
      /\ UNCHANGED <<rates, round>>
  BY DEF PollSlowly, pageVars
<1>3. /\ node' \in [Nodes -> Infos]
      /\ budget' \in [BudgetKinds -> Nat] /\ budget'["jobs"] = budget["jobs"]
      /\ Ahead(node[n], node'[n])
      /\ \A m \in Nodes : m # n => node'[m] = node[m]
  BY <1>1, <1>2, AnswerStep
<1>4. \A m \in Nodes : Ahead(node[m], node'[m])
  BY <1>1, <1>3, AheadOfItself DEF TypeOK
<1>5. budget'["jobs"] <= budget["jobs"]
  BY <1>1, <1>3 DEF TypeOK, BudgetKinds
<1>6. /\ RatesInv' /\ QueueInv' /\ RoundInv'
      /\ (\A d \in dashboards : Sound(d))' /\ Agree(Claims)'
  BY <1>2, <1>3, <1>5, PageQuiet
<1>7. late'.answer \in Answers /\ late'.answer.node = n /\ late'.answer.info = node'[n]
  BY <1>2, <1>3 DEF Answers
<1>8. TypeOK'
  BY <1>1, <1>2, <1>3, <1>7 DEF TypeOK
<1>9. \A m \in Nodes : Known(m)' \subseteq Known(m) \cup {node'[m]}
  <2> SUFFICES ASSUME NEW m \in Nodes PROVE Known(m)' \subseteq Known(m) \cup {node'[m]}
    OBVIOUS
  <2>1. (IF late'.answer.node = m THEN {late'.answer.info} ELSE {}) \subseteq {node'[m]}
    BY <1>7
  <2> QED
    BY <1>2, <2>1 DEF Known
<1>10. KnownInv'
  BY <1>1, <1>3, <1>4, <1>9, KnownKept
<1>11. Sound(Snapshot)'
  BY <1>2 DEF IInv, Sound, Snapshot
<1> QED
  BY <1>6, <1>7, <1>8, <1>10, <1>11 DEF IInv

-----------------------------------------------------------------------------
(* Steps of the queue.                                                     *)

LEMMA JobTyped ==
  ASSUME TypeOK
  PROVE  /\ job.id \in Nat /\ job.current \in Nodes \cup {NoNode} /\ job.done \in Nat
         /\ job.state \in [Nodes -> {"absent", "queued", "current", "done"}]
         /\ job.based \subseteq Nodes /\ job.before \in [Nodes -> Nat]
         /\ budget["jobs"] \in Nat
         /\ \A c \in Claims : c.id \in Nat
<1>1. job \in Jobs /\ budget["jobs"] \in Nat
  BY DEF TypeOK, BudgetKinds
<1>2. \A d \in dashboards : d.job.id \in Nat
  BY DEF TypeOK, Dashboards, Jobs
<1>3. round.key.id \in Nat
  BY DEF TypeOK, Rounds, Keys
<1>4. \A c \in Claims : c.id \in Nat
  BY <1>2, <1>3 DEF Claims, Claim, RoundClaim
<1> QED
  BY <1>1, <1>4 DEF Jobs

(* A step of the server that polls nobody: what was claimed stands if it   *)
(* stood before.                                                           *)
LEMMA QueueMoves ==
  ASSUME IInv, UNCHANGED <<nodeVars, dashboards, pageVars>>,
         enabled' \subseteq Nodes, job' \in Jobs, told' \in Nat \cup {Untold},
         runtime' = runtime \/ runtime' = [n \in Nodes |-> NoRuntime],
         late' = late \/ late' = NothingLate,
         budget' \in [BudgetKinds -> Nat], budget'["jobs"] <= budget["jobs"],
         QueueInv',
         \A c \in Claims : c.node \in Nodes /\ c.id > budget["jobs"] /\ Stands(c) => Stands(c)'
  PROVE  IInv'
<1>1. TypeOK /\ KnownInv /\ Sound(Snapshot)
  BY DEF IInv
<1>2. UNCHANGED <<clock, node, dashboards, rates, round>>
  BY DEF nodeVars, pageVars
<1>3. RatesInv' /\ RoundInv'
  <2>1. RatesInv'
    BY <1>2 DEF IInv, RatesInv, RateInv, Chain, HonestSample
  <2>2. IncreaseIsHonest' /\ IncreaseIsHonest
    BY <1>2 DEF IInv, RoundInv, IncreaseIsHonest
  <2> QED
    BY <1>2, <2>1, <2>2 DEF IInv, RoundInv
<1>4. (\A d \in dashboards : Sound(d))'
  BY <1>2 DEF IInv, Sound
<1>5. Agree(Claims)'
  <2>1. Claims' = Claims /\ Agree(Claims)
    BY <1>2 DEF IInv, Claims, RoundClaim
  <2>2. budget["jobs"] \in Nat /\ budget'["jobs"] \in Nat /\ (\A c \in Claims : c.id \in Nat)
    BY <1>1, JobTyped DEF BudgetKinds
  <2>3. \A c \in Claims : c.node \in Nodes => c.id > budget'["jobs"] /\ Stands(c)'
    BY <2>1, <2>2 DEF Agree
  <2> QED
    BY <2>1, <2>3 DEF Agree
<1>6. runtime' \in [Nodes -> Runtimes]
      /\ (\A n \in Nodes : runtime'[n].info \in {runtime[n].info, NoInfo})
      /\ (\A n \in Nodes : ~runtime'[n].known => runtime'[n].info = NoInfo)
  <2>1. CASE runtime' = runtime
    BY <1>1, <2>1 DEF TypeOK, Sound, Snapshot
  <2>2. CASE runtime' = [n \in Nodes |-> NoRuntime]
    <3>1. NoRuntime \in Runtimes /\ NoRuntime.info = NoInfo
      BY DEF NoRuntime, Runtimes, NoInfo, Infos
    <3> QED
      BY <2>2, <3>1
  <2> QED
    BY <2>1, <2>2
<1>7. /\ late' \in [answer : Answers, since : Nat]
      /\ late'.answer # NoAnswer => late'.answer.node \in Nodes
      /\ late' = late \/ late'.answer.node = NoNode
  <2>1. /\ late \in [answer : Answers, since : Nat]
        /\ late.answer # NoAnswer => late.answer.node \in Nodes
    BY DEF IInv, TypeOK
  <2>2. NoAnswer \in Answers /\ NoAnswer.node = NoNode
    BY DEF NoAnswer, Answers, NoInfo, Infos
  <2>3. NothingLate \in [answer : Answers, since : Nat] /\ NothingLate.answer = NoAnswer
    BY <2>2 DEF NothingLate
  <2> QED
    BY <2>1, <2>2, <2>3
<1>8. TypeOK'
  BY <1>1, <1>2, <1>6, <1>7 DEF TypeOK
<1>9. KnownInv'
  <2>1. ASSUME NEW n \in Nodes PROVE Known(n)' \subseteq Known(n) \cup {node'[n]}
    <3>1. runtime'[n].info \in Known(n)
      BY <1>6 DEF Known
    <3>2. (IF late'.answer.node = n THEN {late'.answer.info} ELSE {})
            \subseteq (IF late.answer.node = n THEN {late.answer.info} ELSE {})
      BY <1>7, NodesAssumption
    <3> QED
      BY <1>2, <3>1, <3>2 DEF Known
  <2>2. \A n \in Nodes : Ahead(node[n], node'[n])
    BY <1>1, <1>2, AheadOfItself DEF TypeOK
  <2>3. node' \in [Nodes -> Infos]
    BY <1>1, <1>2 DEF TypeOK
  <2> QED
    BY <1>1, <2>1, <2>2, <2>3, KnownKept
<1>10. Sound(Snapshot)'
  <2>1. (job.current # NoNode => job.state[job.current] = "current")'
    BY <1>8, JobTyped DEF QueueInv, TypeOK, Jobs
  <2> QED
    BY <1>6, <2>1 DEF Sound, Snapshot
<1> QED
  BY <1>3, <1>4, <1>5, <1>7, <1>8, <1>9, <1>10 DEF IInv

LEMMA StartJobStep ==
  ASSUME IInv, StartJob
  PROVE  IInv'
<1>1. TypeOK /\ QueueInv
  BY DEF IInv
<1> DEFINE b == budget["jobs"]
<1>2. /\ job' = JobNumber(b, enabled)
      /\ UNCHANGED <<nodeVars, enabled, late, told, runtime, dashboards, pageVars>>
      /\ b > 0
  BY DEF StartJob, Spend
<1>3. b \in Nat /\ \A c \in Claims : c.id \in Nat
  BY <1>1, JobTyped
<1>4. budget' \in [BudgetKinds -> Nat] /\ budget'["jobs"] < b
  BY <1>1, SpendStep DEF BudgetKinds, StartJob
<1>5. /\ job' \in Jobs /\ job'.id = b /\ job'.current = NoNode
      /\ \A n \in Nodes : job'.state[n] # "current"
  BY <1>2, <1>3 DEF JobNumber, Jobs
<1>6. budget'["jobs"] \in Nat
  BY <1>4 DEF BudgetKinds
<1>7. QueueInv'
  BY <1>3, <1>4, <1>5, <1>6, NodesAssumption DEF QueueInv
<1>8. \A c \in Claims : c.node \in Nodes /\ c.id > b /\ Stands(c) => Stands(c)'
  BY <1>3, <1>5 DEF Stands
<1>9. enabled' \subseteq Nodes /\ told' \in Nat \cup {Untold} /\ budget'["jobs"] <= b
  BY <1>1, <1>2, <1>3, <1>4, <1>6 DEF TypeOK
<1> QED
  BY <1>2, <1>4, <1>5, <1>7, <1>8, <1>9, QueueMoves

LEMMA CheckNodeStep ==
  ASSUME IInv, NEW n \in Nodes, CheckNode(n)
  PROVE  IInv'
<1>1. TypeOK /\ QueueInv
  BY DEF IInv
<1>2. /\ job.id # NoJob /\ job.current = NoNode /\ job.state[n] = "queued"
      /\ \A m \in Nodes : job.state[m] = "queued" => n <= m
      /\ job' = [job EXCEPT !.current = n, !.state[n] = "current"]
      /\ told' = Untold
      /\ UNCHANGED <<nodeVars, enabled, late, runtime, dashboards, pageVars, budget>>
  BY DEF CheckNode
<1>3. /\ job.state \in [Nodes -> {"absent", "queued", "current", "done"}]
      /\ budget["jobs"] \in Nat
  BY <1>1, JobTyped
<1>4. /\ job' \in Jobs /\ job'.id = job.id /\ job'.current = n /\ job'.done = job.done
      /\ job'.state[n] = "current"
      /\ \A m \in Nodes : m # n => job'.state[m] = job.state[m]
  BY <1>1, <1>2, <1>3 DEF TypeOK, Jobs
<1>5. \A m \in Nodes : job.state[m] # "current"
  BY <1>1, <1>2, NodesAssumption DEF QueueInv
<1>6. \A m \in Nodes : Open(m)' <=> Open(m)
  BY <1>2, <1>4 DEF Open
<1>7. \A m \in Nodes : FirstOpen(m)' <=> FirstOpen(m)
  BY <1>6 DEF FirstOpen
<1>8. FirstOpen(n)'
  BY <1>2, <1>5, <1>6 DEF FirstOpen, Open
<1>9. QueueInv'
  <2>1. \A m \in Nodes : job'.state[m] = "current" <=> job'.current = m
    BY <1>4, <1>5
  <2> QED
    BY <1>1, <1>2, <1>4, <1>8, <2>1 DEF QueueInv
<1>10. \A c \in Claims : c.node \in Nodes /\ c.id > budget["jobs"] /\ Stands(c) => Stands(c)'
  BY <1>2, <1>4, <1>7 DEF Stands
<1>11. /\ enabled' \subseteq Nodes /\ told' \in Nat \cup {Untold}
       /\ budget' \in [BudgetKinds -> Nat] /\ budget'["jobs"] <= budget["jobs"]
  BY <1>1, <1>2, <1>3 DEF TypeOK
<1> QED
  BY <1>2, <1>4, <1>9, <1>10, <1>11, QueueMoves

LEMMA BaselineStep ==
  ASSUME IInv, NEW n \in Nodes, Baseline(n)
  PROVE  IInv'
<1>1. TypeOK /\ QueueInv
  BY DEF IInv
<1>2. /\ told # Untold
      /\ job' = [job EXCEPT !.based = @ \cup {n}, !.before[n] = told]
      /\ UNCHANGED <<nodeVars, enabled, late, told, runtime, dashboards, pageVars, budget>>
  BY DEF Baseline
<1>3. told \in Nat /\ budget["jobs"] \in Nat
  BY <1>1, <1>2, JobTyped DEF TypeOK
<1>4. /\ job' \in Jobs /\ job'.id = job.id /\ job'.current = job.current /\ job'.done = job.done
      /\ job'.state = job.state
  BY <1>1, <1>2, <1>3 DEF TypeOK, Jobs
<1>5. \A m : FirstOpen(m)' <=> FirstOpen(m)
  BY <1>4 DEF FirstOpen, Open
<1>6. QueueInv'
  BY <1>1, <1>2, <1>4, <1>5 DEF QueueInv
<1>7. \A c \in Claims : c.node \in Nodes /\ c.id > budget["jobs"] /\ Stands(c) => Stands(c)'
  BY <1>4, <1>5 DEF Stands
<1>8. /\ enabled' \subseteq Nodes /\ told' \in Nat \cup {Untold}
      /\ budget' \in [BudgetKinds -> Nat] /\ budget'["jobs"] <= budget["jobs"]
  BY <1>1, <1>2, <1>3 DEF TypeOK
<1> QED
  BY <1>2, <1>4, <1>6, <1>7, <1>8, QueueMoves

LEMMA FinishNodeStep ==
  ASSUME IInv, NEW n \in Nodes, NEW informed \in BOOLEAN, FinishNode(n, informed)
  PROVE  IInv'
<1>1. TypeOK /\ QueueInv
  BY DEF IInv
<1> DEFINE more == IF informed /\ n \in job.based
                     THEN job.done + Max({0, told - job.before[n]}) ELSE job.done
<1>2. /\ job.current = n /\ (informed => told # Untold)
      /\ job' = [job EXCEPT !.current = NoNode, !.state[n] = "done", !.done = more]
      /\ UNCHANGED <<nodeVars, enabled, late, told, runtime, dashboards, pageVars, budget>>
  BY DEF FinishNode
<1>3. /\ job.state \in [Nodes -> {"absent", "queued", "current", "done"}]
      /\ budget["jobs"] \in Nat /\ job.done \in Nat /\ job.before[n] \in Nat
  BY <1>1, JobTyped
<1>4. more \in Nat
  <2>1. CASE informed
    <3>1. told - job.before[n] \in Int
      BY <1>1, <1>2, <1>3, <2>1 DEF TypeOK
    <3>2. ASSUME NEW x \in Int PROVE Max({0, x}) \in Nat
      <4>1. Max({0, x}) \in {0, x} /\ Max({0, x}) >= 0
        <5>1. 0 \in Int
          OBVIOUS
        <5>2. \A a, b \in Int : Max({a, b}) \in {a, b} /\ Max({a, b}) >= a
          BY MaxOfTwo
        <5> QED
          BY <5>1, <5>2, Zenon
      <4> QED
        BY <4>1
    <3> QED
      BY <1>3, <3>1, <3>2
  <2>2. CASE ~informed
    BY <1>3, <2>2
  <2> QED
    BY <2>1, <2>2
<1> HIDE DEF more
<1>5. /\ job' \in Jobs /\ job'.id = job.id /\ job'.current = NoNode
      /\ job'.state[n] = "done"
      /\ \A m \in Nodes : m # n => job'.state[m] = job.state[m]
  BY <1>1, <1>2, <1>3, <1>4 DEF TypeOK, Jobs
<1>6. /\ FirstOpen(n) /\ job.id # NoJob /\ job.id > budget["jobs"]
      /\ \A m \in Nodes : job.state[m] = "current" => m = n
  BY <1>1, <1>2, NodesAssumption DEF QueueInv
<1>7. QueueInv'
  <2>1. \A m \in Nodes : job'.state[m] # "current" /\ job'.current # m
    BY <1>5, <1>6, NodesAssumption
  <2> QED
    BY <1>2, <1>5, <1>6, <2>1 DEF QueueInv
<1>8. \A c \in Claims : c.node \in Nodes /\ c.id > budget["jobs"] /\ Stands(c) => Stands(c)'
  <2> SUFFICES ASSUME NEW c \in Claims, c.node \in Nodes, Stands(c), c.id = job.id
               PROVE  job'.state[c.node] = "done"
    BY <1>5 DEF Stands
  <2>1. CASE job.state[c.node] = "done"
    BY <1>5, <2>1
  <2>2. CASE FirstOpen(c.node)
    <3>1. c.node <= n /\ n <= c.node
      BY <1>6, <2>2 DEF FirstOpen
    <3>2. c.node \in Nat /\ n \in Nat
      BY NodesAssumption
    <3>3. c.node = n
      BY <3>1, <3>2
    <3> QED
      BY <1>5, <3>3
  <2> QED
    BY <2>1, <2>2 DEF Stands
<1>9. /\ enabled' \subseteq Nodes /\ told' \in Nat \cup {Untold}
      /\ budget' \in [BudgetKinds -> Nat] /\ budget'["jobs"] <= budget["jobs"]
  BY <1>1, <1>2, <1>3 DEF TypeOK
<1> QED
  BY <1>2, <1>5, <1>7, <1>8, <1>9, QueueMoves

LEMMA FinishJobStep ==
  ASSUME IInv, FinishJob
  PROVE  IInv'
<1>1. TypeOK
  BY DEF IInv
<1>2. /\ job' = JobNumber(NoJob, {})
      /\ UNCHANGED <<nodeVars, enabled, late, told, runtime, dashboards, pageVars, budget>>
  BY DEF FinishJob
<1>3. budget["jobs"] \in Nat /\ \A c \in Claims : c.id \in Nat
  BY <1>1, JobTyped
<1>4. /\ job' \in Jobs /\ job'.id = NoJob /\ job'.current = NoNode
      /\ \A n \in Nodes : job'.state[n] # "current"
  BY <1>2 DEF JobNumber, Jobs, NoJob
<1>5. QueueInv'
  BY <1>4, NodesAssumption DEF QueueInv
<1>6. \A c \in Claims : c.node \in Nodes /\ c.id > budget["jobs"] /\ Stands(c) => Stands(c)'
  BY <1>3, <1>4 DEF Stands, NoJob
<1>7. /\ enabled' \subseteq Nodes /\ told' \in Nat \cup {Untold}
      /\ budget' \in [BudgetKinds -> Nat] /\ budget'["jobs"] <= budget["jobs"]
  BY <1>1, <1>2, <1>3 DEF TypeOK
<1> QED
  BY <1>2, <1>4, <1>5, <1>6, <1>7, QueueMoves

(* The run that was being checked is queued again: it is the first of the  *)
(* nodes that are left as before.                                          *)
LEMMA RestartServerStep ==
  ASSUME IInv, RestartServer
  PROVE  IInv'
<1>1. TypeOK /\ QueueInv
  BY DEF IInv
<1> DEFINE requeued == [n \in Nodes |-> IF job.state[n] = "current" THEN "queued" ELSE job.state[n]]
<1>2. /\ Spend("faults")
      /\ runtime' = [n \in Nodes |-> NoRuntime]
      /\ late' = NothingLate /\ told' = Untold
      /\ job' = job \/ job' = [job EXCEPT !.current = NoNode, !.state = requeued]
      /\ UNCHANGED <<nodeVars, enabled, dashboards, pageVars>>
  BY DEF RestartServer
<1>3. /\ job.state \in [Nodes -> {"absent", "queued", "current", "done"}]
      /\ budget["jobs"] \in Nat
  BY <1>1, JobTyped
<1>4. budget' \in [BudgetKinds -> Nat] /\ budget'["jobs"] <= budget["jobs"]
  BY <1>1, <1>2, SpendStep DEF BudgetKinds
<1>5. enabled' \subseteq Nodes /\ told' \in Nat \cup {Untold} /\ budget'["jobs"] \in Nat /\ job.id \in Nat
  BY <1>1, <1>2, <1>4, JobTyped DEF TypeOK, BudgetKinds
<1>6. /\ job' \in Jobs /\ job'.id = job.id /\ job'.done = job.done
      /\ \A n \in Nodes : Open(n)' <=> Open(n)
      /\ \A n \in Nodes : job'.state[n] = "done" <=> job.state[n] = "done"
  <2>1. CASE job' = job
    BY <1>1, <2>1 DEF TypeOK, Open
  <2>2. CASE job' = [job EXCEPT !.current = NoNode, !.state = requeued]
    <3>1. requeued \in [Nodes -> {"absent", "queued", "current", "done"}]
      BY <1>3
    <3>2. job' \in Jobs /\ job'.id = job.id /\ job'.done = job.done /\ job'.state = requeued
      BY <1>1, <2>2, <3>1 DEF TypeOK, Jobs
    <3> QED
      BY <1>3, <3>2 DEF Open
  <2> QED
    BY <1>2, <2>1, <2>2
<1>7. \A n \in Nodes : FirstOpen(n)' <=> FirstOpen(n)
  BY <1>6 DEF FirstOpen
<1>8. QueueInv'
  <2>1. job.id # NoJob => job.id > budget'["jobs"]
    BY <1>1, <1>3, <1>4, <1>5 DEF QueueInv
  <2>2. CASE job' = job
    <3>1. job.current # NoNode => job.current \in Nodes
      BY <1>1, JobTyped
    <3>2. job.current # NoNode => FirstOpen(job.current)'
      BY <1>1, <1>7, <2>2, <3>1 DEF QueueInv
    <3> QED
      BY <1>1, <2>1, <2>2, <3>2 DEF QueueInv
  <2>3. CASE job' = [job EXCEPT !.current = NoNode, !.state = requeued]
    <3>1. job'.current = NoNode /\ job'.state = requeued
      BY <1>1, <2>3 DEF TypeOK, Jobs
    <3>2. \A n \in Nodes : job'.state[n] # "current" /\ job'.current # n
      BY <3>1, NodesAssumption
    <3> QED
      BY <1>6, <2>1, <3>1, <3>2 DEF QueueInv
  <2> QED
    BY <1>2, <2>2, <2>3
<1>9. \A c \in Claims : c.node \in Nodes /\ c.id > budget["jobs"] /\ Stands(c) => Stands(c)'
  BY <1>6, <1>7 DEF Stands
<1> QED
  BY <1>2, <1>4, <1>5, <1>6, <1>8, <1>9, QueueMoves

LEMMA SwitchNodeStep ==
  ASSUME IInv, NEW n \in Nodes, SwitchNode(n)
  PROVE  IInv'
<1>1. TypeOK /\ QueueInv
  BY DEF IInv
<1>2. /\ Spend("faults") /\ enabled' = IF n \in enabled THEN enabled \ {n} ELSE enabled \cup {n}
      /\ UNCHANGED <<nodeVars, late, told, runtime, job, dashboards, pageVars>>
  BY DEF SwitchNode
<1>3. budget' \in [BudgetKinds -> Nat] /\ budget'["jobs"] <= budget["jobs"]
  BY <1>1, <1>2, SpendStep DEF BudgetKinds
<1>4. enabled' \subseteq Nodes /\ job' \in Jobs /\ told' \in Nat \cup {Untold}
  BY <1>1, <1>2 DEF TypeOK
<1>5. QueueInv'
  BY <1>2, <1>3, PageQuiet
<1>6. \A c \in Claims : c.node \in Nodes /\ c.id > budget["jobs"] /\ Stands(c) => Stands(c)'
  BY <1>2 DEF Stands, FirstOpen, Open
<1> QED
  BY <1>2, <1>3, <1>4, <1>5, <1>6, QueueMoves

-----------------------------------------------------------------------------
(* The speed.                                                              *)

(* A chain stays one when a sample follows it, ...                         *)
LEMMA ChainAppend ==
  ASSUME NEW samples \in Seq(Samples), NEW seen \in Infos, NEW manual,
         NEW sample \in Samples, Chain(samples, seen, manual),
         sample.from = seen, HonestSample(sample, manual)
  PROVE  /\ Append(samples, sample) \in Seq(Samples)
         /\ Len(Append(samples, sample)) = Len(samples) + 1
         /\ Chain(Append(samples, sample), sample.to, manual)
<1> DEFINE t == Append(samples, sample)
<1>1. /\ t \in Seq(Samples) /\ Len(t) = Len(samples) + 1 /\ Len(samples) \in Nat
      /\ \A i \in 1 .. Len(samples) : t[i] = samples[i]
      /\ t[Len(samples) + 1] = sample
  BY AppendProperties, LenProperties
<1> HIDE DEF t
<1>2. \A i \in 1 .. Len(t) - 1 : t[i].to = t[i + 1].from
  <2> SUFFICES ASSUME NEW i \in 1 .. Len(samples) PROVE t[i].to = t[i + 1].from
    BY <1>1
  <2>1. CASE i = Len(samples)
    BY <1>1, <2>1 DEF Chain
  <2>2. CASE i # Len(samples)
    <3>1. i \in 1 .. Len(samples) - 1 /\ i + 1 \in 1 .. Len(samples)
      BY <1>1, <2>2
    <3> QED
      BY <1>1, <3>1 DEF Chain
  <2> QED
    BY <2>1, <2>2
<1>3. \A i \in 1 .. Len(t) : HonestSample(t[i], manual)
  <2> SUFFICES ASSUME NEW i \in 1 .. Len(t) PROVE HonestSample(t[i], manual)
    OBVIOUS
  <2>1. CASE i = Len(samples) + 1
    BY <1>1, <2>1
  <2>2. CASE i # Len(samples) + 1
    <3>1. i \in 1 .. Len(samples)
      BY <1>1, <2>2
    <3> QED
      BY <1>1, <3>1 DEF Chain
  <2> QED
    BY <2>1, <2>2
<1>4. Chain(t, sample.to, manual)
  BY <1>1, <1>2, <1>3 DEF Chain
<1> QED
  BY <1>1, <1>4 DEF t

(* ... and when its first is dropped.                                      *)
LEMMA ChainTail ==
  ASSUME NEW samples \in Seq(Samples), NEW seen, NEW manual,
         samples # <<>>, Chain(samples, seen, manual)
  PROVE  /\ Tail(samples) \in Seq(Samples) /\ Len(Tail(samples)) = Len(samples) - 1
         /\ Chain(Tail(samples), seen, manual)
<1> DEFINE t == Tail(samples)
<1>1. /\ t \in Seq(Samples) /\ Len(t) = Len(samples) - 1 /\ Len(samples) \in Nat /\ Len(t) \in Nat
      /\ \A i \in 1 .. Len(t) : t[i] = samples[i + 1]
  BY HeadTailProperties, LenProperties
<1> HIDE DEF t
<1>2. Len(t) > 0 => t[Len(t)].to = seen
  <2> SUFFICES ASSUME Len(t) > 0 PROVE t[Len(t)].to = seen
    OBVIOUS
  <2>1. Len(t) \in 1 .. Len(t) /\ Len(t) + 1 = Len(samples) /\ Len(samples) > 0
    BY <1>1
  <2>2. t[Len(t)] = samples[Len(samples)]
    BY <1>1, <2>1
  <2> QED
    BY <2>1, <2>2 DEF Chain
<1>3. \A i \in 1 .. Len(t) - 1 : t[i].to = t[i + 1].from
  <2> SUFFICES ASSUME NEW i \in 1 .. Len(t) - 1 PROVE t[i].to = t[i + 1].from
    OBVIOUS
  <2>1. i \in 1 .. Len(t) /\ i + 1 \in 1 .. Len(t) /\ i + 1 \in 1 .. Len(samples) - 1
    BY <1>1
  <2>2. t[i] = samples[i + 1] /\ t[i + 1] = samples[(i + 1) + 1]
    BY <1>1, <2>1
  <2> QED
    BY <2>1, <2>2 DEF Chain
<1>4. \A i \in 1 .. Len(t) : HonestSample(t[i], manual)
  <2> SUFFICES ASSUME NEW i \in 1 .. Len(t) PROVE HonestSample(t[i], manual)
    OBVIOUS
  <2>1. i + 1 \in 1 .. Len(samples) /\ t[i] = samples[i + 1]
    BY <1>1
  <2> QED
    BY <2>1 DEF Chain
<1> QED
  BY <1>1, <1>2, <1>3, <1>4 DEF Chain, t

(* A sample of a rate and a later moment of the same session.              *)
LEMMA SampledStep ==
  ASSUME NEW rate \in Rates, NEW r \in Runtimes, RateInv(rate),
         r.info.manual = rate.session.manual,
         r.checkedAt - rate.checkedAt \in 1 .. MaxGap,
         r.info.counter >= rate.rewritten, Honest(rate.seen, r.info)
  PROVE  Sampled(rate, r) \in Rates /\ RateInv(Sampled(rate, r)) /\ Sampled(rate, r).seen = r.info
<1> DEFINE sample == [bytes |-> r.info.counter - rate.rewritten,
                      seconds |-> r.checkedAt - rate.checkedAt, from |-> rate.seen, to |-> r.info]
           longer == Append(rate.samples, sample)
           manual == rate.session.manual
<1>1. /\ rate.seen \in Infos /\ r.info \in Infos /\ rate.samples \in Seq(Samples)
      /\ rate.session \in Sessions /\ r.checkedAt \in Nat
      /\ rate.rewritten = rate.seen.counter /\ rate.seen.manual = manual
      /\ Len(rate.samples) <= Window /\ Chain(rate.samples, rate.seen, manual)
  BY DEF Rates, Runtimes, RateInv
<1>2. /\ rate.seen.counter \in Nat /\ rate.seen.total \in Nat /\ rate.seen.life \in Nat
      /\ r.info.counter \in Nat /\ r.info.total \in Nat /\ r.info.life \in Nat
  BY <1>1 DEF Infos
<1>3. sample \in Samples
  <2>1. r.info.counter - rate.rewritten \in Int /\ r.checkedAt - rate.checkedAt \in Int
    BY <1>1, <1>2, RateAssumption
  <2> QED
    BY <1>1, <2>1 DEF Samples
<1>4. HonestSample(sample, manual)
  <2>1. rate.seen.life <= r.info.life =>
          r.info.counter - rate.rewritten \in 0 .. r.info.total - rate.seen.total
    <3> DEFINE a == rate.seen
               b == r.info
    <3>1. /\ a.life = b.life => b.total - a.total = b.counter - a.counter
          /\ a.life < b.life => a.total <= b.total - b.counter
          /\ b.counter >= a.counter
      BY <1>1 DEF Honest
    <3>2. a.life <= b.life => b.counter - a.counter <= b.total - a.total
      <4>1. CASE a.life = b.life
        BY <1>2, <3>1, <4>1
      <4>2. CASE a.life < b.life
        BY <1>2, <3>1, <4>2
      <4> QED
        BY <1>2, <4>1, <4>2
    <3>3. b.counter - a.counter \in Int /\ b.total - a.total \in Int /\ b.counter - a.counter >= 0
      BY <1>2, <3>1
    <3> QED
      BY <1>1, <3>2, <3>3
  <2> QED
    BY <1>1, <2>1 DEF HonestSample
<1>5. sample.from = rate.seen /\ sample.to = r.info
  OBVIOUS
<1> HIDE DEF sample
<1>6. /\ longer \in Seq(Samples) /\ Len(longer) = Len(rate.samples) + 1
      /\ Chain(longer, r.info, manual)
  BY <1>1, <1>3, <1>4, <1>5, ChainAppend
<1>7. Len(rate.samples) \in Nat /\ Window \in Nat /\ longer # <<>>
  BY <1>1, <1>3, LenProperties, RateAssumption, AppendProperties
<1> HIDE DEF longer
<1> DEFINE kept == IF Len(longer) > Window THEN Tail(longer) ELSE longer
<1>8. kept \in Seq(Samples) /\ Len(kept) <= Window /\ Chain(kept, r.info, manual)
  <2>1. CASE Len(longer) > Window
    <3>1. /\ Tail(longer) \in Seq(Samples) /\ Len(Tail(longer)) = Len(longer) - 1
          /\ Chain(Tail(longer), r.info, manual)
      BY <1>6, <1>7, ChainTail
    <3> QED
      BY <1>1, <1>6, <1>7, <2>1, <3>1
  <2>2. CASE ~(Len(longer) > Window)
    BY <1>6, <1>7, <2>2
  <2> QED
    BY <2>1, <2>2
<1> HIDE DEF kept
<1>9. Sampled(rate, r) = [rate EXCEPT !.checkedAt = r.checkedAt, !.rewritten = r.info.counter,
                                      !.seen = r.info, !.samples = kept]
  BY DEF Sampled, kept, longer, sample
<1>10. /\ Sampled(rate, r) \in Rates /\ Sampled(rate, r).seen = r.info
       /\ Sampled(rate, r).session = rate.session /\ Sampled(rate, r).samples = kept
       /\ Sampled(rate, r).rewritten = r.info.counter
  BY <1>1, <1>2, <1>8, <1>9 DEF Rates
<1> QED
  BY <1>1, <1>8, <1>10 DEF RateInv

(* A rate without samples.                                                 *)
LEMMA NoSamples ==
  ASSUME NEW rate \in Rates, rate.samples = <<>>,
         rate.rewritten = rate.seen.counter, rate.seen.manual = rate.session.manual
  PROVE  RateInv(rate)
<1>1. Len(rate.samples) = 0
  BY EmptySeq
<1> QED
  BY <1>1, RateAssumption DEF RateInv, Chain

(* updateRewriteRates for a node and a moment of its history.              *)
LEMMA UpdatedRateStep ==
  ASSUME NEW rate \in Rates, RateInv(rate), NEW d \in Dashboards, NEW n \in Nodes,
         Honest(rate.seen, d.runtime[n].info)
  PROVE  /\ UpdatedRate(rate, d, n) \in Rates /\ RateInv(UpdatedRate(rate, d, n))
         /\ UpdatedRate(rate, d, n).seen \in {NoInfo, rate.seen, d.runtime[n].info}
<1> DEFINE r == d.runtime[n]
           session == Session(d, n)
           gap == r.checkedAt - rate.checkedAt
           reset == [session |-> session, checkedAt |-> r.checkedAt,
                     rewritten |-> r.info.counter, seen |-> r.info, samples |-> <<>>]
<1>1. r \in Runtimes /\ r.info \in Infos /\ r.checkedAt \in Nat /\ rate.checkedAt \in Nat
  BY DEF Dashboards, Runtimes, Rates
<1>2. session \in Sessions /\ (session # NoSession => session.manual = r.info.manual)
  <2>1. CASE n \notin d.enabled \/ ~d.runtime[n].online
    BY <2>1 DEF Session, NoSession, Sessions
  <2>2. CASE ~(n \notin d.enabled \/ ~d.runtime[n].online)
    <3>1. session = [manual |-> r.info.manual,
                     satellite |-> IF r.info.manual # 0 THEN NoSatellite ELSE r.info.satellite]
      BY <2>2 DEF Session
    <3> QED
      BY <1>1, <3>1 DEF Sessions, Infos
  <2> QED
    BY <2>1, <2>2
<1>3. CASE session = NoSession
  <2>1. UpdatedRate(rate, d, n) = NoRate
    BY <1>3 DEF UpdatedRate
  <2>2. <<>> \in Seq(Samples)
    BY EmptySeq
  <2>3. NoRate \in Rates /\ NoRate.seen = NoInfo /\ NoRate.samples = <<>>
        /\ NoRate.rewritten = NoRate.seen.counter /\ NoRate.seen.manual = NoRate.session.manual
    BY <2>2 DEF NoRate, Rates, NoSession, Sessions, NoInfo, Infos
  <2> QED
    BY <2>1, <2>3, NoSamples
<1>4. CASE /\ session # NoSession
           /\ rate.session # session \/ gap < 0 \/ gap > MaxGap \/ r.info.counter < rate.rewritten
  <2>1. UpdatedRate(rate, d, n) = reset
    BY <1>4 DEF UpdatedRate
  <2>2. <<>> \in Seq(Samples) /\ r.info.counter \in Nat
    BY <1>1, EmptySeq DEF Infos
  <2>3. reset \in Rates /\ reset.seen = r.info /\ reset.samples = <<>>
        /\ reset.rewritten = reset.seen.counter /\ reset.seen.manual = reset.session.manual
    BY <1>1, <1>2, <1>4, <2>2 DEF Rates
  <2> HIDE DEF reset
  <2> QED
    BY <2>1, <2>3, NoSamples
<1>5. CASE /\ session # NoSession
           /\ ~(rate.session # session \/ gap < 0 \/ gap > MaxGap \/ r.info.counter < rate.rewritten)
  <2>1. CASE gap = 0
    BY <1>5, <2>1 DEF UpdatedRate
  <2>2. CASE gap # 0
    <3>1. UpdatedRate(rate, d, n) = Sampled(rate, r)
      BY <1>5, <2>2 DEF UpdatedRate
    <3>2. gap \in 1 .. MaxGap
      BY <1>1, <1>5, <2>2, RateAssumption
    <3>3. r.info.counter >= rate.rewritten
      <4>1. r.info.counter \in Nat /\ rate.rewritten \in Nat
        BY <1>1 DEF Infos, Rates
      <4> QED
        BY <1>5, <4>1
    <3>4. r.info.manual = rate.session.manual
      BY <1>2, <1>5
    <3> HIDE DEF session
    <3> QED
      BY <1>1, <3>1, <3>2, <3>3, <3>4, SampledStep
  <2> QED
    BY <2>1, <2>2
<1> QED
  BY <1>3, <1>4, <1>5

-----------------------------------------------------------------------------
(* The last increase.                                                      *)

(* What a node adds to the bytes of its job between two moments, from one  *)
(* baseline, it has done between them.                                     *)
LEMMA ContributionGrows ==
  ASSUME NEW e \in Evidence, NEW f \in Evidence, e.before = f.before,
         Honest(e.info, f.info), e.info.life <= f.info.life,
         Contribution(f) > Contribution(e)
  PROVE  Contribution(f) - Contribution(e) <= f.info.total - e.info.total
<1> DEFINE a == e.info
           b == f.info
           base == e.before
<1>1. /\ a.life \in Nat /\ a.counter \in Nat /\ a.total \in Nat
      /\ b.life \in Nat /\ b.counter \in Nat /\ b.total \in Nat
      /\ base \in Int
  BY DEF Evidence, Infos
<1>2. b.counter - a.counter <= b.total - a.total
  <2>1. CASE a.life = b.life
    <3>1. b.total - a.total = b.counter - a.counter
      BY <2>1 DEF Honest
    <3> QED
      BY <1>1, <3>1
  <2>2. CASE a.life < b.life
    <3>1. a.total <= b.total - b.counter
      BY <2>2 DEF Honest
    <3> QED
      BY <1>1, <3>1
  <2>3. a.life = b.life \/ a.life < b.life
    BY <1>1
  <2> QED
    BY <2>1, <2>2, <2>3
<1>3. base >= 0 /\ b.counter >= base /\ Contribution(f) = b.counter - base
  <2>1. Contribution(e) >= 0
    BY <1>1 DEF Contribution
  <2>2. CASE base >= 0 /\ b.counter >= base
    BY <2>2 DEF Contribution
  <2>3. CASE ~(base >= 0 /\ b.counter >= base)
    <3>1. Contribution(f) = 0
      BY <2>3 DEF Contribution
    <3>2. Contribution(e) \in Int
      BY <1>1 DEF Contribution
    <3> QED
      BY <2>1, <3>1, <3>2
  <2> QED
    BY <2>2, <2>3
<1>4. Contribution(f) - Contribution(e) <= b.counter - a.counter
  <2>1. CASE a.counter >= base
    <3>1. Contribution(e) = a.counter - base
      BY <1>3, <2>1 DEF Contribution
    <3> QED
      BY <1>1, <1>3, <3>1
  <2>2. CASE ~(a.counter >= base)
    <3>1. Contribution(e) = 0
      BY <2>2 DEF Contribution
    <3> QED
      BY <1>1, <1>3, <2>2, <3>1
  <2> QED
    BY <2>1, <2>2
<1>5. Contribution(f) \in Int /\ Contribution(e) \in Int
  BY <1>1 DEF Contribution
<1> QED
  BY <1>1, <1>2, <1>4, <1>5

(* jobCounterBytes: what is done, and what the current node adds.          *)
LEMMA JobBytesSplit ==
  ASSUME NEW d \in Dashboards, Sound(d)
  PROVE  /\ JobBytes(d) \in Nat /\ EvidenceOf(d) \in Evidence /\ RoundKey(d) \in Keys
         /\ d.job.id \in Nat /\ d.job.current \in Nodes \cup {NoNode}
         /\ d.job.current \in Nodes =>
              /\ JobBytes(d) = d.job.done + Contribution(EvidenceOf(d))
              /\ EvidenceOf(d).info = d.runtime[d.job.current].info
              /\ RoundKey(d).satellite = d.runtime[d.job.current].info.satellite
<1> DEFINE n == d.job.current
<1>1. /\ d.job.id \in Nat /\ n \in Nodes \cup {NoNode} /\ d.job.done \in Nat
      /\ d.job.based \subseteq Nodes
      /\ d.job.before \in [Nodes -> Nat]
  BY DEF Dashboards, Jobs
<1>2. CASE n = NoNode
  <2>1. n \notin Nodes /\ n \notin d.job.based
    BY <1>1, <1>2, NodesAssumption
  <2>2. JobBytes(d) = d.job.done
    BY <2>1 DEF JobBytes
  <2>3. EvidenceOf(d) \in Evidence
    BY <1>2 DEF EvidenceOf, NoEvidence, Evidence, NoInfo, Infos
  <2>4. RoundKey(d) \in Keys
    BY <1>1, <1>2 DEF RoundKey, Keys
  <2> QED
    BY <1>1, <2>1, <2>2, <2>3, <2>4
<1>3. CASE n \in Nodes
  <2> DEFINE r == d.runtime[n]
             before == d.job.before[n]
             e == EvidenceOf(d)
  <2>1. /\ r \in Runtimes /\ r.info \in Infos /\ r.info.counter \in Nat /\ before \in Nat
        /\ r.info.satellite \in Satellites \cup {NoSatellite}
    BY <1>1, <1>3 DEF Dashboards, Runtimes, Infos
  <2>2. n # NoNode /\ d.job.state[n] = "current" /\ (~r.known => r.info.counter = 0)
    <3>1. n # NoNode
      BY <1>3, NodesAssumption
    <3>2. ~r.known => r.info = NoInfo
      BY <1>3 DEF Sound
    <3>3. NoInfo.counter = 0
      BY DEF NoInfo
    <3> QED
      BY <3>1, <3>2, <3>3 DEF Sound
  <2>3. e = [before |-> IF n \in d.job.based THEN before ELSE -1, info |-> r.info]
    BY <2>2 DEF EvidenceOf
  <2>4. e.info = r.info /\ e.before = IF n \in d.job.based THEN before ELSE -1
    BY <2>3
  <2>5. e \in Evidence
    BY <2>1, <2>3 DEF Evidence
  <2>6. RoundKey(d) \in Keys /\ RoundKey(d).satellite = r.info.satellite
    BY <1>1, <2>1, <2>2 DEF RoundKey, Keys
  <2>7. JobBytes(d) \in Nat /\ JobBytes(d) = d.job.done + Contribution(e)
    <3>1. CASE n \in d.job.based /\ r.known /\ r.info.counter >= before
      <4>1. JobBytes(d) = d.job.done + r.info.counter - before
        BY <2>2, <3>1 DEF JobBytes
      <4>2. Contribution(e) = r.info.counter - before
        BY <2>1, <2>4, <3>1 DEF Contribution
      <4> QED
        BY <1>1, <2>1, <3>1, <4>1, <4>2
    <3>2. CASE ~(n \in d.job.based /\ r.known /\ r.info.counter >= before)
      <4>1. JobBytes(d) = d.job.done
        BY <3>2 DEF JobBytes
      <4>2. Contribution(e) = 0
        <5>1. CASE n \notin d.job.based
          BY <2>4, <5>1 DEF Contribution
        <5>2. CASE n \in d.job.based /\ r.info.counter >= before
          <6>1. r.info.counter = 0 /\ before = 0
            BY <2>1, <2>2, <3>2, <5>2
          <6>2. e.before = 0 /\ e.info.counter = 0
            BY <2>4, <5>2, <6>1
          <6> HIDE DEF e
          <6> QED
            BY <6>2 DEF Contribution
        <5>3. CASE n \in d.job.based /\ ~(r.info.counter >= before)
          BY <2>4, <5>3 DEF Contribution
        <5> QED
          BY <5>1, <5>2, <5>3
      <4> QED
        BY <1>1, <4>1, <4>2
    <3> QED
      BY <3>1, <3>2
  <2> QED
    BY <1>1, <2>4, <2>5, <2>6, <2>7
<1> QED
  BY <1>1, <1>2, <1>3

(* updateReclaimedRounds with a dashboard that fits what is shown.         *)
LEMMA UpdatedRoundStep ==
  ASSUME TypeOK, RoundInv, NEW d \in Dashboards, Sound(d), round' = UpdatedRound(round, d),
         d.job.current \in Nodes /\ round.key.node = d.job.current =>
           Honest(round.seen.info, d.runtime[d.job.current].info),
         d.job.current \in Nodes /\ round.key.node = d.job.current /\ round.key.id = d.job.id =>
           d.job.done = RoundClaim.done
  PROVE  /\ round' \in Rounds /\ RoundInv'
         /\ round'.key.node \in Nodes =>
              RoundClaim' = Claim(d) /\ round'.seen.info = d.runtime[round'.key.node].info
<1> DEFINE n == d.job.current
           key == RoundKey(d)
           bytes == JobBytes(d)
           seen == EvidenceOf(d)
<1>1. /\ bytes \in Nat /\ seen \in Evidence /\ key \in Keys
      /\ d.job.id \in Nat /\ n \in Nodes \cup {NoNode}
      /\ n \in Nodes => /\ bytes = d.job.done + Contribution(seen)
                        /\ seen.info = d.runtime[n].info
                        /\ key.satellite = d.runtime[n].info.satellite
  BY JobBytesSplit
<1>2. key.id = d.job.id /\ key.node = n
  BY DEF RoundKey
<1>3. /\ round \in Rounds /\ round.key \in Keys /\ round.bytes \in Nat /\ round.last \in Nat
      /\ round.seen \in Evidence /\ round.from \in Evidence /\ round.to \in Evidence
  BY DEF TypeOK, Rounds
<1>4. d.job.done \in Nat
  BY DEF Dashboards, Jobs
<1>5. \A e \in Evidence : Contribution(e) \in Int
  BY DEF Contribution, Evidence, Infos
<1>6. NoEvidence \in Evidence /\ NoKey \in Keys /\ NoNode \notin Nodes
  <2>1. NoInfo \in Infos
    BY DEF NoInfo, Infos
  <2>2. -1 \in Int
    OBVIOUS
  <2>3. NoEvidence \in Evidence
    BY <2>1, <2>2 DEF NoEvidence, Evidence
  <2>4. NoKey \in Keys
    BY DEF NoKey, Keys, NoJob
  <2> QED
    BY <2>3, <2>4, NodesAssumption
<1>7. ASSUME round'.key = key, round'.bytes = bytes, round'.seen = seen, round'.key.node \in Nodes
      PROVE  /\ RoundClaim' = Claim(d) /\ round'.seen.info = d.runtime[round'.key.node].info
             /\ round'.seen.info.satellite = round'.key.satellite
  <2>1. n \in Nodes /\ round'.key.node = n /\ round'.key.id = d.job.id
    BY <1>2, <1>7
  <2>2. bytes - Contribution(seen) = d.job.done
    BY <1>1, <1>4, <1>5, <2>1
  <2>3. RoundClaim' = [id |-> d.job.id, node |-> n, done |-> d.job.done]
    BY <1>7, <2>1, <2>2 DEF RoundClaim, Contribution
  <2> QED
    BY <1>1, <1>7, <2>1, <2>3 DEF Claim
<1> HIDE DEF key, bytes, seen
<1>8. CASE d.job.id = NoJob
  <2>1. round' = NoRound
    BY <1>8 DEF UpdatedRound
  <2>2. NoRound \in Rounds /\ NoRound.key.node = NoNode /\ NoRound.last = 0
    BY <1>6 DEF NoRound, Rounds, NoKey
  <2> QED
    BY <1>6, <2>1, <2>2 DEF RoundInv, IncreaseIsHonest
<1>9. CASE d.job.id # NoJob /\ (round.key # key \/ bytes < round.bytes)
  <2>1. round' = [NoRound EXCEPT !.key = key, !.bytes = bytes, !.seen = seen]
    BY <1>9 DEF UpdatedRound, key, bytes, seen
  <2>2. /\ round' \in Rounds /\ round'.last = 0
        /\ round'.key = key /\ round'.bytes = bytes /\ round'.seen = seen
    <3>1. round' = [key |-> key, bytes |-> bytes, last |-> 0,
                    seen |-> seen, from |-> NoEvidence, to |-> NoEvidence]
      BY <2>1 DEF NoRound
    <3> QED
      BY <1>1, <1>6, <3>1 DEF Rounds
  <2> QED
    BY <1>7, <2>2 DEF RoundInv, IncreaseIsHonest
<1>10. CASE d.job.id # NoJob /\ round.key = key /\ bytes = round.bytes
  <2>1. round' = [round EXCEPT !.seen = seen]
    BY <1>1, <1>3, <1>10 DEF UpdatedRound, key, bytes, seen
  <2>2. /\ round' \in Rounds /\ round'.last = round.last
        /\ round'.key = key /\ round'.bytes = bytes /\ round'.seen = seen
        /\ round'.from = round.from /\ round'.to = round.to
    BY <1>1, <1>3, <1>10, <2>1 DEF Rounds
  <2>3. IncreaseIsHonest'
    BY <1>10, <2>2 DEF RoundInv, IncreaseIsHonest
  <2> QED
    BY <1>7, <2>2, <2>3 DEF RoundInv
<1>11. CASE d.job.id # NoJob /\ round.key = key /\ bytes > round.bytes
  <2>1. round' = [round EXCEPT !.bytes = bytes, !.last = bytes - round.bytes, !.seen = seen,
                               !.from = round.seen, !.to = seen]
    BY <1>1, <1>3, <1>11 DEF UpdatedRound, key, bytes, seen
  <2>2. bytes - round.bytes \in Nat
    BY <1>1, <1>3, <1>11
  <2>3. /\ round' \in Rounds /\ round'.last = bytes - round.bytes
        /\ round'.key = key /\ round'.bytes = bytes /\ round'.seen = seen
        /\ round'.from = round.seen /\ round'.to = seen
    BY <1>1, <1>3, <1>11, <2>1, <2>2 DEF Rounds
  <2>4. IncreaseIsHonest'
    <3> SUFFICES ASSUME key.node # NoNode, round.seen.before = seen.before,
                        round.seen.info.life <= seen.info.life
                 PROVE  /\ bytes - round.bytes <= seen.info.total - round.seen.info.total
                        /\ round.seen.info.satellite = key.satellite
                        /\ seen.info.satellite = key.satellite
      BY <2>3 DEF IncreaseIsHonest
    <3>1. n \in Nodes /\ round.key.node = n /\ round.key.id = d.job.id
      BY <1>1, <1>2, <1>11
    <3>2. round.bytes - Contribution(round.seen) = d.job.done
      BY <3>1 DEF RoundClaim
    <3>3. bytes - round.bytes = Contribution(seen) - Contribution(round.seen)
      BY <1>1, <1>3, <1>4, <1>5, <3>1, <3>2
    <3>4. Contribution(seen) > Contribution(round.seen)
      BY <1>1, <1>3, <1>5, <1>11, <3>3
    <3>5. Honest(round.seen.info, seen.info)
      BY <1>1, <3>1
    <3>6. bytes - round.bytes <= seen.info.total - round.seen.info.total
      BY <1>1, <1>3, <3>3, <3>4, <3>5, ContributionGrows
    <3> QED
      BY <1>1, <1>11, <3>1, <3>6 DEF RoundInv
  <2> QED
    BY <1>7, <2>3, <2>4 DEF RoundInv
<1> QED
  BY <1>1, <1>3, <1>8, <1>9, <1>10, <1>11

-----------------------------------------------------------------------------
(* Steps of the page.                                                      *)

(* What dashboard() says now agrees with all that was claimed of its job.  *)
LEMMA SnapshotFits ==
  ASSUME IInv
  PROVE  /\ Snapshot \in Dashboards /\ Sound(Snapshot)
         /\ \A n \in Nodes : Snapshot.runtime[n].info \in Known(n)
         /\ Agree(Claims \cup {Claim(Snapshot)})
<1> DEFINE s == Claim(Snapshot)
<1>1. Snapshot \in Dashboards /\ Sound(Snapshot)
  BY DEF IInv, TypeOK, Snapshot, Dashboards
<1>2. \A n \in Nodes : Snapshot.runtime[n].info \in Known(n)
  BY DEF Snapshot, Known
<1>3. s.id = job.id /\ s.node = job.current /\ s.done = job.done
  BY DEF Claim, Snapshot
<1> HIDE DEF s
<1>4. s.node \in Nodes => /\ s.id > budget["jobs"] /\ FirstOpen(s.node)
                          /\ job.state[s.node] # "done"
  <2> SUFFICES ASSUME job.current \in Nodes
               PROVE  /\ job.id > budget["jobs"] /\ FirstOpen(job.current)
                      /\ job.state[job.current] # "done"
    BY <1>3
  <2>1. QueueInv /\ job.current # NoNode
    BY NodesAssumption DEF IInv
  <2>2. job.id # NoJob /\ FirstOpen(job.current) /\ job.state[job.current] = "current"
    BY <2>1 DEF QueueInv
  <2> QED
    BY <2>1, <2>2 DEF QueueInv
<1>5. Agree(Claims)
  BY DEF IInv
<1>6. ASSUME NEW c \in Claims, c.node \in Nodes, c.id = s.id, c.node = s.node
      PROVE  c.done = s.done
  BY <1>3, <1>4, <1>5, <1>6 DEF Agree, Stands
<1>7. Stands(s) \/ s.node \notin Nodes
  BY <1>3, <1>4 DEF Stands
<1>8. Agree(Claims \cup {s})
  <2> SUFFICES ASSUME NEW c \in Claims \cup {s}, c.node \in Nodes
               PROVE  /\ c.id > budget["jobs"] /\ Stands(c)
                      /\ \A other \in Claims \cup {s} :
                           other.id = c.id /\ other.node = c.node => other.done = c.done
    BY DEF Agree
  <2>1. CASE c \in Claims
    <3>1. /\ c.id > budget["jobs"] /\ Stands(c)
          /\ \A other \in Claims :
               other.id = c.id /\ other.node = c.node => other.done = c.done
      BY <1>5, <2>1 DEF Agree
    <3>2. s.id = c.id /\ s.node = c.node => s.done = c.done
      BY <1>6, <2>1
    <3> QED
      BY <3>1, <3>2
  <2>2. CASE c = s
    <3>1. \A other \in Claims : other.id = s.id /\ other.node = s.node => other.done = s.done
      BY <1>6, <2>2
    <3> QED
      BY <1>4, <1>7, <2>2, <3>1
  <2> QED
    BY <2>1, <2>2
<1> QED
  BY <1>1, <1>2, <1>8 DEF s

(* The page shows a dashboard that fits all that is known and claimed.     *)
LEMMA ShowStep ==
  ASSUME IInv, NEW d \in Dashboards, Sound(d), Show(d),
         \A n \in Nodes : d.runtime[n].info \in Known(n),
         Agree(Claims \cup {Claim(d)}),
         dashboards' \subseteq dashboards,
         budget' \in [BudgetKinds -> Nat], budget'["jobs"] <= budget["jobs"]
  PROVE  IInv'
<1>1. TypeOK /\ KnownInv /\ RatesInv /\ RoundInv
  BY DEF IInv
<1>2. /\ rates' = [n \in Nodes |-> UpdatedRate(rates[n], d, n)]
      /\ round' = UpdatedRound(round, d)
      /\ UNCHANGED <<clock, node, enabled, late, told, runtime, job>>
  BY DEF Show, nodeVars, serverVars
<1>3. ASSUME NEW n \in Nodes
      PROVE  /\ rates'[n] \in Rates /\ RateInv(rates'[n]) /\ rates'[n].seen \in Known(n)
  <2>1. rates[n] \in Rates /\ RateInv(rates[n]) /\ rates'[n] = UpdatedRate(rates[n], d, n)
    BY <1>1, <1>2 DEF TypeOK, RatesInv
  <2>2. {NoInfo, rates[n].seen, d.runtime[n].info} \subseteq Known(n)
    BY DEF Known
  <2>3. Honest(rates[n].seen, d.runtime[n].info)
    BY <1>1, <2>2 DEF KnownInv
  <2> QED
    BY <2>1, <2>2, <2>3, UpdatedRateStep
<1>4. /\ round' \in Rounds /\ RoundInv'
      /\ round'.key.node \in Nodes =>
           RoundClaim' = Claim(d) /\ round'.seen.info = d.runtime[round'.key.node].info
  <2>1. ASSUME d.job.current \in Nodes, round.key.node = d.job.current
        PROVE  Honest(round.seen.info, d.runtime[d.job.current].info)
    <3>1. round.seen.info \in Known(d.job.current)
      BY <2>1 DEF Known
    <3> QED
      BY <1>1, <2>1, <3>1 DEF KnownInv
  <2>2. ASSUME d.job.current \in Nodes, round.key.node = d.job.current, round.key.id = d.job.id
        PROVE  d.job.done = RoundClaim.done
    <3>1. RoundClaim.node \in Nodes /\ RoundClaim.node = Claim(d).node /\ RoundClaim.id = Claim(d).id
      BY <2>2 DEF RoundClaim, Claim
    <3>2. RoundClaim \in Claims \cup {Claim(d)} /\ Claim(d) \in Claims \cup {Claim(d)}
      BY DEF Claims
    <3>3. Claim(d).done = RoundClaim.done
      BY <3>1, <3>2 DEF Agree
    <3> QED
      BY <3>3 DEF Claim
  <2> QED
    BY <1>1, <1>2, <2>1, <2>2, UpdatedRoundStep
<1>5. TypeOK'
  <2>1. rates' \in [Nodes -> Rates]
    BY <1>2, <1>3
  <2> QED
    BY <1>1, <1>2, <1>4, <2>1 DEF TypeOK
<1>6. RatesInv'
  BY <1>3 DEF RatesInv
<1>7. KnownInv'
  <2>1. ASSUME NEW n \in Nodes PROVE Known(n)' \subseteq Known(n) \cup {node'[n]}
    <3>1. (IF round'.key.node = n THEN {round'.seen.info} ELSE {}) \subseteq Known(n)
      BY <1>4
    <3>2. {x.runtime[n].info : x \in dashboards'} \subseteq {x.runtime[n].info : x \in dashboards}
      OBVIOUS
    <3> QED
      BY <1>2, <1>3, <3>1, <3>2 DEF Known
  <2>2. \A n \in Nodes : Ahead(node[n], node'[n])
    BY <1>1, <1>2, AheadOfItself DEF TypeOK
  <2>3. node' \in [Nodes -> Infos]
    BY <1>1, <1>2 DEF TypeOK
  <2> QED
    BY <1>1, <2>1, <2>2, <2>3, KnownKept
<1>8. QueueInv'
  <2>1. \A n : FirstOpen(n)' <=> FirstOpen(n)
    BY <1>2 DEF FirstOpen, Open
  <2>2. job.id > budget["jobs"] => job.id > budget'["jobs"]
    BY <1>1, JobTyped DEF BudgetKinds
  <2> QED
    BY <1>2, <2>1, <2>2 DEF IInv, QueueInv
<1>9. Sound(Snapshot)' /\ (\A x \in dashboards : Sound(x))'
  <2>1. Sound(Snapshot)'
    BY <1>2 DEF IInv, Sound, Snapshot
  <2>2. (\A x \in dashboards : Sound(x))'
    BY DEF IInv, Sound
  <2> QED
    BY <2>1, <2>2
<1>10. Agree(Claims)'
  <2> DEFINE before == Claims \cup {Claim(d)}
  <2>1. \A c \in Claims' : c.node \in Nodes => c \in before
    <3>1. Claims' = {Claim(x) : x \in dashboards'} \cup {RoundClaim'}
      BY DEF Claims, Claim
    <3>2. {Claim(x) : x \in dashboards'} \subseteq Claims
      BY DEF Claims
    <3>3. RoundClaim'.node = round'.key.node
      BY DEF RoundClaim
    <3> QED
      BY <1>4, <3>1, <3>2, <3>3
  <2>2. \A c : Stands(c)' <=> Stands(c)
    BY <1>2 DEF Stands, FirstOpen, Open
  <2>3. ASSUME NEW c \in before PROVE c.id \in Nat
    <3>1. d.job.id \in Nat
      BY DEF Dashboards, Jobs
    <3> QED
      BY <1>1, <3>1, JobTyped DEF Claim
  <2>4. budget["jobs"] \in Nat /\ budget'["jobs"] \in Nat
    BY <1>1, JobTyped DEF BudgetKinds
  <2> HIDE DEF before
  <2>5. Agree(before)
    BY DEF before
  <2> SUFFICES ASSUME NEW c \in Claims', c.node \in Nodes
               PROVE  /\ c.id > budget'["jobs"] /\ Stands(c)'
                      /\ \A other \in Claims' :
                           other.id = c.id /\ other.node = c.node => other.done = c.done
    BY DEF Agree
  <2>6. c \in before /\ c.id \in Nat
    BY <2>1, <2>3
  <2>7. c.id > budget["jobs"] /\ Stands(c)
    BY <2>5, <2>6 DEF Agree
  <2>8. \A other \in Claims' : other.id = c.id /\ other.node = c.node => other.done = c.done
    BY <2>1, <2>5, <2>6 DEF Agree
  <2> QED
    BY <2>2, <2>4, <2>6, <2>7, <2>8
<1>11. (late.answer # NoAnswer => late.answer.node \in Nodes)'
  BY <1>2 DEF IInv
<1> QED
  BY <1>4, <1>5, <1>6, <1>7, <1>8, <1>9, <1>10, <1>11 DEF IInv

LEMMA LoadDashboardStep ==
  ASSUME IInv, LoadDashboard
  PROVE  IInv'
<1>1. Spend("loads") /\ Show(Snapshot) /\ dashboards' = dashboards
  BY DEF LoadDashboard
<1>2. TypeOK
  BY DEF IInv
<1>3. budget' \in [BudgetKinds -> Nat] /\ budget'["jobs"] <= budget["jobs"]
  BY <1>1, <1>2, SpendStep DEF BudgetKinds
<1> QED
  BY <1>1, <1>3, SnapshotFits, ShowStep

(* A dashboard that was sent is among those that agree.                    *)
LEMMA ReceiveDashboardStep ==
  ASSUME IInv, NEW d \in dashboards, ReceiveDashboard(d)
  PROVE  IInv'
<1>1. Show(d) /\ dashboards' \subseteq dashboards /\ budget' = budget
  BY DEF ReceiveDashboard
<1>2. TypeOK /\ d \in Dashboards /\ Sound(d)
  BY DEF IInv, TypeOK
<1>3. budget' \in [BudgetKinds -> Nat] /\ budget'["jobs"] <= budget["jobs"]
  BY <1>1, <1>2, JobTyped DEF TypeOK
<1>4. \A n \in Nodes : d.runtime[n].info \in Known(n)
  BY DEF Known
<1>5. Claims \cup {Claim(d)} = Claims /\ Agree(Claims)
  BY DEF Claims, IInv
<1> QED
  BY <1>1, <1>2, <1>3, <1>4, <1>5, ShowStep

LEMMA SendDashboardStep ==
  ASSUME IInv, SendDashboard
  PROVE  IInv'
<1>1. /\ Spend("loads") /\ dashboards' = {Snapshot}
      /\ UNCHANGED <<clock, node, enabled, late, told, runtime, job, rates, round>>
  BY DEF SendDashboard, nodeVars, serverVars, pageVars
<1>2. TypeOK /\ KnownInv
  BY DEF IInv
<1>3. budget' \in [BudgetKinds -> Nat] /\ budget'["jobs"] <= budget["jobs"]
  BY <1>1, <1>2, SpendStep DEF BudgetKinds
<1>4. /\ Snapshot \in Dashboards /\ Sound(Snapshot)
      /\ \A n \in Nodes : Snapshot.runtime[n].info \in Known(n)
      /\ Agree(Claims \cup {Claim(Snapshot)})
  BY SnapshotFits
<1>5. TypeOK'
  BY <1>1, <1>2, <1>3, <1>4 DEF TypeOK
<1>6. RatesInv' /\ RoundInv'
  <2>1. RatesInv'
    BY <1>1 DEF IInv, RatesInv, RateInv, Chain, HonestSample
  <2>2. IncreaseIsHonest' /\ IncreaseIsHonest
    BY <1>1 DEF IInv, RoundInv, IncreaseIsHonest
  <2> QED
    BY <1>1, <2>1, <2>2 DEF IInv, RoundInv
<1>7. KnownInv'
  <2>1. ASSUME NEW n \in Nodes PROVE Known(n)' \subseteq Known(n) \cup {node'[n]}
    <3>1. {x.runtime[n].info : x \in dashboards'} \subseteq Known(n)
      BY <1>1, <1>4
    <3> QED
      BY <1>1, <3>1 DEF Known
  <2>2. \A n \in Nodes : Ahead(node[n], node'[n])
    BY <1>1, <1>2, AheadOfItself DEF TypeOK
  <2>3. node' \in [Nodes -> Infos]
    BY <1>1, <1>2 DEF TypeOK
  <2> QED
    BY <1>2, <2>1, <2>2, <2>3, KnownKept
<1>8. QueueInv'
  <2>1. \A n : FirstOpen(n)' <=> FirstOpen(n)
    BY <1>1 DEF FirstOpen, Open
  <2>2. job.id > budget["jobs"] => job.id > budget'["jobs"]
    BY <1>2, <1>3, JobTyped DEF BudgetKinds
  <2> QED
    BY <1>1, <2>1, <2>2 DEF IInv, QueueInv
<1>9. Sound(Snapshot)' /\ (\A x \in dashboards : Sound(x))'
  <2>1. Sound(Snapshot)'
    BY <1>1 DEF IInv, Sound, Snapshot
  <2>2. (\A x \in dashboards : Sound(x))'
    BY <1>1, <1>4 DEF Sound
  <2> QED
    BY <2>1, <2>2
<1>10. Agree(Claims)'
  <2> DEFINE after == Claims \cup {Claim(Snapshot)}
  <2>1. Claims' \subseteq after
    <3>1. Claims' = {Claim(x) : x \in dashboards'} \cup {RoundClaim'}
      BY DEF Claims, Claim
    <3>2. RoundClaim' = RoundClaim
      BY <1>1 DEF RoundClaim
    <3> QED
      BY <1>1, <3>1, <3>2 DEF Claims
  <2>2. \A c : Stands(c)' <=> Stands(c)
    BY <1>1 DEF Stands, FirstOpen, Open
  <2>3. ASSUME NEW c \in after PROVE c.id \in Nat
    BY <1>2, JobTyped DEF Claim, Snapshot
  <2>4. budget["jobs"] \in Nat /\ budget'["jobs"] \in Nat
    BY <1>2, <1>3, JobTyped DEF BudgetKinds
  <2> HIDE DEF after
  <2>5. Agree(after)
    BY <1>4 DEF after
  <2> SUFFICES ASSUME NEW c \in Claims', c.node \in Nodes
               PROVE  /\ c.id > budget'["jobs"] /\ Stands(c)'
                      /\ \A other \in Claims' :
                           other.id = c.id /\ other.node = c.node => other.done = c.done
    BY DEF Agree
  <2>6. c \in after /\ c.id \in Nat
    BY <2>1, <2>3
  <2>7. c.id > budget["jobs"] /\ Stands(c)
    BY <2>5, <2>6 DEF Agree
  <2>8. \A other \in Claims' : other.id = c.id /\ other.node = c.node => other.done = c.done
    BY <2>1, <2>5, <2>6 DEF Agree
  <2> QED
    BY <1>3, <2>2, <2>4, <2>6, <2>7, <2>8
<1>11. (late.answer # NoAnswer => late.answer.node \in Nodes)'
  BY <1>1 DEF IInv
<1> QED
  BY <1>5, <1>6, <1>7, <1>8, <1>9, <1>10, <1>11 DEF IInv

-----------------------------------------------------------------------------
(* The theorems.                                                           *)

LEMMA InitIInv ==
  ASSUME Init
  PROVE  IInv
<1>1. PICK start \in Starts :
        /\ enabled = start.enabled
        /\ node = [n \in Nodes |-> [NoInfo EXCEPT !.satellite = start.working[n]]]
        /\ budget = start.budget
  BY DEF Init
<1>2. /\ clock = 0 /\ late = NothingLate /\ told = Untold
      /\ runtime = [n \in Nodes |-> NoRuntime]
      /\ job = JobNumber(NoJob, {}) /\ dashboards = {}
      /\ rates = [n \in Nodes |-> NoRate] /\ round = NoRound
  BY DEF Init
<1>3. /\ start.enabled \subseteq Nodes /\ start.budget \in [BudgetKinds -> Nat]
      /\ start.working \in [Nodes -> Satellites \cup {NoSatellite}]
  BY StartsAssumption
<1>4. NoInfo \in Infos /\ NoNode \notin Nodes
  BY NodesAssumption DEF NoInfo, Infos
<1>5. ASSUME NEW n \in Nodes
      PROVE  /\ node[n] \in Infos /\ node[n].life = 0 /\ node[n].total = 0 /\ node[n].counter = 0
             /\ runtime[n] = NoRuntime /\ rates[n] = NoRate
  <2>1. node[n] = [manual |-> 0, satellite |-> start.working[n], counter |-> 0, life |-> 0, total |-> 0]
    BY <1>1 DEF NoInfo
  <2> QED
    BY <1>2, <1>3, <2>1 DEF Infos
<1>6. NoAnswer \in Answers /\ late \in [answer : Answers, since : Nat] /\ late.answer = NoAnswer
      /\ NoAnswer.node = NoNode
  <2>1. NoAnswer \in Answers /\ NoAnswer.node = NoNode
    BY <1>4 DEF NoAnswer, Answers
  <2> QED
    BY <1>2, <2>1 DEF NothingLate
<1>7. NoRuntime \in Runtimes /\ NoRuntime.info = NoInfo
  BY <1>4 DEF NoRuntime, Runtimes
<1>8. /\ NoRate \in Rates /\ NoRate.seen = NoInfo /\ NoRate.samples = <<>>
      /\ NoRate.rewritten = NoRate.seen.counter /\ NoRate.seen.manual = NoRate.session.manual
  <2>1. <<>> \in Seq(Samples)
    BY EmptySeq
  <2> QED
    BY <1>4, <2>1 DEF NoRate, Rates, NoSession, Sessions, NoInfo
<1>9. round \in Rounds /\ round.key.node = NoNode /\ round.last = 0
  <2>1. -1 \in Int
    OBVIOUS
  <2>2. NoEvidence \in Evidence
    BY <1>4, <2>1 DEF NoEvidence, Evidence
  <2>3. NoKey \in Keys /\ NoKey.node = NoNode
    BY DEF NoKey, Keys, NoJob
  <2> QED
    BY <1>2, <2>2, <2>3 DEF NoRound, Rounds
<1>10. /\ job \in Jobs /\ job.id = NoJob /\ job.current = NoNode
       /\ \A n \in Nodes : job.state[n] # "current"
  BY <1>2 DEF JobNumber, Jobs, NoJob
<1>11. TypeOK
  <2>1. clock \in Nat /\ told \in Nat \cup {Untold} /\ dashboards \subseteq Dashboards
    BY <1>2
  <2>2. node \in [Nodes -> Infos]
    BY <1>1, <1>5
  <2>3. runtime \in [Nodes -> Runtimes] /\ rates \in [Nodes -> Rates]
    BY <1>2, <1>7, <1>8
  <2> QED
    BY <1>1, <1>3, <1>6, <1>9, <1>10, <2>1, <2>2, <2>3 DEF TypeOK
<1>12. KnownInv
  <2> SUFFICES ASSUME NEW n \in Nodes, NEW a \in Known(n)
               PROVE  Ahead(a, node[n]) /\ (\A b \in Known(n) : Honest(a, b))
    BY DEF KnownInv
  <2>1. Known(n) \subseteq {NoInfo, node[n]}
    BY <1>2, <1>4, <1>5, <1>6, <1>7, <1>8, <1>9 DEF Known
  <2>2. NoInfo.life = 0 /\ NoInfo.total = 0 /\ NoInfo.counter = 0
    BY DEF NoInfo
  <2>3. \A b \in Known(n) : b.life = 0 /\ b.total = 0 /\ b.counter = 0
    BY <1>5, <2>1, <2>2
  <2> QED
    BY <1>5, <2>3 DEF Ahead, Honest
<1>13. RatesInv
  BY <1>5, <1>8, NoSamples DEF RatesInv
<1>14. QueueInv
  BY <1>4, <1>10 DEF QueueInv
<1>15. RoundInv
  BY <1>4, <1>9 DEF RoundInv, IncreaseIsHonest
<1>16. Sound(Snapshot) /\ (\A d \in dashboards : Sound(d))
  BY <1>2, <1>5, <1>7, <1>10 DEF Sound, Snapshot
<1>17. Agree(Claims)
  <2>1. Claims = {RoundClaim} /\ RoundClaim.node = NoNode
    BY <1>2, <1>9 DEF Claims, RoundClaim
  <2> QED
    BY <1>4, <2>1 DEF Agree
<1> QED
  BY <1>6, <1>11, <1>12, <1>13, <1>14, <1>15, <1>16, <1>17 DEF IInv

LEMMA PollNextStep ==
  ASSUME IInv, NEW n \in Nodes, NEW runner \in BOOLEAN, PollNext(n, runner)
  PROVE  IInv'
<1>1. /\ Times \subseteq Nat /\ Amounts \subseteq Nat
      /\ {0, node[n].manual, budget["work"]} \subseteq Nat
  BY RateAssumption DEF IInv, TypeOK, Times, Amounts, Infos, BudgetKinds
<1>2. ASSUME NEW manual \in Nat, NEW satellite \in Satellites \cup {NoSatellite},
             NEW bytes \in Nat, NEW restarted \in BOOLEAN, NEW at \in Nat,
             PollNode(n, runner, restarted, manual, satellite, bytes, at)
      PROVE  IInv'
  BY <1>2, PollNodeStep
<1>3. ASSUME NEW manual \in Nat, NEW satellite \in Satellites \cup {NoSatellite},
             NEW bytes \in Nat, NEW restarted \in BOOLEAN,
             PollSlowly(n, runner, restarted, manual, satellite, bytes)
      PROVE  IInv'
  BY <1>3, PollSlowlyStep
<1>4. ASSUME NEW at \in Nat, PollFails(n, runner, at)
      PROVE  IInv'
  BY <1>4, PollFailsStep
<1>5. \/ \E manual \in Nat, satellite \in Satellites \cup {NoSatellite},
            bytes \in Nat, restarted \in BOOLEAN :
           \/ \E at \in Nat : PollNode(n, runner, restarted, manual, satellite, bytes, at)
           \/ PollSlowly(n, runner, restarted, manual, satellite, bytes)
      \/ \E at \in Nat : PollFails(n, runner, at)
  BY <1>1 DEF PollNext
<1> QED
  BY <1>2, <1>3, <1>4, <1>5

LEMMA NextIInv ==
  ASSUME IInv, [Next]_vars
  PROVE  IInv'
<1>1. ASSUME NEW n \in Nodes, NEW runner \in BOOLEAN, PollNext(n, runner)
      PROVE  IInv'
  BY <1>1, PollNextStep
<1>2. ASSUME NEW n \in Nodes, RunnerNext(n)
      PROVE  IInv'
  <2>1. ASSUME NEW informed \in BOOLEAN, FinishNode(n, informed)
        PROVE  IInv'
    BY <2>1, FinishNodeStep
  <2> QED
    BY <1>2, <2>1, CheckNodeStep, BaselineStep DEF RunnerNext
<1>3. ASSUME NEW n \in Nodes, SwitchNode(n)
      PROVE  IInv'
  BY <1>3, SwitchNodeStep
<1>4. ASSUME NEW at \in late.since .. clock + MaxPause, StoreLate(at)
      PROVE  IInv'
  <2>1. late.since \in Nat /\ clock \in Nat
    BY DEF IInv, TypeOK
  <2>2. at \in Nat
    BY <2>1, RateAssumption
  <2> QED
    BY <1>4, <2>2, StoreLateStep
<1>5. CASE StartJob \/ FinishJob \/ RestartServer
  BY <1>5, StartJobStep, FinishJobStep, RestartServerStep
<1>6. CASE LoadDashboard \/ SendDashboard
  BY <1>6, LoadDashboardStep, SendDashboardStep
<1>7. ASSUME NEW d \in dashboards, ReceiveDashboard(d)
      PROVE  IInv'
  BY <1>7, ReceiveDashboardStep
<1>8. CASE UNCHANGED vars
  <2>1. /\ UNCHANGED <<nodeVars, serverVars, dashboards, pageVars, budget>>
        /\ UNCHANGED <<enabled, late, told, runtime, job>>
    BY <1>8 DEF vars, serverVars
  <2>2. TypeOK
    BY DEF IInv
  <2>3. budget' \in [BudgetKinds -> Nat] /\ budget'["jobs"] <= budget["jobs"]
    BY <2>1, <2>2, JobTyped DEF TypeOK
  <2>4. QueueInv'
    BY <2>1, <2>3, PageQuiet
  <2>5. \A c \in Claims : c.node \in Nodes /\ c.id > budget["jobs"] /\ Stands(c) => Stands(c)'
    BY <2>1 DEF Stands, FirstOpen, Open
  <2>6. enabled' \subseteq Nodes /\ job' \in Jobs /\ told' \in Nat \cup {Untold}
    BY <2>1, <2>2 DEF TypeOK
  <2> QED
    BY <2>1, <2>3, <2>4, <2>5, <2>6, QueueMoves
<1> QED
  BY <1>1, <1>2, <1>3, <1>4, <1>5, <1>6, <1>7, <1>8 DEF Next

LEMMA Inductive == Spec => []IInv
<1>1. Init => IInv
  BY InitIInv
<1>2. IInv /\ [Next]_vars => IInv'
  BY NextIInv
<1> QED
  BY <1>1, <1>2, PTL DEF Spec

(* Every variable stays of its type: no figure of the page becomes         *)
(* negative, whatever is restarted or overtaken.                           *)
THEOREM TypeCorrect == Spec => []TypeOK
<1>1. IInv => TypeOK
  BY DEF IInv
<1> QED
  BY <1>1, Inductive, PTL

(* The speed: no sample says more than the node has done between its two   *)
(* polls, for any number of nodes, restarts, late polls and dashboards.    *)
THEOREM RatesAreHonest == Spec => []RateIsHonest
<1>1. IInv => RateIsHonest
  <2> SUFFICES ASSUME IInv, NEW n \in Nodes, NEW i \in DOMAIN rates[n].samples
               PROVE  LET sample == rates[n].samples[i] IN
                        /\ sample.seconds \in 1 .. MaxGap
                        /\ sample.from.life <= sample.to.life =>
                             sample.bytes \in 0 .. sample.to.total - sample.from.total
    BY DEF RateIsHonest
  <2>1. RateInv(rates[n]) /\ rates[n].samples \in Seq(Samples)
    BY DEF IInv, RatesInv, TypeOK, Rates
  <2>2. i \in 1 .. Len(rates[n].samples)
    BY <2>1, LenProperties
  <2> QED
    BY <2>1, <2>2 DEF RateInv, Chain, HonestSample
<1> QED
  BY <1>1, Inductive, PTL

(* The samples of a speed follow one another without a hole and are of one *)
(* manual job.                                                             *)
THEOREM SamplesFollow == Spec => []SamplesAreContiguous
<1>1. IInv => SamplesAreContiguous
  <2> SUFFICES ASSUME IInv, NEW n \in Nodes
               PROVE  LET samples == rates[n].samples IN
                 /\ Len(samples) <= Window
                 /\ \A i \in 1 .. Len(samples) - 1 : samples[i].to = samples[i + 1].from
                 /\ \A i \in DOMAIN samples :
                      {samples[i].from.manual, samples[i].to.manual} = {rates[n].session.manual}
    BY DEF SamplesAreContiguous
  <2>1. RateInv(rates[n]) /\ rates[n].samples \in Seq(Samples)
    BY DEF IInv, RatesInv, TypeOK, Rates
  <2>2. DOMAIN rates[n].samples = 1 .. Len(rates[n].samples)
    BY <2>1, LenProperties
  <2> QED
    BY <2>1, <2>2 DEF RateInv, Chain, HonestSample
<1> QED
  BY <1>1, Inductive, PTL

(* The last increase shown for a disk is no more than the current node has *)
(* done between the two dashboards it is made of.                          *)
THEOREM IncreasesAreHonest == Spec => []IncreaseIsHonest
<1>1. IInv => IncreaseIsHonest
  BY DEF IInv, RoundInv
<1> QED
  BY <1>1, Inductive, PTL
=============================================================================

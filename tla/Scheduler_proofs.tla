-------------------------- MODULE Scheduler_proofs --------------------------
(***************************************************************************)
(* Theorems about Scheduler for any number of rules, disks, targets,       *)
(* occurrences, slots and budgeted events: types, that an occurrence       *)
(* starts one job at most, and that none is consumed without a reason.     *)
(***************************************************************************)
EXTENDS Scheduler, FiniteSetTheorems, TLAPS

USE RulesAssumption, TargetAssumption, OccurrenceAssumption, BudgetAssumption

(* What is picked or being tried is one occurrence of a rule at most.      *)
OneClaim ==
  /\ \A c, d \in selected : c.rule = d.rule => c = d
  /\ \A a, b \in attempts : a.rule = b.rule => a = b
  /\ \A c \in selected, a \in attempts : c.rule # a.rule

(* A job was started for the occurrence that the rule has now.             *)
Started(r) == current[r] # NoKey /\ starts[r][current[r]] # 0

(* None was started for an occurrence that is claimed, nor for the one     *)
(* that an edit has put in its place, and the retry interval has not       *)
(* passed: the rule is not due.                                            *)
Open(r, k) ==
  /\ starts[r][k] = 0 /\ ~Started(r)
  /\ rules[r] = "deleted" \/ state[r].fresh
ClaimsOpen ==
  /\ \A c \in selected : Open(c.rule, c.key)
  /\ \A a \in attempts : Open(a.rule, a.key)

(* An occurrence that has started a job is consumed, in memory and in the  *)
(* database, as long as the rule has it.                                   *)
StartsInv ==
  /\ \A r \in Rules, k \in Occurrences : starts[r][k] <= 1
  /\ \A r \in Rules :
       Started(r) /\ rules[r] # "deleted" =>
         state[r].key = current[r] /\ saved.state[r].key = current[r]

(* The attempts are finitely many, which TypeOK needs to count them.       *)
TInv == TypeOK /\ IsFiniteSet(attempts)
SInv == OneClaim /\ ClaimsOpen /\ StartsInv
IInv == TInv /\ SInv

-----------------------------------------------------------------------------
(* Types.                                                                  *)

SavedStates == [state : [Rules -> RunStates], running : [Groups -> Jobs]]
Attempts == [rule : Rules, key : Occurrences, target : Targets, phase : Phases]

(* Spending from a budget leaves a budget.                                 *)
LEMMA SpendType ==
  ASSUME TypeOK, NEW kind \in BudgetKinds, Spend(kind)
  PROVE  budget' \in [BudgetKinds -> Nat]
  BY DEF Spend, TypeOK

(* What is written is of its type: the state of each rule in memory, and   *)
(* none of a deleted rule.                                                 *)
LEMMA WrittenType ==
  ASSUME state' \in [Rules -> RunStates], running' \in [Groups -> Jobs]
  PROVE  /\ Written \in SavedStates
         /\ \A r \in Rules : Written.state[r] =
              IF rules'[r] = "deleted" THEN NoState ELSE state'[r]
  BY DEF Written, SavedStates, RunStates, NoState, NoKey

(* What a save leaves: of each rule the old state or the new one, and of a *)
(* deleted rule perhaps none.                                              *)
LEMMA SaveType ==
  ASSUME TypeOK, Commit \/ SaveFails,
         state' \in [Rules -> RunStates], running' \in [Groups -> Jobs]
  PROVE  /\ saved' \in SavedStates
         /\ budget' \in [BudgetKinds -> Nat]
         /\ \A r \in Rules : \/ saved'.state[r] \in {saved.state[r], state'[r]}
                             \/ rules'[r] = "deleted" /\ saved'.state[r] = NoState
<1>1. CASE Commit
  <2>1. saved' = Written /\ budget' = budget
    BY <1>1 DEF Commit
  <2> QED BY <2>1, WrittenType DEF TypeOK
<1>2. CASE SaveFails
  <2>1. budget' \in [BudgetKinds -> Nat]
    BY <1>2, SpendType DEF SaveFails, BudgetKinds
  <2> QED BY <1>2, <2>1 DEF SaveFails, TypeOK, SavedStates
<1> QED BY <1>1, <1>2

(* An attempt goes on: still as many, of the same occurrences.             *)
LEMMA AdvanceFacts ==
  ASSUME TInv, NEW a \in attempts, NEW phase \in Phases, Advance(a, phase)
  PROVE  /\ attempts' \subseteq Attempts /\ IsFiniteSet(attempts')
         /\ Cardinality(attempts') <= Slots
         /\ attempts' = (attempts \ {a}) \cup {[a EXCEPT !.phase = phase]}
         /\ [a EXCEPT !.phase = phase].rule = a.rule
         /\ [a EXCEPT !.phase = phase].key = a.key
<1> DEFINE b == [a EXCEPT !.phase = phase]
<1>1. attempts \subseteq Attempts /\ IsFiniteSet(attempts) /\ Cardinality(attempts) <= Slots
  BY DEF TInv, TypeOK, Attempts
<1>2. b \in Attempts /\ b.rule = a.rule /\ b.key = a.key
  BY <1>1 DEF Attempts
<1>3. attempts' = (attempts \ {a}) \cup {b}
  BY DEF Advance
<1> HIDE DEF b
<1>4. Cardinality(attempts) \in Nat
  BY <1>1, FS_CardinalityType
<1>5. /\ IsFiniteSet(attempts \ {a})
      /\ Cardinality(attempts \ {a}) = Cardinality(attempts) - 1
  BY <1>1, FS_RemoveElement
<1>6. /\ IsFiniteSet(attempts')
      /\ Cardinality(attempts') <= Cardinality(attempts \ {a}) + 1
  <2>1. /\ IsFiniteSet((attempts \ {a}) \cup {b})
        /\ Cardinality((attempts \ {a}) \cup {b}) =
             IF b \in attempts \ {a} THEN Cardinality(attempts \ {a})
             ELSE Cardinality(attempts \ {a}) + 1
    BY <1>5, FS_AddElement
  <2>2. Cardinality(attempts \ {a}) \in Nat
    BY <1>5, FS_CardinalityType
  <2> QED BY <1>3, <2>1, <2>2
<1>7. Cardinality(attempts') <= Slots
  <2>1. Cardinality(attempts') <= Cardinality(attempts)
    <3>1. Cardinality(attempts') \in Nat
      BY <1>6, FS_CardinalityType
    <3> QED BY <1>4, <1>5, <1>6, <3>1
  <2>2. Cardinality(attempts') \in Nat /\ Slots \in Nat
    BY <1>6, FS_CardinalityType, SlotsAssumption
  <2> QED BY <1>1, <1>4, <2>1, <2>2
<1> QED BY <1>1, <1>2, <1>3, <1>6, <1>7 DEF b

(* An attempt ends.                                                        *)
LEMMA EndFacts ==
  ASSUME TInv, NEW a \in attempts, attempts' = attempts \ {a}
  PROVE  /\ attempts' \subseteq Attempts /\ IsFiniteSet(attempts')
         /\ Cardinality(attempts') <= Slots
<1>1. attempts \subseteq Attempts /\ IsFiniteSet(attempts) /\ Cardinality(attempts) <= Slots
  BY DEF TInv, TypeOK, Attempts
<1>2. Cardinality(attempts) \in Nat /\ Cardinality(attempts') \in Nat /\ Slots \in Nat
  BY <1>1, FS_CardinalityType, FS_RemoveElement, SlotsAssumption
<1>3. IsFiniteSet(attempts') /\ Cardinality(attempts') = Cardinality(attempts) - 1
  BY <1>1, FS_RemoveElement
<1> QED BY <1>1, <1>2, <1>3

(* An update of the settings keeps the types.                              *)
LEMMA UpdateType ==
  ASSUME TInv, Update, rules' \in [Rules -> Statuses]
  PROVE  /\ state' \in [Rules -> RunStates] /\ saved' \in SavedStates
         /\ budget' \in [BudgetKinds -> Nat]
         /\ \A r \in Rules : state'[r] = IF rules'[r] = "deleted" THEN NoState ELSE state[r]
         /\ saved' = Written
         /\ UNCHANGED <<up, running, selected, attempts, disturbed>>
<1>1. budget' \in [BudgetKinds -> Nat]
  BY SpendType DEF Update, TInv, BudgetKinds
<1>2. /\ state' = [r \in Rules |-> IF rules'[r] = "deleted" THEN NoState ELSE state[r]]
      /\ saved' = Written
      /\ UNCHANGED <<up, running, selected, attempts, disturbed>>
  BY DEF Update
<1>3. state' \in [Rules -> RunStates]
  BY <1>2 DEF TInv, TypeOK, NoState, NoKey, RunStates
<1>4. saved' \in SavedStates
  BY <1>2, <1>3, WrittenType DEF TInv, TypeOK
<1> QED BY <1>1, <1>2, <1>3, <1>4

(* The occurrences that arrive, and what has been started for them.        *)
LEMMA ArriveFacts ==
  ASSUME TInv, NEW keys \in [Rules -> Keys], Arrive(keys)
  PROVE  /\ current' \in [Rules -> Keys] /\ starts' \in [Rules -> [Occurrences -> Nat]]
         /\ \A r \in Rules, k \in Occurrences : starts'[r][k] \in {0, starts[r][k]}
         /\ \A r \in Rules : ~Started(r)' \/ (current'[r] = current[r] /\ starts'[r] = starts[r])
<1>1. /\ current' = keys
      /\ starts' = [r \in Rules |-> [k \in Occurrences |->
                      IF k = keys[r] /\ k # current[r] THEN 0 ELSE starts[r][k]]]
  BY DEF Arrive
<1>2. starts \in [Rules -> [Occurrences -> Nat]]
  BY DEF TInv, TypeOK
<1>3. starts' \in [Rules -> [Occurrences -> Nat]]
  BY <1>1, <1>2
<1>4. \A r \in Rules, k \in Occurrences :
        starts'[r][k] = IF k = keys[r] /\ k # current[r] THEN 0 ELSE starts[r][k]
  BY <1>1
<1>5. ASSUME NEW r \in Rules
      PROVE  ~Started(r)' \/ (current'[r] = current[r] /\ starts'[r] = starts[r])
  <2>1. CASE keys[r] = current[r]
    <3>1. starts[r] = [k \in Occurrences |-> starts[r][k]]
      BY <1>2
    <3>2. starts'[r] = [k \in Occurrences |-> starts[r][k]]
      BY <1>1, <2>1
    <3> QED BY <1>1, <2>1, <3>1, <3>2
  <2>2. CASE keys[r] # current[r] /\ keys[r] # NoKey
    <3>1. keys[r] \in Occurrences
      BY <2>2 DEF Keys
    <3>2. starts'[r][keys[r]] = 0
      BY <1>4, <2>2, <3>1
    <3> QED BY <1>1, <3>2 DEF Started
  <2>3. CASE keys[r] = NoKey
    BY <1>1, <2>3 DEF Started
  <2> QED BY <2>1, <2>2, <2>3
<1> QED BY <1>1, <1>3, <1>4, <1>5

(* Every step keeps the types.                                             *)
LEMMA TypeStep ==
  ASSUME TInv, [Next]_vars
  PROVE  TInv'
<1> USE DEF TInv, BudgetKinds
<1>s. /\ saved \in SavedStates /\ attempts \subseteq Attempts
      /\ \A r \in Rules : state[r] \in RunStates /\ saved.state[r] \in RunStates
      /\ \A r \in Rules : current[r] \in Keys /\ target[r] \in Targets
      /\ \A t \in Targets : GroupOf[t] \in Groups
  BY DEF TypeOK, SavedStates, Attempts
<1>1. CASE ProcessSchedules
  <2>1. state' \in [Rules -> RunStates]
    <3>0. \A k \in Keys : k \in Nat
      BY DEF Keys, Occurrences, NoKey
    <3>1. \A r \in Rules : current[r] \in Nat
      BY <1>s, <3>0
    <3>2. \A r \in Rules : /\ [key |-> current[r], fresh |-> TRUE] \in RunStates
                           /\ [state[r] EXCEPT !.fresh = TRUE] \in RunStates
      BY <1>s, <3>1 DEF RunStates
    <3> QED BY <1>1, <1>s, <3>2 DEF ProcessSchedules
  <2>2. selected' \subseteq Candidates
    <3>1. \A r \in Picked : r \in Rules /\ current[r] \in Occurrences /\ target[r] \in Targets
      BY <1>s DEF Picked, Due, Keys
    <3> QED BY <1>1, <3>1 DEF ProcessSchedules, Candidates
  <2>3. running' = running /\ running \in [Groups -> Jobs]
    BY <1>1 DEF ProcessSchedules, TypeOK
  <2>4. saved' \in SavedStates /\ budget' \in [BudgetKinds -> Nat]
    BY <1>1, <2>1, <2>3, SaveType DEF ProcessSchedules
  <2> QED BY <1>1, <2>1, <2>2, <2>4 DEF ProcessSchedules, TypeOK, SavedStates, settings, time
<1>2. CASE Crash
  <2>1. budget' \in [BudgetKinds -> Nat]
    BY <1>2, SpendType DEF Crash
  <2>2. attempts' = {} /\ IsFiniteSet({}) /\ Cardinality({}) = 0 /\ Slots \in Nat
    BY <1>2, FS_EmptySet, SlotsAssumption DEF Crash
  <2>3. saved.state \in [Rules -> RunStates] /\ saved.running \in [Groups -> Jobs]
    BY <1>s DEF SavedStates
  <2>4. {} \subseteq Attempts /\ {} \subseteq Candidates
    OBVIOUS
  <2>5. IsFiniteSet(attempts') /\ Cardinality(attempts') <= Slots
    BY <2>2
  <2> QED BY <1>2, <1>s, <2>1, <2>3, <2>4, <2>5, <2>2
            DEF Crash, TypeOK, SavedStates, Attempts, settings, time
<1>3. CASE Restart
  BY <1>3 DEF Restart, TypeOK, memory, settings, time
<1>4. ASSUME NEW c \in selected, HandOver(c) PROVE TInv'
  <2> DEFINE a == Begun(c)
  <2>1. c \in Candidates /\ a \in Attempts
    BY DEF TypeOK, Candidates, Attempts, Phases, Begun
  <2>2. selected' = selected \ {c} /\ attempts' = attempts \cup {a}
    BY <1>4 DEF HandOver
  <2> HIDE DEF a
  <2>f. IsFiniteSet(attempts) /\ Cardinality(attempts) \in Nat
    BY FS_CardinalityType
  <2>3. /\ IsFiniteSet(attempts')
        /\ Cardinality(attempts') <= Cardinality(attempts) + 1
    <3>1. /\ IsFiniteSet(attempts \cup {a})
          /\ Cardinality(attempts \cup {a}) =
               IF a \in attempts THEN Cardinality(attempts) ELSE Cardinality(attempts) + 1
      BY <2>f, FS_AddElement
    <3> QED BY <2>2, <2>f, <3>1
  <2>g. Cardinality(attempts') \in Nat
    BY <2>3, FS_CardinalityType
  <2>4. Cardinality(attempts') <= Slots
    BY <1>4, <2>f, <2>3, <2>g, SlotsAssumption DEF HandOver
  <2> QED BY <1>4, <1>s, <2>1, <2>2, <2>3, <2>4 DEF HandOver, TypeOK, memory, settings, time, Attempts
<1>5. ASSUME NEW a \in attempts, AttemptNext(a) PROVE TInv'
  <2>s. /\ a.rule \in Rules /\ a.key \in Occurrences /\ a.key \in Nat
        /\ a.target \in Targets /\ GroupOf[a.target] \in Groups
    BY <1>s DEF Attempts, Occurrences
  <2>1. CASE Verify(a)
    BY <2>1, AdvanceFacts DEF Verify, TypeOK, memory, settings, time, Phases, Attempts
  <2>2. CASE Refuse(a)
    BY <2>2, AdvanceFacts DEF Refuse, TypeOK, memory, settings, time, Phases, Attempts
  <2>3. CASE Admit(a)
    <3>1. running' \in [Groups -> Jobs]
      BY <2>3, <2>s DEF Admit, Trigger, Jobs, TypeOK
    <3>2. state' \in [Rules -> RunStates]
      BY <2>3, <1>s, <2>s DEF Admit, RunStates, TypeOK
    <3>3. starts' \in [Rules -> [Occurrences -> Nat]]
      BY <2>3, <2>s DEF Admit, TypeOK
    <3>4. saved' \in SavedStates /\ budget' \in [BudgetKinds -> Nat]
      BY <2>3, <3>1, <3>2, SaveType DEF Admit
    <3>5. attempts' = attempts \ {a}
      BY <2>3 DEF Admit
    <3> QED BY <2>3, <3>1, <3>2, <3>3, <3>4, <3>5, EndFacts
            DEF Admit, TypeOK, SavedStates, Attempts, settings, time
  <2>4. CASE AdmitUnsaved(a)
    <3>1. saved' = saved /\ budget' \in [BudgetKinds -> Nat]
      BY <2>4, SpendType DEF AdmitUnsaved, SaveFails
    <3> QED BY <2>4, <3>1, AdvanceFacts DEF AdmitUnsaved, TypeOK, memory, settings, time, Phases, Attempts
  <2>5. CASE AdmitConflict(a)
    BY <2>5, AdvanceFacts DEF AdmitConflict, TypeOK, memory, settings, time, Phases, Attempts
  <2>6. CASE RecordError(a)
    <3>1. /\ state' = state /\ running' = running
          /\ state \in [Rules -> RunStates] /\ running \in [Groups -> Jobs]
      BY <2>6 DEF RecordError, memory, TypeOK
    <3>2. saved' \in SavedStates /\ budget' \in [BudgetKinds -> Nat]
      BY <2>6, <3>1, SaveType DEF RecordError
    <3>3. attempts' = attempts \ {a}
      BY <2>6 DEF RecordError
    <3> QED BY <2>6, <3>2, <3>3, EndFacts
            DEF RecordError, TypeOK, memory, settings, time, SavedStates, Attempts
  <2> QED BY <1>5, <2>1, <2>2, <2>3, <2>4, <2>5, <2>6 DEF AttemptNext
<1>6. ASSUME NEW r \in Rules, RuleNext(r) PROVE TInv'
  <2>1. ASSUME NEW key \in Occurrences, NextOccurrence(r, key) PROVE TInv'
    <3>1. budget' \in [BudgetKinds -> Nat]
      BY <2>1, SpendType DEF NextOccurrence
    <3>2. [current EXCEPT ![r] = key] \in [Rules -> Keys]
      BY DEF TypeOK, Keys
    <3>3. current' \in [Rules -> Keys] /\ starts' \in [Rules -> [Occurrences -> Nat]]
      BY <2>1, <3>2, ArriveFacts DEF NextOccurrence
    <3> QED BY <2>1, <3>1, <3>3 DEF NextOccurrence, TypeOK, memory, settings
  <2>2. CASE Midnight(r)
    BY <2>2 DEF Midnight, TypeOK, memory, settings
  <2>3. CASE Elapse(r)
    <3>1. state' \in [Rules -> RunStates]
      BY <2>3, <1>s DEF Elapse, TypeOK, RunStates
    <3>2. saved' \in SavedStates
      BY <2>3, <1>s DEF Elapse, SavedStates, RunStates
    <3> QED BY <2>3, <3>1, <3>2 DEF Elapse, TypeOK, SavedStates, settings, time
  <2> QED BY <1>6, <2>1, <2>2, <2>3 DEF RuleNext
<1>7. ASSUME NEW g \in Groups, DiskNext(g) PROVE TInv'
  <2>1. ASSUME NEW trigger \in {"manual", "manual-node"}, Request(g, trigger) PROVE TInv'
    <3>1. budget' \in [BudgetKinds -> Nat]
      BY <2>1, SpendType DEF Request
    <3>2. running' \in [Groups -> Jobs]
      BY <2>1 DEF Request, Jobs, TypeOK
    <3>3. state' = state /\ state \in [Rules -> RunStates]
      BY <2>1 DEF Request, TypeOK
    <3>4. saved' \in SavedStates
      BY <2>1, <3>2, <3>3, WrittenType DEF Request
    <3> QED BY <2>1, <3>1, <3>2, <3>4 DEF Request, TypeOK, SavedStates, settings, time
  <2>2. CASE FinishJob(g)
    <3>1. running' \in [Groups -> Jobs]
      BY <2>2 DEF FinishJob, NoJob, Jobs, TypeOK
    <3>2. state' = state /\ state \in [Rules -> RunStates]
      BY <2>2 DEF FinishJob, TypeOK
    <3>3. saved' \in SavedStates /\ budget' \in [BudgetKinds -> Nat]
      BY <2>2, <3>1, <3>2, SaveType DEF FinishJob
    <3> QED BY <2>2, <3>1, <3>3 DEF FinishJob, TypeOK, SavedStates, settings, time
  <2>3. CASE Disturb(g)
    <3>1. budget' \in [BudgetKinds -> Nat]
      BY <2>3, SpendType DEF Disturb
    <3> QED BY <2>3, <3>1 DEF Disturb, TypeOK, memory, settings, time
  <2>4. CASE Calm(g)
    BY <2>4 DEF Calm, TypeOK, memory, settings, time
  <2> QED BY <1>7, <2>1, <2>2, <2>3, <2>4 DEF DiskNext
<1>8. CASE UNCHANGED vars
  BY <1>8 DEF vars, memory, settings, time, TypeOK
<1>9. CASE SettingsNext
  <2>1. ASSUME NEW r \in Rules, NEW status \in Statuses, SwitchRule(r, status) PROVE TInv'
    <3>1. rules' \in [Rules -> Statuses]
      BY <2>1 DEF SwitchRule, TypeOK
    <3> QED BY <2>1, <3>1, UpdateType DEF SwitchRule, TypeOK, SavedStates, time
  <2>2. ASSUME NEW r \in Rules, NEW t \in Targets, Retarget(r, t) PROVE TInv'
    <3>1. rules' \in [Rules -> Statuses] /\ target' \in [Rules -> Targets]
      BY <2>2 DEF Retarget, TypeOK
    <3> QED BY <2>2, <3>1, UpdateType DEF Retarget, TypeOK, SavedStates, time
  <2>3. ASSUME NEW n \in SingleNode, SwitchNode(n) PROVE TInv'
    <3>1. rules' \in [Rules -> Statuses] /\ barred' \subseteq SingleNode
      BY <2>3 DEF SwitchNode, TypeOK
    <3> QED BY <2>3, <3>1, UpdateType DEF SwitchNode, TypeOK, SavedStates, time
  <2>4. ASSUME NEW r \in Rules, NEW key \in Keys, EditPattern(r, key) PROVE TInv'
    <3>1. rules' \in [Rules -> Statuses] /\ over' \subseteq Rules /\ weekly' \subseteq Rules
      BY <2>4 DEF EditPattern, TypeOK
    <3>2. [current EXCEPT ![r] = key] \in [Rules -> Keys]
      BY DEF TypeOK
    <3>3. current' \in [Rules -> Keys] /\ starts' \in [Rules -> [Occurrences -> Nat]]
      BY <2>4, <3>2, ArriveFacts DEF EditPattern
    <3> QED BY <2>4, <3>1, <3>3, UpdateType DEF EditPattern, TypeOK, SavedStates
  <2>5. ASSUME NEW keys \in [Rules -> Keys], EditZone(keys) PROVE TInv'
    <3>1. /\ rules' \in [Rules -> Statuses] /\ over' \subseteq Rules
          /\ UNCHANGED <<target, weekly, barred>>
      BY <2>5 DEF EditZone, TypeOK, settings
    <3>2. current' \in [Rules -> Keys] /\ starts' \in [Rules -> [Occurrences -> Nat]]
      BY <2>5, ArriveFacts DEF EditZone
    <3> QED BY <2>5, <3>1, <3>2, UpdateType DEF EditZone, TypeOK, SavedStates
  <2> QED BY <1>9, <2>1, <2>2, <2>3, <2>4, <2>5 DEF SettingsNext
<1> QED BY <1>1, <1>2, <1>3, <1>4, <1>5, <1>6, <1>7, <1>8, <1>9 DEF Next

-----------------------------------------------------------------------------
(* Occurrences and jobs.                                                   *)

Claimed == {c.rule : c \in selected} \cup {a.rule : a \in attempts}

(* The kinds of what the lemmas below compare.                             *)
LEMMA Kinds ==
  ASSUME TInv
  PROVE  /\ \A c \in selected : c.rule \in Rules /\ c.key \in Occurrences
         /\ \A a \in attempts : a.rule \in Rules /\ a.key \in Occurrences
         /\ \A r \in Rules : /\ state[r] \in RunStates /\ saved.state[r] \in RunStates
                             /\ current[r] # NoKey => current[r] \in Occurrences
         /\ \A r \in Rules, k \in Occurrences : starts[r][k] \in Nat
         /\ Claimed \subseteq Rules
<1>1. /\ \A r \in Rules : state[r] \in RunStates /\ saved.state[r] \in RunStates
      /\ \A r \in Rules : current[r] \in Keys
      /\ selected \subseteq Candidates /\ attempts \subseteq Attempts
      /\ starts \in [Rules -> [Occurrences -> Nat]]
  BY DEF TInv, TypeOK, Attempts
<1>2. \A c \in selected : c.rule \in Rules /\ c.key \in Occurrences
  BY <1>1 DEF Candidates
<1>3. \A a \in attempts : a.rule \in Rules /\ a.key \in Occurrences
  BY <1>1 DEF Attempts
<1>4. \A r \in Rules : current[r] # NoKey => current[r] \in Occurrences
  BY <1>1 DEF Keys
<1> QED BY <1>1, <1>2, <1>3, <1>4 DEF Claimed

(* Claims stay open while their rules are not due again, also if other     *)
(* occurrences arrive.                                                     *)
LEMMA ClaimsKept ==
  ASSUME TInv, OneClaim, ClaimsOpen,
         selected' \subseteq selected, attempts' \subseteq attempts,
         \A r \in Rules, k \in Occurrences : starts'[r][k] \in {0, starts[r][k]},
         \A r \in Claimed :
           /\ ~Started(r)' \/ (current'[r] = current[r] /\ starts'[r] = starts[r])
           /\ rules[r] = "deleted" \/ state[r].fresh => rules'[r] = "deleted" \/ state'[r].fresh
  PROVE  OneClaim' /\ ClaimsOpen'
<1>1. OneClaim'
  BY DEF OneClaim
<1>2. ASSUME NEW r \in Claimed, NEW k \in Occurrences, Open(r, k) PROVE Open(r, k)'
  <2>1. r \in Rules
    BY Kinds
  <2>2. starts'[r][k] = 0
    BY <1>2, <2>1 DEF Open
  <2>3. ~Started(r)'
    BY <1>2 DEF Open, Started
  <2> QED BY <1>2, <2>2, <2>3 DEF Open
<1>3. /\ \A c \in selected : c.rule \in Claimed /\ c.key \in Occurrences
      /\ \A a \in attempts : a.rule \in Claimed /\ a.key \in Occurrences
  BY Kinds DEF Claimed
<1>4. ClaimsOpen'
  BY <1>2, <1>3 DEF ClaimsOpen
<1> QED BY <1>1, <1>4

(* They stay the same when an attempt goes on.                             *)
LEMMA ClaimsAdvance ==
  ASSUME TInv, OneClaim, ClaimsOpen, NEW a \in attempts, NEW phase \in Phases, Advance(a, phase),
         UNCHANGED <<rules, state, current, selected, starts>>
  PROVE  OneClaim' /\ ClaimsOpen'
<1> DEFINE b == [a EXCEPT !.phase = phase]
<1>1. attempts' = (attempts \ {a}) \cup {b} /\ b.rule = a.rule /\ b.key = a.key
  BY AdvanceFacts
<1> HIDE DEF b
<1>2. OneClaim'
  BY <1>1 DEF OneClaim
<1>3. \A r, k : Open(r, k) => Open(r, k)'
  BY DEF Open, Started
<1>4. ClaimsOpen'
  BY <1>1, <1>3 DEF ClaimsOpen
<1> QED BY <1>2, <1>4

(* A save writes of each key the old one or the new one.                   *)
LEMMA SavedKeys ==
  ASSUME TInv', saved' \in {saved, Written}
  PROVE  \A r \in Rules : \/ saved'.state[r].key \in {saved.state[r].key, state'[r].key}
                          \/ rules'[r] = "deleted"
<1>1. state' \in [Rules -> RunStates] /\ running' \in [Groups -> Jobs]
  BY DEF TInv, TypeOK
<1>2. \A r \in Rules : Written.state[r] = IF rules'[r] = "deleted" THEN NoState ELSE state'[r]
  BY <1>1, WrittenType
<1>3. CASE saved' = saved
  BY <1>3
<1>4. CASE saved' = Written
  BY <1>2, <1>4
<1> QED BY <1>3, <1>4

(* What has started a job stays consumed while keys only go from memory to *)
(* the database and back, whatever save succeeds and whatever arrives.     *)
LEMMA StartsKept ==
  ASSUME TInv, StartsInv,
         \A r \in Rules, k \in Occurrences : starts'[r][k] \in {0, starts[r][k]},
         \A r \in Rules :
           /\ ~Started(r)' \/ (current'[r] = current[r] /\ starts'[r] = starts[r])
           /\ rules[r] = "deleted" => rules'[r] = "deleted"
           /\ rules'[r] = "deleted" \/ state'[r].key \in {state[r].key, saved.state[r].key}
           /\ rules'[r] = "deleted" \/ saved'.state[r].key \in {saved.state[r].key, state'[r].key}
  PROVE  StartsInv'
<1>1. ASSUME NEW r \in Rules, NEW k \in Occurrences PROVE starts'[r][k] <= 1
  <2>1. starts[r][k] <= 1 /\ starts'[r][k] \in {0, starts[r][k]}
    BY DEF StartsInv
  <2> QED BY <2>1
<1>2. ASSUME NEW r \in Rules, Started(r)', rules'[r] # "deleted"
      PROVE  state'[r].key = current'[r] /\ saved'.state[r].key = current'[r]
  <2>1. current'[r] = current[r] /\ Started(r) /\ rules[r] # "deleted"
    BY <1>2 DEF Started
  <2>2. state[r].key = current[r] /\ saved.state[r].key = current[r]
    BY <2>1 DEF StartsInv
  <2>3. state'[r].key = current[r]
    BY <1>2, <2>2
  <2> QED BY <1>2, <2>1, <2>2, <2>3
<1> QED BY <1>1, <1>2 DEF StartsInv

(* Steps that leave rules, occurrences and starts alone, and every state   *)
(* in memory.                                                              *)
LEMMA QuietStep ==
  ASSUME TInv, StartsInv, TInv', saved' \in {saved, Written},
         UNCHANGED <<rules, current, state, starts>>
  PROVE  StartsInv'
<1>1. \A r \in Rules : \/ saved'.state[r].key \in {saved.state[r].key, state'[r].key}
                       \/ rules'[r] = "deleted"
  BY SavedKeys
<1> QED BY <1>1, StartsKept

LEMMA HandOverStep ==
  ASSUME IInv, NEW c \in selected, HandOver(c)
  PROVE  OneClaim' /\ ClaimsOpen'
<1> DEFINE a == Begun(c)
<1>1. /\ selected' = selected \ {c} /\ attempts' = attempts \cup {a}
      /\ UNCHANGED <<rules, state, current, starts>>
  BY DEF HandOver, memory, settings, time
<1>2. a.rule = c.rule /\ a.key = c.key
  BY DEF Begun
<1> HIDE DEF a
<1>3. OneClaim'
  BY <1>1, <1>2 DEF OneClaim, IInv, SInv
<1>4. \A r, k : Open(r, k) => Open(r, k)'
  BY <1>1 DEF Open, Started
<1>5. ClaimsOpen'
  BY <1>1, <1>2, <1>4 DEF ClaimsOpen, IInv, SInv
<1> QED BY <1>3, <1>5

(* A pass of the loop picks what is due, which nobody tries yet.           *)
LEMMA ProcessSchedulesStep ==
  ASSUME IInv, TInv', ProcessSchedules
  PROVE  SInv'
<1>0. TInv /\ OneClaim /\ ClaimsOpen /\ StartsInv
  BY DEF IInv, SInv
<1>1. /\ selected = {} /\ attempts' = attempts
      /\ selected' = {[rule |-> r, key |-> current[r], target |-> target[r]] : r \in Picked}
      /\ rules' = rules /\ current' = current /\ running' = running /\ starts' = starts
      /\ Commit \/ SaveFails
  BY DEF ProcessSchedules, settings, time
<1>2. Skipped \subseteq Rules /\ Picked \subseteq Rules /\ Skipped \cap Picked = {}
  BY DEF Skipped, Picked, DiskWide, NoJob
<1>3. /\ \A r \in Skipped : state'[r] = [key |-> current[r], fresh |-> TRUE]
      /\ \A r \in Picked : state'[r] = [state[r] EXCEPT !.fresh = TRUE]
      /\ \A r \in Rules \ (Skipped \cup Picked) : state'[r] = state[r]
  BY <1>2 DEF ProcessSchedules
<1>4. ASSUME NEW r \in Picked PROVE state'[r].key = state[r].key /\ state'[r].fresh
  <2>1. state'[r] = [state[r] EXCEPT !.fresh = TRUE] /\ state[r] \in RunStates
    BY <1>0, <1>2, <1>3, Kinds
  <2> QED BY <2>1 DEF RunStates
<1>5. \A r \in Skipped \cup Picked : rules[r] = "enabled" /\ ~state[r].fresh /\ ~Started(r)
  <2>1. \A r \in Skipped \cup Picked :
          /\ r \in Rules /\ rules[r] = "enabled" /\ ~state[r].fresh
          /\ current[r] # state[r].key
    BY DEF Skipped, Picked, Due
  <2> QED BY <1>0, <2>1 DEF StartsInv
<1>6. \A a \in attempts : a.rule \in Rules \ (Skipped \cup Picked)
  BY <1>0, <1>5, Kinds DEF ClaimsOpen, Open
<1>7. OneClaim'
  <2>1. \A c \in selected' : c.rule \in Picked /\ c.key = current[c.rule]
                             /\ c = [rule |-> c.rule, key |-> c.key, target |-> target[c.rule]]
    BY <1>1
  <2>2. \A c, d \in selected' : c.rule = d.rule => c = d
    BY <2>1
  <2> QED BY <1>0, <1>1, <1>6, <2>1, <2>2 DEF OneClaim
<1>8. ClaimsOpen'
  <2>1. ASSUME NEW c \in selected' PROVE Open(c.rule, c.key)'
    <3>1. PICK r \in Picked : c.rule = r /\ c.key = current[r]
      BY <1>1
    <3>2. ~Started(r) /\ current[r] # NoKey
      BY <1>5 DEF Picked, Due
    <3> QED BY <1>1, <1>4, <3>1, <3>2 DEF Open, Started
  <2>2. ASSUME NEW a \in attempts' PROVE Open(a.rule, a.key)'
    <3>1. Open(a.rule, a.key) /\ state'[a.rule] = state[a.rule]
      BY <1>0, <1>1, <1>3, <1>6 DEF ClaimsOpen
    <3> QED BY <1>1, <3>1 DEF Open, Started
  <2> QED BY <2>1, <2>2 DEF ClaimsOpen
<1>9. StartsInv'
  <2>1. ASSUME NEW r \in Rules, Started(r)', rules'[r] # "deleted"
        PROVE  state'[r].key = current'[r] /\ saved'.state[r].key = current'[r]
    <3>1. Started(r) /\ rules[r] # "deleted" /\ current'[r] = current[r]
      BY <1>1, <2>1 DEF Started
    <3>2. state[r].key = current[r] /\ saved.state[r].key = current[r]
      BY <1>0, <3>1 DEF StartsInv
    <3>3. r \notin Skipped \cup Picked
      BY <1>5, <3>1
    <3>4. state'[r] = state[r]
      BY <1>3, <3>3
    <3>5. saved'.state[r].key \in {saved.state[r].key, state'[r].key}
      BY <1>1, <2>1, SavedKeys DEF Commit, SaveFails
    <3> QED BY <3>1, <3>2, <3>4, <3>5
  <2> QED BY <1>0, <1>1, <2>1 DEF StartsInv
<1> QED BY <1>7, <1>8, <1>9 DEF SInv

(* What an admission leaves: one more start, of a key that had none.       *)
LEMMA AdmitFacts ==
  ASSUME TInv, ClaimsOpen, NEW a \in attempts, Admit(a)
  PROVE  /\ a.rule \in Rules /\ a.key \in Occurrences
         /\ starts'[a.rule][a.key] = 1
         /\ \A k \in Occurrences \ {a.key} : starts'[a.rule][k] = starts[a.rule][k]
         /\ \A r \in Rules \ {a.rule} : starts'[r] = starts[r] /\ state'[r] = state[r]
         /\ state'[a.rule].key = a.key
<1>1. a.rule \in Rules /\ a.key \in Occurrences /\ starts[a.rule][a.key] = 0
  BY Kinds DEF ClaimsOpen, Open
<1>2. /\ starts' = [starts EXCEPT ![a.rule] = [starts[a.rule] EXCEPT ![a.key] = @ + 1]]
      /\ state' = [state EXCEPT ![a.rule] = [state[a.rule] EXCEPT !.key = a.key]]
  BY DEF Admit
<1>3. /\ starts \in [Rules -> [Occurrences -> Nat]] /\ state \in [Rules -> RunStates]
      /\ state[a.rule] \in RunStates
  BY <1>1 DEF TInv, TypeOK
<1>4. [state[a.rule] EXCEPT !.key = a.key].key = a.key
  BY <1>3 DEF RunStates
<1> QED BY <1>1, <1>2, <1>3, <1>4

(* An admission consumes the occurrence it starts a job for: that one was  *)
(* not started before, and the claim is gone.                              *)
LEMMA AdmitStep ==
  ASSUME IInv, TInv', NEW a \in attempts, Admit(a)
  PROVE  SInv'
<1>0. TInv /\ OneClaim /\ ClaimsOpen /\ StartsInv /\ ~Started(a.rule)
  BY DEF IInv, SInv, ClaimsOpen, Open
<1>1. /\ a.rule \in Rules /\ a.key \in Occurrences
      /\ starts'[a.rule][a.key] = 1
      /\ \A k \in Occurrences \ {a.key} : starts'[a.rule][k] = starts[a.rule][k]
      /\ \A r \in Rules \ {a.rule} : starts'[r] = starts[r] /\ state'[r] = state[r]
      /\ state'[a.rule].key = a.key
  BY <1>0, AdmitFacts
<1>2. /\ attempts' = attempts \ {a} /\ selected' = selected
      /\ UNCHANGED <<rules, current>> /\ saved' = Written
  BY DEF Admit, Commit, settings, time
<1>3. OneClaim'
  BY <1>0, <1>2 DEF OneClaim
<1>4. ClaimsOpen'
  <2>1. ASSUME NEW r \in Rules \ {a.rule}, NEW k, Open(r, k) PROVE Open(r, k)'
    BY <1>1, <1>2, <2>1 DEF Open, Started
  <2>2. \A c \in selected : c.rule \in Rules \ {a.rule} /\ Open(c.rule, c.key)
    BY <1>0, Kinds DEF OneClaim, ClaimsOpen
  <2>3. \A b \in attempts \ {a} : b.rule \in Rules \ {a.rule} /\ Open(b.rule, b.key)
    BY <1>0, Kinds DEF OneClaim, ClaimsOpen
  <2> QED BY <1>2, <2>1, <2>2, <2>3 DEF ClaimsOpen
<1>5. \A r \in Rules : saved'.state[r] = IF rules[r] = "deleted" THEN NoState ELSE state'[r]
  <2>1. state' \in [Rules -> RunStates] /\ running' \in [Groups -> Jobs]
    BY DEF TInv, TypeOK
  <2> QED BY <1>2, <2>1, WrittenType
<1>6. StartsInv'
  <2>1. ASSUME NEW r \in Rules, NEW k \in Occurrences PROVE starts'[r][k] <= 1
    BY <1>0, <1>1 DEF StartsInv
  <2>2. ASSUME NEW r \in Rules, Started(r)', rules'[r] # "deleted"
        PROVE  state'[r].key = current'[r] /\ saved'.state[r].key = current'[r]
    <3>1. CASE r = a.rule
      <4>1. current[r] \in Occurrences /\ starts'[r][current[r]] # 0 /\ starts[r][current[r]] = 0
        BY <1>0, <1>2, <2>2, <3>1, Kinds DEF Started
      <4>2. current[r] = a.key
        BY <1>1, <3>1, <4>1
      <4> QED BY <1>1, <1>2, <1>5, <2>2, <3>1, <4>2
    <3>2. CASE r # a.rule
      <4>1. Started(r) /\ state'[r] = state[r]
        BY <1>1, <1>2, <2>2, <3>2 DEF Started
      <4>2. state[r].key = current[r]
        BY <1>0, <1>2, <2>2, <4>1 DEF StartsInv
      <4> QED BY <1>2, <1>5, <2>2, <4>1, <4>2
    <3> QED BY <3>1, <3>2
  <2> QED BY <2>1, <2>2 DEF StartsInv
<1> QED BY <1>3, <1>4, <1>6 DEF SInv

(* An update of the settings, whatever occurrences it makes arrive.        *)
LEMMA UpdateStep ==
  ASSUME IInv, TInv', Update, rules' \in [Rules -> Statuses],
         \A r \in Rules : rules[r] = "deleted" => rules'[r] = "deleted",
         \A r \in Rules, k \in Occurrences : starts'[r][k] \in {0, starts[r][k]},
         \A r \in Rules : ~Started(r)' \/ (current'[r] = current[r] /\ starts'[r] = starts[r])
  PROVE  SInv'
<1>0. TInv /\ OneClaim /\ ClaimsOpen /\ StartsInv
  BY DEF IInv, SInv
<1>1. /\ \A r \in Rules : state'[r] = IF rules'[r] = "deleted" THEN NoState ELSE state[r]
      /\ selected' = selected /\ attempts' = attempts /\ saved' = Written
  BY <1>0, UpdateType
<1>2. Claimed \subseteq Rules
  BY <1>0, Kinds
<1>3. \A r \in Rules : rules[r] = "deleted" \/ state[r].fresh =>
        rules'[r] = "deleted" \/ state'[r].fresh
  BY <1>1
<1>4. OneClaim' /\ ClaimsOpen'
  BY <1>0, <1>1, <1>2, <1>3, ClaimsKept
<1>5. \A r \in Rules : rules'[r] = "deleted" \/ state'[r].key = state[r].key
  BY <1>1
<1>6. \A r \in Rules : \/ saved'.state[r].key \in {saved.state[r].key, state'[r].key}
                       \/ rules'[r] = "deleted"
  BY <1>1, SavedKeys
<1>7. StartsInv'
  BY <1>0, <1>5, <1>6, StartsKept
<1> QED BY <1>4, <1>7 DEF SInv

LEMMA SettingsStep ==
  ASSUME IInv, TInv', SettingsNext
  PROVE  SInv'
<1>0. TInv /\ rules \in [Rules -> Statuses] /\ rules' \in [Rules -> Statuses]
  BY DEF IInv, TInv, TypeOK
<1>1. ASSUME UNCHANGED time, UNCHANGED starts, Update,
             \A r \in Rules : rules[r] = "deleted" => rules'[r] = "deleted"
      PROVE  SInv'
  <2>1. /\ \A r \in Rules, k \in Occurrences : starts'[r][k] \in {0, starts[r][k]}
        /\ \A r \in Rules : ~Started(r)' \/ (current'[r] = current[r] /\ starts'[r] = starts[r])
    BY <1>1 DEF time
  <2> QED BY <1>0, <1>1, <2>1, UpdateStep
<1>2. ASSUME NEW keys \in [Rules -> Keys], Arrive(keys), rules' = rules, Update PROVE SInv'
  BY <1>0, <1>2, ArriveFacts, UpdateStep
<1>3. ASSUME NEW r \in Rules, NEW status \in Statuses, SwitchRule(r, status) PROVE SInv'
  <2>1. \A q \in Rules : rules[q] = "deleted" => rules'[q] = "deleted"
    BY <1>0, <1>3 DEF SwitchRule
  <2> QED BY <1>1, <1>3, <2>1 DEF SwitchRule
<1>4. ASSUME NEW r \in Rules, NEW t \in Targets, Retarget(r, t) PROVE SInv'
  BY <1>1, <1>4 DEF Retarget
<1>5. ASSUME NEW n \in SingleNode, SwitchNode(n) PROVE SInv'
  BY <1>1, <1>5 DEF SwitchNode
<1>6. ASSUME NEW r \in Rules, NEW key \in Keys, EditPattern(r, key) PROVE SInv'
  <2>1. [current EXCEPT ![r] = key] \in [Rules -> Keys]
    BY <1>0 DEF TInv, TypeOK
  <2> QED BY <1>2, <1>6, <2>1 DEF EditPattern
<1>7. ASSUME NEW keys \in [Rules -> Keys], EditZone(keys) PROVE SInv'
  BY <1>2, <1>7 DEF EditZone, settings
<1> QED BY <1>3, <1>4, <1>5, <1>6, <1>7 DEF SettingsNext

(* Every step keeps what the theorems rest on.                             *)
LEMMA SafetyStep ==
  ASSUME IInv, TInv', [Next]_vars
  PROVE  SInv'
<1>0. TInv /\ OneClaim /\ ClaimsOpen /\ StartsInv
  BY DEF IInv, SInv
<1>2. Claimed \subseteq Rules
  BY <1>0, Kinds
<1>3. ASSUME UNCHANGED <<rules, current, state, starts, selected, attempts>>
      PROVE  OneClaim' /\ ClaimsOpen'
  <2>1. \A r, k : Open(r, k) => Open(r, k)'
    BY <1>3 DEF Open, Started
  <2> QED BY <1>0, <1>3, <2>1 DEF OneClaim, ClaimsOpen
<1>4. CASE ProcessSchedules
  BY <1>4, ProcessSchedulesStep
<1>5. CASE Crash
  <2>1. /\ selected' = {} /\ attempts' = {} /\ state' = saved.state /\ saved' = saved
        /\ UNCHANGED <<rules, current, starts>>
    BY <1>5 DEF Crash, settings, time
  <2>2. OneClaim' /\ ClaimsOpen'
    BY <2>1 DEF OneClaim, ClaimsOpen
  <2>3. StartsInv'
    BY <1>0, <2>1, StartsKept
  <2> QED BY <2>2, <2>3 DEF SInv
<1>6. CASE Restart
  BY <1>0, <1>3, <1>6, QuietStep DEF Restart, memory, settings, time, SInv
<1>7. ASSUME NEW c \in selected, HandOver(c) PROVE SInv'
  <2>1. StartsInv'
    BY <1>0, <1>7, QuietStep DEF HandOver, memory, settings, time
  <2> QED BY <1>7, <2>1, HandOverStep DEF SInv
<1>8. ASSUME NEW a \in attempts, AttemptNext(a) PROVE SInv'
  <2>1. CASE Admit(a)
    BY <2>1, AdmitStep
  <2>2. CASE RecordError(a)
    <3>1. /\ attempts' \subseteq attempts /\ saved' \in {saved, Written}
          /\ UNCHANGED <<rules, current, state, selected, starts>>
      BY <2>2 DEF RecordError, memory, settings, time, Commit, SaveFails
    <3>2. StartsInv'
      BY <1>0, <3>1, QuietStep
    <3>3. OneClaim' /\ ClaimsOpen'
      <4>1. OneClaim'
        BY <1>0, <3>1 DEF OneClaim
      <4>2. \A r, k : Open(r, k) => Open(r, k)'
        BY <3>1 DEF Open, Started
      <4>3. ClaimsOpen'
        BY <1>0, <3>1, <4>2 DEF ClaimsOpen
      <4> QED BY <4>1, <4>3
    <3> QED BY <3>2, <3>3 DEF SInv
  <2>3. ASSUME NEW phase \in Phases, Advance(a, phase), saved' = saved,
               UNCHANGED <<rules, current, state, selected, starts>>
        PROVE  SInv'
    BY <1>0, <2>3, ClaimsAdvance, QuietStep DEF SInv
  <2>4. CASE Verify(a)
    BY <2>3, <2>4 DEF Verify, Phases, memory, settings, time
  <2>5. CASE Refuse(a)
    BY <2>3, <2>5 DEF Refuse, Phases, memory, settings, time
  <2>6. CASE AdmitUnsaved(a)
    BY <2>3, <2>6 DEF AdmitUnsaved, SaveFails, Phases, memory, settings, time
  <2>7. CASE AdmitConflict(a)
    BY <2>3, <2>7 DEF AdmitConflict, Phases, memory, settings, time
  <2> QED BY <1>8, <2>1, <2>2, <2>4, <2>5, <2>6, <2>7 DEF AttemptNext
<1>9. ASSUME NEW r \in Rules, RuleNext(r) PROVE SInv'
  <2>1. ASSUME NEW key \in Occurrences, NextOccurrence(r, key) PROVE SInv'
    <3>1. /\ UNCHANGED <<rules, state, saved, selected, attempts>>
          /\ Arrive([current EXCEPT ![r] = key])
      BY <2>1 DEF NextOccurrence, memory, settings
    <3>2. [current EXCEPT ![r] = key] \in [Rules -> Keys]
      BY <1>0 DEF TInv, TypeOK, Keys
    <3>3. /\ \A q \in Rules, k \in Occurrences : starts'[q][k] \in {0, starts[q][k]}
          /\ \A q \in Rules : \/ ~Started(q)'
                              \/ current'[q] = current[q] /\ starts'[q] = starts[q]
      BY <1>0, <3>1, <3>2, ArriveFacts
    <3>4. OneClaim' /\ ClaimsOpen'
      BY <1>0, <1>2, <3>1, <3>3, ClaimsKept
    <3>5. StartsInv'
      BY <1>0, <3>1, <3>3, StartsKept
    <3> QED BY <3>4, <3>5 DEF SInv
  <2>2. CASE Midnight(r)
    BY <1>0, <1>3, <2>2, QuietStep DEF Midnight, memory, settings, SInv
  <2>3. CASE Elapse(r)
    <3>1. /\ UNCHANGED <<rules, current, selected, attempts, starts>>
          /\ state' = [state EXCEPT ![r].fresh = FALSE]
          /\ saved' = [saved EXCEPT !.state[r].fresh = FALSE]
          /\ r \notin Claimed
      BY <2>3 DEF Elapse, Claimed, settings, time
    <3>2. \A q \in Rules : state'[q].key = state[q].key /\ saved'.state[q].key = saved.state[q].key
      <4>1. /\ state \in [Rules -> RunStates] /\ saved.state \in [Rules -> RunStates]
            /\ saved \in SavedStates
        BY <1>0 DEF TInv, TypeOK, SavedStates
      <4>2. saved'.state = [saved.state EXCEPT ![r].fresh = FALSE]
        BY <3>1, <4>1 DEF SavedStates
      <4>3. ASSUME NEW f \in [Rules -> RunStates], NEW q \in Rules
            PROVE  [f EXCEPT ![r].fresh = FALSE][q].key = f[q].key
        BY DEF RunStates
      <4> QED BY <3>1, <4>1, <4>2, <4>3
    <3>3. \A q \in Rules \ {r} : state'[q] = state[q]
      BY <1>0, <3>1 DEF TInv, TypeOK
    <3>4. \A q \in Claimed : state'[q] = state[q] /\ q \in Rules
      BY <1>2, <3>1, <3>3
    <3>5. OneClaim' /\ ClaimsOpen'
      BY <1>0, <3>1, <3>4, ClaimsKept
    <3>6. StartsInv'
      BY <1>0, <3>1, <3>2, StartsKept
    <3> QED BY <3>5, <3>6 DEF SInv
  <2> QED BY <1>9, <2>1, <2>2, <2>3 DEF RuleNext
<1>10. ASSUME NEW g \in Groups, DiskNext(g) PROVE SInv'
  <2>1. UNCHANGED <<rules, current, state, selected, attempts, starts>>
    BY <1>10 DEF DiskNext, Request, FinishJob, Disturb, Calm, memory, settings, time
  <2>2. saved' \in {saved, Written}
    BY <1>10 DEF DiskNext, Request, FinishJob, Disturb, Calm, Commit, SaveFails
  <2> QED BY <1>0, <1>3, <2>1, <2>2, QuietStep DEF SInv
<1>11. CASE UNCHANGED vars
  BY <1>0, <1>3, <1>11, QuietStep DEF vars, memory, settings, time, SInv
<1>12. CASE SettingsNext
  BY <1>12, SettingsStep
<1> QED BY <1>4, <1>5, <1>6, <1>7, <1>8, <1>9, <1>10, <1>11, <1>12 DEF Next

-----------------------------------------------------------------------------
(* The inductive invariant.                                                *)
LEMMA Initially == Init => IInv
<1> SUFFICES ASSUME Init PROVE IInv
  OBVIOUS
<1>1. IsFiniteSet({}) /\ Cardinality({}) = 0 /\ Slots \in Nat
  BY FS_EmptySet, SlotsAssumption
<1>2. NoState \in RunStates /\ NoJob \in Jobs
  BY DEF NoState, NoKey, RunStates, NoJob, Jobs
<1>3. TInv
  BY <1>1, <1>2 DEF Init, TInv, TypeOK, Statuses, Keys
<1>4. OneClaim /\ ClaimsOpen
  BY DEF Init, OneClaim, ClaimsOpen
<1>5. StartsInv
  BY DEF Init, StartsInv, Started
<1> QED BY <1>3, <1>4, <1>5 DEF IInv, SInv

LEMMA Inductive == IInv /\ [Next]_vars => IInv'
  BY TypeStep, SafetyStep DEF IInv

(* IInv holds of every behaviour, with or without the fairness in Spec.    *)
LEMMA Invariant == Spec => []IInv
  BY Initially, Inductive, PTL DEF Spec

(* Every variable has its type; no more attempts than slots, which is what *)
(* the semaphore is for (schedule.go 99-113).                              *)
THEOREM TypeCorrect == Spec => []TypeOK
<1>1. IInv => TypeOK
  BY DEF IInv, TInv
<1> QED BY <1>1, Invariant, PTL

(* From the time an occurrence of a rule comes until the rule has another, *)
(* one job at most is started for it, whatever is retried, refused, rolled *)
(* back or lost in a crash, and whatever edits of the settings come in     *)
(* between (schedule.go 61, 119; orchestrator.go 620-644). It rests on     *)
(* SlotsAssumption: no attempt outlives the retry interval.                *)
THEOREM StartsAtMostOnce == Spec => []OccurrenceStartsOnce
<1>1. IInv => OccurrenceStartsOnce
  BY DEF IInv, SInv, StartsInv, OccurrenceStartsOnce
<1> QED BY <1>1, Invariant, PTL

(* What a step may make of the keys: a job of this occurrence, of which    *)
(* there was none, a disk-wide queue, or what the database has.            *)
Reason(r) ==
  \/ state'[r].key \in {NoKey, state[r].key, saved.state[r].key}
  \/ /\ starts'[r][state'[r].key] = 1
     /\ \E g \in Groups : running[g] = NoJob /\ running'[g].rule = r
  \/ state'[r].key = current[r] /\ DiskWide(running[Disk(r)])

LEMMA ReasonStep ==
  ASSUME IInv, [Next]_vars, NEW r \in Rules
  PROVE  Reason(r)
<1>0. TInv /\ ClaimsOpen /\ state \in [Rules -> RunStates] /\ rules \in [Rules -> Statuses]
  BY DEF IInv, SInv, TInv, TypeOK
<1>1. ASSUME state'[r].key = state[r].key PROVE Reason(r)
  BY <1>1 DEF Reason
<1>2. CASE ProcessSchedules
  <2>1. CASE r \in Skipped
    <3>1. state'[r] = [key |-> current[r], fresh |-> TRUE] /\ DiskWide(running[Disk(r)])
      BY <1>2, <2>1 DEF ProcessSchedules, Skipped
    <3>2. state'[r].key = current[r]
      BY <3>1
    <3> QED BY <3>1, <3>2 DEF Reason
  <2>2. CASE r \in Picked \ Skipped
    <3>1. state'[r] = [state[r] EXCEPT !.fresh = TRUE] /\ state[r] \in RunStates
      BY <1>0, <1>2, <2>2 DEF ProcessSchedules
    <3>2. state'[r].key = state[r].key
      BY <3>1 DEF RunStates
    <3> QED BY <1>1, <3>2
  <2>3. CASE r \notin Picked \cup Skipped
    BY <1>1, <1>2, <2>3 DEF ProcessSchedules
  <2> QED BY <2>1, <2>2, <2>3
<1>3. CASE Crash
  BY <1>3 DEF Crash, Reason
<1>4. ASSUME NEW a \in attempts, Admit(a) PROVE Reason(r)
  <2>1. /\ a.rule \in Rules /\ starts'[a.rule][a.key] = 1 /\ state'[a.rule].key = a.key
        /\ \A q \in Rules \ {a.rule} : state'[q] = state[q]
    BY <1>0, <1>4, AdmitFacts
  <2>2. CASE r = a.rule
    <3> DEFINE g == GroupOf[a.target]
    <3>1. g \in Groups /\ running \in [Groups -> Jobs]
      BY <1>0 DEF TInv, TypeOK
    <3>2. running[g] = NoJob /\ running' = [running EXCEPT ![g] =
                                  [trigger |-> Trigger(a.target), rule |-> a.rule]]
      BY <1>4 DEF Admit
    <3> HIDE DEF g
    <3>3. running'[g].rule = a.rule
      BY <3>1, <3>2
    <3> QED BY <2>1, <2>2, <3>1, <3>2, <3>3 DEF Reason
  <2>3. CASE r # a.rule
    BY <1>1, <2>1, <2>3
  <2> QED BY <2>2, <2>3
<1>5. ASSUME NEW q \in Rules, Elapse(q) PROVE Reason(r)
  <2>1. state' = [state EXCEPT ![q] = [state[q] EXCEPT !.fresh = FALSE]]
    BY <1>5 DEF Elapse
  <2>2. [state[q] EXCEPT !.fresh = FALSE].key = state[q].key
    BY <1>0 DEF RunStates
  <2> QED BY <1>0, <1>1, <2>1, <2>2
<1>6. CASE SettingsNext
  <2>1. Update
    BY <1>6 DEF SettingsNext, SwitchRule, Retarget, SwitchNode, EditPattern, EditZone
  <2>2. state'[r] = NoState \/ state'[r] = state[r]
    BY <2>1 DEF Update
  <2> QED BY <1>1, <2>2 DEF Reason, NoState
<1>7. ASSUME state' = state PROVE Reason(r)
  BY <1>1, <1>7
<1>8. ASSUME NEW c \in selected, HandOver(c) PROVE Reason(r)
  BY <1>7, <1>8 DEF HandOver, memory
<1>9. ASSUME NEW a \in attempts, AttemptNext(a) PROVE Reason(r)
  BY <1>4, <1>7, <1>9 DEF AttemptNext, Verify, Refuse, AdmitUnsaved, AdmitConflict, RecordError, memory
<1>10. ASSUME NEW q \in Rules, RuleNext(q) PROVE Reason(r)
  BY <1>5, <1>7, <1>10 DEF RuleNext, NextOccurrence, Midnight, memory
<1>11. ASSUME NEW g \in Groups, DiskNext(g) PROVE Reason(r)
  BY <1>7, <1>11 DEF DiskNext, Request, FinishJob, Disturb, Calm, memory
<1>12. CASE Restart \/ UNCHANGED vars
  BY <1>7, <1>12 DEF Restart, vars, memory
<1> QED BY <1>2, <1>3, <1>6, <1>8, <1>9, <1>10, <1>11, <1>12 DEF Next

(* An occurrence is consumed only by the one job that is admitted for it,  *)
(* or because its disk has a disk-wide queue: nothing that fails, is       *)
(* rolled back or is lost in a crash loses it (schedule.go 71-84,          *)
(* orchestrator.go 620-643).                                               *)
THEOREM ConsumedWithReason == Spec => ConsumedForAReason
<1> DEFINE Step ==
      \A r \in Rules :
        state'[r].key \notin {NoKey, state[r].key, saved.state[r].key} =>
          \/ /\ starts'[r][state'[r].key] = 1
             /\ \E g \in Groups : running[g] = NoJob /\ running'[g].rule = r
          \/ state'[r].key = current[r] /\ DiskWide(running[Disk(r)])
<1>1. IInv /\ [Next]_vars => [Step]_vars
  BY ReasonStep DEF Reason
<1>2. Spec => [][Step]_vars
  BY <1>1, Invariant, PTL DEF Spec
<1> QED BY <1>2 DEF ConsumedForAReason
=============================================================================

--------------------------- MODULE QueueContract ---------------------------
(***************************************************************************)
(* What the README promises of the queue of one disk (README.md 6,         *)
(* 157-172), without processes, nodes, polls or a database: its nodes are  *)
(* taken in settings order, each one is brought to an end before the next  *)
(* is touched, none is worked on twice, a stop lets the current node end   *)
(* and takes no other. A crash is no event here: the queue goes on where   *)
(* it was.                                                                 *)
(***************************************************************************)
EXTENDS Naturals

CONSTANT Nodes   \* positions in settings order

VARIABLES
  queue,  \* "closed", "open" or "stopping"
  phase   \* where each node stands

Queues == {"closed", "open", "stopping"}
Phases == {"out", "waiting", "taken", "working", "done"}

ContractTypeOK == queue \in Queues /\ phase \in [Nodes -> Phases]

Idle(n) == phase[n] \in {"out", "waiting", "done"}
Turn(n) == \A m \in Nodes : m < n => phase[m] \in {"out", "done"}

ContractInit == queue = "closed" /\ phase = [n \in Nodes |-> "out"]

Accept(S) ==
  /\ queue = "closed" /\ S # {}
  /\ queue' = "open"
  /\ phase' = [n \in Nodes |-> IF n \in S THEN "waiting" ELSE "out"]

Take(n) ==
  /\ queue = "open" /\ phase[n] = "waiting" /\ Turn(n)
  /\ phase' = [phase EXCEPT ![n] = "taken"]
  /\ UNCHANGED queue

(* Nothing was started on the node yet: it waits for its turn again.       *)
PutBack(n) ==
  /\ queue # "closed" /\ phase[n] = "taken"
  /\ phase' = [phase EXCEPT ![n] = "waiting"]
  /\ UNCHANGED queue

Work(n) ==
  /\ queue # "closed" /\ phase[n] = "taken"
  /\ phase' = [phase EXCEPT ![n] = "working"]
  /\ UNCHANGED queue

End(n) ==
  /\ queue # "closed" /\ phase[n] \in {"taken", "working"}
  /\ phase' = [phase EXCEPT ![n] = "done"]
  /\ UNCHANGED queue

Halt ==
  /\ queue # "closed"
  /\ queue' = "stopping"
  /\ UNCHANGED phase

Close ==
  /\ queue # "closed"
  /\ \A n \in Nodes : Idle(n)
  /\ queue = "open" => \A n \in Nodes : phase[n] # "waiting"
  /\ queue' = "closed"
  /\ phase' = [n \in Nodes |-> IF phase[n] = "out" THEN "out" ELSE "done"]

ContractNext ==
  \/ \E S \in SUBSET Nodes : Accept(S)
  \/ \E n \in Nodes : Take(n) \/ PutBack(n) \/ Work(n) \/ End(n)
  \/ Halt \/ Close

ContractSpec == ContractInit /\ [][ContractNext]_<<queue, phase>>

=============================================================================

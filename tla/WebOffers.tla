----------------------------- MODULE WebOffers -----------------------------
(***************************************************************************)
(* Which commands the page offers for a disk and for a node, and what the  *)
(* server makes of them. The dashboard of a moment (orchestrator.go,       *)
(* dashboard) is drawn three times over (web/app.js): as a row of the      *)
(* table of disks, as a card of a disk and as a row for each node, and     *)
(* each works out by itself what may be started.                           *)
(*                                                                         *)
(* settings, jobs and running are Admission's. What the poller knows of    *)
(* the nodes, a parameter called cache here, is left open, and so is the   *)
(* current node of a job.                                                  *)
(***************************************************************************)
EXTENDS Admission

NoNode == 0
ASSUME NodesAssumption == Nodes \subseteq Nat \ {NoNode}

(* What the last poll said of a node. A failed one keeps the information   *)
(* of the poll before (pollNode), so that of an unreachable node may say   *)
(* that it compacts; barred: manual compaction is disabled on the node.    *)
NodeStatuses == {"idle", "busy", "barred", "offline", "offline busy"}
Online(status) == status \in {"idle", "busy", "barred"}
Compacting(status) == status \in {"busy", "offline busy"}

-----------------------------------------------------------------------------
(* The dashboard.                                                          *)

ActiveJob(g) == running[g] # NoJob
Reserved(g) == IF ActiveJob(g) THEN jobs[running[g]].members ELSE {}

(* Mutant: a node is shown where the settings have it.                     *)
ShownGroupBySettings(n) == settings.home[n]

(* A node that a job holds is shown with the disk of the job, wherever the *)
(* settings have it by now.                                                *)
ShownGroup(n) ==
  IF \E g \in Groups : n \in Reserved(g) THEN CHOOSE g \in Groups : n \in Reserved(g)
  ELSE settings.home[n]

ShownNodes(g) == {n \in Nodes : settings.home[n] # NoGroup /\ ShownGroup(n) = g}
EnabledNodes(g) == ShownNodes(g) \cap settings.enabled

-----------------------------------------------------------------------------
(* app.js.                                                                 *)

First(nodes) == IF nodes = {} THEN NoNode ELSE CHOOSE n \in nodes : \A m \in nodes : n <= m

(* groupContext, what row and card have in common. current is the node     *)
(* that the job of the disk names, if there is a job and it names one.     *)
groupContext(g, cache, current) ==
  LET compacting == {n \in EnabledNodes(g) : Compacting(cache[n])}
  IN [job |-> ActiveJob(g),
      currentNode |-> IF ActiveJob(g) /\ current \in ShownNodes(g) THEN current
                      ELSE First(compacting),
      unavailable |-> {n \in EnabledNodes(g) : ~Online(cache[n])},
      active |-> ActiveJob(g) \/ compacting # {},
      ready |-> EnabledNodes(g) # {} /\ \A n \in EnabledNodes(g) : cache[n] = "idle"]

Start(context) == IF context.ready THEN "start" ELSE "start, disabled"

(* groupOperationRow: status, node and button.                             *)
groupOperationRow(g, cache, current) ==
  LET context == groupContext(g, cache, current)
  IN [status |-> IF context.job THEN "job" ELSE IF context.active THEN "working"
                 ELSE IF context.unavailable # {} THEN "offline"
                 ELSE IF EnabledNodes(g) # {} THEN "idle" ELSE "no nodes",
      node |-> context.currentNode,
      button |-> IF context.job THEN "stop" ELSE IF context.active THEN "busy" ELSE Start(context)]

(* Mutant: the card asks for a job only.                                   *)
groupCardOfJob(g, cache, current) ==
  LET context == groupContext(g, cache, current)
  IN [status |-> IF context.job THEN "job" ELSE IF context.unavailable # {} THEN "offline"
                 ELSE "idle",
      node |-> IF context.job /\ current \in EnabledNodes(g) THEN current ELSE NoNode,
      button |-> IF context.job THEN "stop" ELSE Start(context)]

(* groupCard: the same from a node that works without a job, and with the  *)
(* current node of a job only if it is enabled.                            *)
groupCard(g, cache, current) ==
  LET context == groupContext(g, cache, current)
      externalNode == IF context.job THEN NoNode ELSE context.currentNode
  IN [status |-> IF context.job THEN "job" ELSE IF externalNode # NoNode THEN "working"
                 ELSE IF context.unavailable # {} THEN "offline" ELSE "idle",
      node |-> IF context.job /\ current \in EnabledNodes(g) THEN current ELSE externalNode,
      button |-> IF context.job THEN "stop" ELSE IF externalNode # NoNode THEN "busy"
                 ELSE Start(context)]

(* nodeRow: why a node cannot be started, or "" if its button is enabled.  *)
startBlocked(n, cache) ==
  LET peers == EnabledNodes(ShownGroup(n)) \ {n}
  IN IF Compacting(cache[n]) THEN "running"
     ELSE IF n \notin settings.enabled THEN "disabled"
     ELSE IF ActiveJob(ShownGroup(n)) THEN "queue"
     ELSE IF ~Online(cache[n]) THEN "offline"
     ELSE IF cache[n] = "barred" THEN "barred"
     ELSE IF \E m \in peers : ~Online(cache[m]) THEN "peer offline"
     ELSE IF \E m \in peers : Compacting(cache[m]) THEN "peer running"
     ELSE ""

-----------------------------------------------------------------------------
(* Properties. They speak of settings, jobs and running only. Each state   *)
(* of these is reached without a request under way and with all saved, so  *)
(* it is enough to ask then.                                               *)
Quiet ==
  /\ up /\ \A r \in Requesters : req[r] = NoRequest
  /\ saved = [settings |-> settings, jobs |-> jobs]
Caches(g) == [ShownNodes(g) -> NodeStatuses]

(* The three places where the page works out what can be done agree: row   *)
(* and card of a disk have the same status and button, a disk can be       *)
(* started exactly if it has enabled nodes and each can be started in its  *)
(* own row, and a node that the card names is the one in the row           *)
(* (app.js 326-345, 386-433, 533-569, 600-622).                            *)
ViewsAgree ==
  Quiet => \A g \in Groups : \A cache \in Caches(g), current \in Reserved(g) \cup {NoNode} :
    LET row == groupOperationRow(g, cache, current)
        card == groupCard(g, cache, current)
    IN /\ row.button = card.button
       /\ row.status = card.status \/ (row.status = "no nodes" /\ card.status = "idle")
       /\ card.node \in {row.node, NoNode}
       /\ row.button = "start" <=> /\ EnabledNodes(g) # {}
                                   /\ \A n \in EnabledNodes(g) : startBlocked(n, cache) = ""

(* Nodes of the disk that a job of another disk holds: they were moved     *)
(* while it ran.                                                           *)
HeldElsewhere(g) == {n \in GroupNodes(g) : \E h \in Groups \ {g} : n \in Reserved(h)}

(* A start that the page offers is one that the server accepts if nothing  *)
(* has changed since the last poll: the nodes asked for are there, none is *)
(* reserved and the preflight of the disk passes. Only a node that another *)
(* disk's job still holds can be in the way, for the page does not show it *)
(* with the disk it was moved to (app.js 336-338, 600-622; orchestrator.go *)
(* 261-285, 563-600, 651-711).                                             *)
OfferedStartIsAccepted ==
  Quiet => \A g \in Groups : \A cache \in Caches(g) :
    LET asked == {n \in ShownNodes(g) : startBlocked(n, cache) = ""}
        free == GroupNodes(g) \ HeldElsewhere(g)
        passes == \A n \in free : Online(cache[n]) /\ ~Compacting(cache[n])
    IN /\ groupOperationRow(g, cache, NoNode).button = "start" =>
            free # {} /\ ~Conflict(g, free) /\ passes
       /\ \A n \in asked : n \in GroupNodes(g) /\ ~Conflict(g, {n}) /\ passes
=============================================================================

---------------------------- MODULE WebSettings ----------------------------
(***************************************************************************)
(* The settings and the schedule view of the web interface (web/app.js):   *)
(* each browser page edits a draft of all settings and saves it as a       *)
(* whole; the server (updateSettings, publicSettings) checks a draft,      *)
(* fills in the API keys that were left blank, stores it and answers with  *)
(* what it has stored by then. Pages, and several calls of one page, go on *)
(* at the same time; answers come in any order, late or never.             *)
(*                                                                         *)
(* Of names only the order and the blank one matter, of an address which   *)
(* of the two sides takes it, of the pattern of a rule its mode and        *)
(* whether a weekday is chosen. A disk keeps the name it is added with.    *)
(* The poll interval and the fields of a rule's pattern are edited like    *)
(* what is modelled.                                                       *)
(***************************************************************************)
EXTENDS Naturals, Sequences, FiniteSets, Functions

CONSTANTS
  Pages,              \* browser tabs
  GroupIds, NodeIds, RuleIds,
  GroupName,          \* the name of each disk
  Names, Keys, Zones, \* what is typed as a node's name, as a key, as the timezone
  ValidKeys,          \* the keys of 32 bytes in base64
  Addresses,          \* addresses as typed, "" among them
  PageTakes,          \* what new URL makes an address of in the page, and
  ServerTakes,        \* url.Parse in the server: parsers of their own
  Clean, Fold,        \* an address without trailing slashes; and in lower case
  RawNodes,           \* entries of an import list
  Calls,              \* calls of /api/settings, numbered
  Initial,            \* settings and keys the server starts with
  Budgets             \* bounds on edits, calls and lost pages or answers

BudgetKinds == {"edits", "calls", "losses"}
NoName == 0
NoKey == "no key"
NoGroup == "no group"
NoTarget == "no target"
NoPage == "no page"
Unloaded == "unloaded"
DefaultZone == "UTC"

Nodes == [id : NodeIds, name : Names, address : Addresses,
          group : GroupIds, key : Keys \cup {NoKey}, enabled : BOOLEAN]
Rules == [named : BOOLEAN, enabled : BOOLEAN, type : {"group", "node"},
          target : GroupIds \cup NodeIds \cup {NoTarget},
          mode : {"weekly", "interval"}, days : BOOLEAN]
RuleTables == UNION {[ids -> Rules] : ids \in SUBSET RuleIds}
Settings == [groups : Seq(GroupIds), nodes : Seq(Nodes), rules : RuleTables,
             zone : Zones \cup {Unloaded}]
KeyTables == [NodeIds -> Keys \cup {NoKey}]

NoDraft == [groups |-> <<>>, nodes |-> <<>>, rules |-> <<>>, zone |-> Unloaded]

ASSUME NamesAssumption == Names \subseteq Nat /\ NoName \in Names
ASSUME KeysAssumption == NoKey \notin Keys /\ ValidKeys \subseteq Keys
ASSUME ZonesAssumption == Unloaded \notin Zones /\ {"", DefaultZone} \subseteq Zones
ASSUME IdsAssumption == NoGroup \notin GroupIds /\ NoPage \notin Pages
ASSUME NumbersAssumption == Calls \subseteq Nat
ASSUME AddressAssumption ==
  /\ Clean \in [Addresses -> Addresses] /\ Fold \in [Addresses -> Addresses]
  /\ "" \in Addresses /\ \A a \in Addresses : Clean[Clean[a]] = Clean[a]
  /\ PageTakes \cup ServerTakes \subseteq Addresses \ {""}
ASSUME GroupAssumption == GroupName \in [GroupIds -> Nat]
ASSUME RawAssumption ==
  RawNodes \subseteq [name : Names, address : Addresses, key : Keys \cup {NoKey},
                     byName : BOOLEAN, group : GroupIds, enabled : BOOLEAN]
ASSUME BudgetAssumption == Budgets \subseteq [BudgetKinds -> Nat]

VARIABLES
  server,    \* o.state.Settings without the keys, and
  keys,      \* the API keys in them
  calls,     \* the calls of /api/settings
  draft,     \* state.settings of each page
  received,  \* what the page got last; not in the code
  dirty,     \* state.dirtySchedules
  selected,  \* state.selectedSettingsGroup
  budget

pageVars == <<draft, received, dirty, selected>>
serverVars == <<server, keys>>
vars == <<serverVars, calls, pageVars, budget>>

Unused == [page |-> NoPage, kind |-> "get", phase |-> "unused", sent |-> NoDraft,
           filled |-> [n \in NodeIds |-> NoKey], ok |-> FALSE, answer |-> NoDraft]
CallRecords == [page : Pages \cup {NoPage}, kind : {"get", "put"},
                phase : {"unused", "sent", "checked", "committed", "answered", "closed"},
                sent : Settings, filled : KeyTables, ok : BOOLEAN, answer : Settings]

TypeOK ==
  /\ server \in Settings /\ keys \in KeyTables
  /\ calls \in [Calls -> CallRecords]
  /\ draft \in [Pages -> Settings] /\ received \in [Pages -> Settings]
  /\ dirty \in [Pages -> SUBSET RuleIds]
  /\ selected \in [Pages -> GroupIds \cup {NoGroup}]
  /\ budget \in [BudgetKinds -> Nat]

-----------------------------------------------------------------------------
(* Drafts.                                                                 *)

Loaded(p) == draft[p].zone # Unloaded
IdsOf(nodes) == {nodes[i].id : i \in DOMAIN nodes}
GroupsOf(d) == Range(d.groups)
First(s, otherwise) == IF s = <<>> THEN otherwise ELSE s[1]
Candidates(d, type) == IF type = "node" THEN IdsOf(d.nodes) ELSE GroupsOf(d)
(* candidates[0]?.id || '' in the handler of targetType.                   *)
FirstCandidate(d, type) ==
  IF type = "node" THEN (IF d.nodes = <<>> THEN NoTarget ELSE d.nodes[1].id)
  ELSE First(d.groups, NoTarget)

(* The elements at the places I of a list, where an order puts them: a set *)
(* of pairs of places, the first of which does not come after the second.  *)
Rank(i, I, order) == Cardinality({j \in I : <<j, i>> \in order})
Arranged(s, I, order) ==
  [k \in 1 .. Cardinality(I) |-> s[CHOOSE i \in I : Rank(i, I, order) = k]]

(* filter; and sort, which is stable.                                      *)
Filtered(s, I) == Arranged(s, I, {q \in I \X I : q[1] <= q[2]})
Sorted(s, Less(_, _)) ==
  LET NotAfter(i, j) == Less(s[i], s[j]) \/ (~Less(s[j], s[i]) /\ i <= j)
  IN Arranged(s, DOMAIN s, {q \in (DOMAIN s) \X (DOMAIN s) : NotAfter(q[1], q[2])})

ByGroupAndName(a, b) ==
  \/ GroupName[a.group] < GroupName[b.group]
  \/ GroupName[a.group] = GroupName[b.group] /\ a.name < b.name
ByName(a, b) == a.name < b.name

(* Mutant: a selection that is gone is kept.                               *)
SelectionKept(d, s) == s

(* renderSettings: a selection that is gone moves to the first disk.       *)
ValidSelection(d, s) ==
  IF s \in GroupsOf(d) THEN s
  ELSE First(Sorted(d.groups, LAMBDA g, h : GroupName[g] < GroupName[h]), NoGroup)

OnDisk(nodes, g) == Filtered(nodes, {i \in DOMAIN nodes : nodes[i].group = g})
Switched(nodes) == Filtered(nodes, {i \in DOMAIN nodes : nodes[i].enabled})
Without(nodes, n) == Filtered(nodes, {i \in DOMAIN nodes : nodes[i].id # n})

(* renderDiskDetail: all nodes of a disk, with the numbers 1, 2, ...       *)
DiskDetail(d, g) == Sorted(OnDisk(d.nodes, g), ByName)

(* groupNodesLocked: those of a disk that a job of it works through.       *)
Queue(nodes, g) == Filtered(nodes, {i \in DOMAIN nodes : nodes[i].group = g /\ nodes[i].enabled})

(* Mutant: the nodes are sent in the order of the draft.                   *)
PayloadUnsorted(d) == [d EXCEPT !.zone = IF @ = "" THEN DefaultZone ELSE @]

(* settingsPayload, which also cleans the timezone in the draft itself.    *)
PayloadZone(d) == [d EXCEPT !.zone = IF @ = "" THEN DefaultZone ELSE @]
Payload(d) == [PayloadZone(d) EXCEPT !.nodes = Sorted(@, ByGroupAndName)]

-----------------------------------------------------------------------------
(* The server.                                                             *)

Distinct(s) == \A i, j \in DOMAIN s : i # j => s[i] # s[j]

(* What updateSettings checks without looking at what is stored.           *)
WellFormed(d) ==
  /\ d.zone # Unloaded
  /\ Distinct(d.groups) /\ \A g \in GroupsOf(d) : GroupName[g] # NoName
  /\ Distinct([i \in DOMAIN d.nodes |-> d.nodes[i].id])
  /\ Distinct([i \in DOMAIN d.nodes |-> Clean[d.nodes[i].address]])
  /\ \A i \in DOMAIN d.nodes : /\ d.nodes[i].group \in GroupsOf(d)
                               /\ d.nodes[i].name # NoName
                               /\ Clean[d.nodes[i].address] \in ServerTakes
  /\ \A r \in DOMAIN d.rules : /\ d.rules[r].named
                               /\ d.rules[r].target \in Candidates(d, d.rules[r].type)
                               /\ d.rules[r].mode = "weekly" => d.rules[r].days

(* The server starts with settings it has once accepted, which have a      *)
(* timezone, or with none but UTC (orchestrator.go 334-336, store.go 91).  *)
ASSUME InitialAssumption ==
  /\ Initial \in [settings : Settings, keys : KeyTables]
  /\ WellFormed(Initial.settings) /\ Initial.settings.zone # ""

(* The keys after an update: those typed, and for a blank one the key that *)
(* the node of that id has.                                                *)
FilledKeys(d, existing) ==
  [n \in NodeIds |->
     IF n \in IdsOf(d.nodes)
     THEN LET node == CHOOSE node \in Range(d.nodes) : node.id = n
          IN IF node.key # NoKey THEN node.key ELSE existing[n]
     ELSE NoKey]

(* validateAPIKey, of the keys that are typed and of those filled in.      *)
Complete(d, filled) == \A n \in IdsOf(d.nodes) : filled[n] \in ValidKeys

(* Would the server take this draft now?                                   *)
Savable(d) == WellFormed(d) /\ Complete(d, FilledKeys(d, keys))

(* What is stored of a draft. A page gets it as it is: publicNode leaves   *)
(* the keys out.                                                           *)
Stored(d) ==
  [d EXCEPT !.nodes = [i \in DOMAIN d.nodes |->
                         [d.nodes[i] EXCEPT !.address = Clean[@], !.key = NoKey]],
            !.rules = [r \in DOMAIN d.rules |->
                         [d.rules[r] EXCEPT !.days = @ /\ d.rules[r].mode = "weekly"]]]

-----------------------------------------------------------------------------
(* Editing. A handler replaces the draft d of a page, may mark rules as    *)
(* changed and may select a disk.                                          *)

Spend(kind) ==
  budget[kind] > 0 /\ budget' = [budget EXCEPT ![kind] = budget[kind] - 1]

Edit(p, d, marked, shown) ==
  /\ Spend("edits")
  /\ draft' = [draft EXCEPT ![p] = d]
  /\ dirty' = [dirty EXCEPT ![p] = marked]
  /\ selected' = [selected EXCEPT ![p] = shown]
  /\ UNCHANGED <<serverVars, calls, received>>

(* id(): an id that nobody uses.                                           *)
Mentions(d, id) == id \in IdsOf(d.nodes) \/ id \in DOMAIN d.rules \/ id \in GroupsOf(d)
Unmentioned(id) ==
  /\ ~Mentions(server, id)
  /\ \A p \in Pages : ~Mentions(draft[p], id)
  /\ \A c \in Calls : ~Mentions(calls[c].sent, id) /\ ~Mentions(calls[c].answer, id)

(* One of them stands for all, as nothing depends on which it is: a disk's *)
(* comes with its name.                                                    *)
NewId(ids) == IF ids = {} THEN {} ELSE {CHOOSE id \in ids : TRUE}
NewGroup == {g \in GroupIds : Unmentioned(g)}
NewRuleId == NewId({r \in RuleIds : Unmentioned(r)})
UnusedNodes == {n \in NodeIds : Unmentioned(n)}
NewNode == NewId(UnusedNodes)

AddGroup(p, g) ==
  /\ Loaded(p)
  /\ LET d == [draft[p] EXCEPT !.groups = Append(@, g)]
     IN Edit(p, d, dirty[p], g)

DeleteGroup(p, g) ==
  /\ Loaded(p) /\ g \in GroupsOf(draft[p])
  /\ \A i \in DOMAIN draft[p].nodes : draft[p].nodes[i].group # g
  /\ \A r \in DOMAIN draft[p].rules : draft[p].rules[r].target # g
  /\ LET d == [draft[p] EXCEPT !.groups = Filtered(@, {i \in DOMAIN @ : @[i] # g})]
     IN Edit(p, d, dirty[p], IF selected[p] = g THEN First(d.groups, NoGroup) ELSE selected[p])

(* addNodeToGroup, from the button of a disk or from the one that takes    *)
(* the selected disk.                                                      *)
AddNode(p, n, g) ==
  /\ Loaded(p) /\ draft[p].groups # <<>>
  /\ \/ g \in GroupsOf(draft[p])
     \/ g = IF selected[p] # NoGroup THEN selected[p] ELSE draft[p].groups[1]
  /\ LET node == [id |-> n, name |-> NoName, address |-> "", group |-> g, key |-> NoKey,
                  enabled |-> TRUE]
     IN Edit(p, [draft[p] EXCEPT !.nodes = Append(@, node)], dirty[p], g)

DeleteNode(p, n) ==
  /\ n \in IdsOf(draft[p].nodes)
  /\ \A r \in DOMAIN draft[p].rules : draft[p].rules[r].target # n
  /\ Edit(p, [draft[p] EXCEPT !.nodes = Without(@, n)],
          dirty[p], selected[p])

(* The fields of nodeEditor, by updateEditingState.                        *)
EditNode(p, i, field, value) ==
  /\ i \in DOMAIN draft[p].nodes
  /\ draft[p].nodes[i][field] # value
  /\ Edit(p, [draft[p] EXCEPT !.nodes[i][field] = value], dirty[p], selected[p])

(* moveNodeToGroup: the node goes to the end of the list.                  *)
MoveNode(p, i, g) ==
  /\ i \in DOMAIN draft[p].nodes /\ g \in GroupsOf(draft[p])
  /\ draft[p].nodes[i].group # g
  /\ LET node == draft[p].nodes[i]
         rest == Without(draft[p].nodes, node.id)
     IN Edit(p, [draft[p] EXCEPT !.nodes = Append(rest, [node EXCEPT !.group = g])],
             dirty[p], selected[p])

(* resolveImportedGroup: the disk of that id, or the only one of that name. *)
ResolvedGroups(d, raw) ==
  {g \in GroupsOf(d) : IF raw.byName THEN GroupName[g] = GroupName[raw.group]
                       ELSE g = raw.group}

FoldedAddresses(nodes) == {Fold[Clean[nodes[i].address]] : i \in DOMAIN nodes}

(* Mutant: only the list itself is searched for equal addresses.           *)
ImportAcceptedAlone(d, list) ==
  /\ list # <<>>
  /\ \A i \in DOMAIN list :
       /\ list[i].name # NoName /\ list[i].key \in ValidKeys
       /\ Clean[list[i].address] \in PageTakes
       /\ Cardinality(ResolvedGroups(d, list[i])) = 1
  /\ Distinct([i \in DOMAIN list |-> Fold[Clean[list[i].address]]])

(* parseNodeImport: every entry is checked before any is taken.            *)
ImportAccepted(d, list) ==
  /\ list # <<>>
  /\ \A i \in DOMAIN list :
       /\ list[i].name # NoName /\ list[i].key \in ValidKeys
       /\ Clean[list[i].address] \in PageTakes
       /\ Cardinality(ResolvedGroups(d, list[i])) = 1
  /\ Distinct([i \in DOMAIN list |-> Fold[Clean[list[i].address]]])
  /\ FoldedAddresses(list) \cap FoldedAddresses(d.nodes) = {}

ImportedNode(d, raw, id) ==
  [id |-> id, name |-> raw.name, address |-> Clean[raw.address],
   group |-> CHOOSE g \in ResolvedGroups(d, raw) : TRUE, key |-> raw.key,
   enabled |-> raw.enabled]

Import(p, list, ids) ==
  /\ Loaded(p) /\ ImportAccepted(draft[p], list)
  /\ LET new == [i \in DOMAIN list |-> ImportedNode(draft[p], list[i], ids[i])]
     IN Edit(p, [draft[p] EXCEPT !.nodes = @ \o new], dirty[p], new[1].group)

-----------------------------------------------------------------------------
(* Rules. Every edit of one marks it.                                      *)

(* addSchedule: a new rule for the first disk, or a copy.                  *)
NewRule(d) ==
  [named |-> FALSE, enabled |-> TRUE, type |-> "group",
   target |-> First(d.groups, NoTarget), mode |-> "weekly", days |-> TRUE]

AddRule(p, r, rule) ==
  /\ Loaded(p) /\ draft[p].groups # <<>>
  /\ rule \in Range(draft[p].rules) \cup {NewRule(draft[p])}
  /\ Edit(p, [draft[p] EXCEPT !.rules = [q \in DOMAIN @ \cup {r} |-> IF q = r THEN rule ELSE @[q]]],
          dirty[p] \cup {r}, selected[p])

(* What a handler of the editor makes of a rule: another target takes the  *)
(* first candidate, and a rule that becomes weekly has its days filled in. *)
EditedRules(d, rule) ==
  {[rule EXCEPT !.named = ~@], [rule EXCEPT !.enabled = ~@]}
  \cup {[rule EXCEPT !.target = t] : t \in Candidates(d, rule.type)}
  \cup {[rule EXCEPT !.type = t, !.target = FirstCandidate(d, t)] :
          t \in {"group", "node"} \ {rule.type}}
  \cup (IF rule.mode = "weekly"
        THEN {[rule EXCEPT !.days = ~@], [rule EXCEPT !.mode = "interval"]}
        ELSE {[rule EXCEPT !.mode = "weekly", !.days = TRUE]})

(* Mutant: the switch of a rule, as it leaves its times alone, marks       *)
(* nothing.                                                                *)
EditRuleUnmarked(p, r, rule) ==
  /\ r \in DOMAIN draft[p].rules
  /\ rule \in EditedRules(draft[p], draft[p].rules[r]) \ {draft[p].rules[r]}
  /\ Edit(p, [draft[p] EXCEPT !.rules[r] = rule],
          IF rule.enabled # draft[p].rules[r].enabled THEN dirty[p] ELSE dirty[p] \cup {r},
          selected[p])

EditRule(p, r, rule) ==
  /\ r \in DOMAIN draft[p].rules
  /\ rule \in EditedRules(draft[p], draft[p].rules[r]) \ {draft[p].rules[r]}
  /\ Edit(p, [draft[p] EXCEPT !.rules[r] = rule], dirty[p] \cup {r}, selected[p])

DeleteRule(p, r) ==
  /\ r \in DOMAIN draft[p].rules
  /\ Edit(p, [draft[p] EXCEPT !.rules = Restrict(@, DOMAIN @ \ {r})],
          dirty[p] \ {r}, selected[p])

(* The times of every rule are read in this zone.                          *)
EditZone(p, zone) ==
  /\ Loaded(p) /\ draft[p].zone # zone
  /\ Edit(p, [draft[p] EXCEPT !.zone = zone], dirty[p] \cup DOMAIN draft[p].rules, selected[p])

-----------------------------------------------------------------------------
(* Calls.                                                                  *)

Call(c, p, kind, payload) ==
  /\ calls[c].phase = "unused"
  /\ \A other \in Calls : other < c => calls[other].phase # "unused"
  /\ calls' = [calls EXCEPT ![c] = [Unused EXCEPT !.page = p, !.kind = kind,
                                                  !.phase = "sent", !.sent = payload]]
  /\ Spend("calls")

(* setView asks for the settings as long as there are none, also while an  *)
(* answer is on its way.                                                   *)
Load(p, c) ==
  /\ ~Loaded(p)
  /\ Call(c, p, "get", NoDraft)
  /\ UNCHANGED <<serverVars, pageVars>>

(* saveSettings, from its buttons or from the test of a node. The page can *)
(* be edited on, and saved again, while the answer is on its way. A page   *)
(* without settings sends null.                                            *)
Save(p, c) ==
  /\ Call(c, p, "put", Payload(draft[p]))
  /\ draft' = [draft EXCEPT ![p] = PayloadZone(@)]
  /\ UNCHANGED <<serverVars, received, dirty, selected>>

(* A call that is over, or whose answer nobody waits for.                  *)
Over == [Unused EXCEPT !.phase = "closed"]

Respond(c, ok, answer) ==
  calls' = [calls EXCEPT ![c] =
              IF @.page = NoPage THEN Over
              ELSE [Unused EXCEPT !.page = calls[c].page, !.phase = "answered", !.ok = ok,
                                  !.answer = answer]]
Refuse(c) == Respond(c, FALSE, NoDraft)

(* The first half of updateSettings: the keys are read under a lock of     *)
(* their own.                                                              *)
Check(c) ==
  /\ calls[c].phase = "sent" /\ calls[c].kind = "put"
  /\ LET d == calls[c].sent
         filled == FilledKeys(d, keys)
     IN IF WellFormed(d) /\ Complete(d, filled)
        THEN calls' = [calls EXCEPT ![c].phase = "checked", ![c].filled = filled]
        ELSE Refuse(c)
  /\ UNCHANGED <<serverVars, pageVars, budget>>

(* The second half: the whole settings are replaced ...                    *)
Commit(c) ==
  /\ calls[c].phase = "checked"
  /\ server' = Stored(calls[c].sent)
  /\ keys' = calls[c].filled
  /\ calls' = [calls EXCEPT ![c] = [Unused EXCEPT !.page = calls[c].page, !.phase = "committed"]]
  /\ UNCHANGED <<pageVars, budget>>

(* ... or nothing is: a running job needs a node that is gone, or the save *)
(* fails.                                                                  *)
CommitRefused(c) ==
  /\ calls[c].phase = "checked"
  /\ Refuse(c)
  /\ UNCHANGED <<serverVars, pageVars, budget>>

(* publicSettings, under a third lock after an update.                     *)
Answer(c) ==
  /\ \/ calls[c].phase = "sent" /\ calls[c].kind = "get"
     \/ calls[c].phase = "committed"
  /\ Respond(c, TRUE, server)
  /\ UNCHANGED <<serverVars, pageVars, budget>>

Closed(c) == [calls EXCEPT ![c] = Over]

(* loadSettings and saveSettings, after the await: the answer replaces the *)
(* draft, whatever has been edited since.                                  *)
Receive(c) ==
  LET p == calls[c].page IN
  /\ calls[c].phase = "answered" /\ p # NoPage /\ calls[c].ok
  /\ draft' = [draft EXCEPT ![p] = calls[c].answer]
  /\ received' = [received EXCEPT ![p] = calls[c].answer]
  /\ dirty' = [dirty EXCEPT ![p] = {}]
  /\ selected' = [selected EXCEPT ![p] = ValidSelection(calls[c].answer, @)]
  /\ calls' = Closed(c)
  /\ UNCHANGED <<serverVars, budget>>

(* Mutant: a failed call is never over.                                    *)
ReceiveErrorKept(c) ==
  /\ calls[c].phase = "answered" /\ calls[c].page # NoPage /\ ~calls[c].ok
  /\ calls' = [calls EXCEPT ![c].phase = "failed"]
  /\ UNCHANGED <<serverVars, pageVars, budget>>

(* An error is shown and changes nothing.                                  *)
ReceiveError(c) ==
  /\ calls[c].phase = "answered" /\ calls[c].page # NoPage /\ ~calls[c].ok
  /\ calls' = Closed(c)
  /\ UNCHANGED <<serverVars, pageVars, budget>>

Abandoned(call) == IF call.phase = "answered" THEN Over ELSE [call EXCEPT !.page = NoPage]

(* The connection breaks: to the page an error, to the server nothing.     *)
Lose(c) ==
  /\ calls[c].page # NoPage
  /\ Spend("losses")
  /\ calls' = [calls EXCEPT ![c] = Abandoned(@)]
  /\ UNCHANGED <<serverVars, pageVars>>

(* The page is reloaded and forgets everything.                            *)
Reload(p) ==
  /\ Spend("losses")
  /\ draft' = [draft EXCEPT ![p] = NoDraft]
  /\ received' = [received EXCEPT ![p] = NoDraft]
  /\ dirty' = [dirty EXCEPT ![p] = {}]
  /\ selected' = [selected EXCEPT ![p] = NoGroup]
  /\ calls' = [c \in Calls |-> IF calls[c].page = p THEN Abandoned(calls[c]) ELSE calls[c]]
  /\ UNCHANGED serverVars

-----------------------------------------------------------------------------
Init ==
  /\ server = Initial.settings /\ keys = Initial.keys
  /\ calls = [c \in Calls |-> Unused]
  /\ draft = [p \in Pages |-> NoDraft] /\ received = [p \in Pages |-> NoDraft]
  /\ dirty = [p \in Pages |-> {}]
  /\ selected = [p \in Pages |-> NoGroup]
  /\ budget \in Budgets

GroupEdit(p) ==
  \/ \E g \in NewGroup : AddGroup(p, g)
  \/ \E g \in GroupIds : DeleteGroup(p, g)

ImportNext(p) ==
  \E n \in NewNode, raw \in RawNodes :
    \/ Import(p, <<raw>>, <<n>>)
    \/ \E m \in NewId(UnusedNodes \ {n}), other \in RawNodes :
         Import(p, <<raw, other>>, <<n, m>>)

NodeEdit(p) ==
  \/ \E n \in NewNode, g \in GroupIds : AddNode(p, n, g)
  \/ ImportNext(p)
  \/ \E n \in NodeIds : DeleteNode(p, n)
  \/ \E i \in DOMAIN draft[p].nodes :
       \/ \E name \in Names : EditNode(p, i, "name", name)
       \/ \E a \in Addresses : EditNode(p, i, "address", a)
       \/ \E k \in Keys \cup {NoKey} : EditNode(p, i, "key", k)
       \/ \E switch \in BOOLEAN : EditNode(p, i, "enabled", switch)
       \/ \E g \in GroupIds : MoveNode(p, i, g)

RuleEdit(p) ==
  \/ \E r \in NewRuleId, rule \in Range(draft[p].rules) \cup {NewRule(draft[p])} :
       AddRule(p, r, rule)
  \/ \E r \in DOMAIN draft[p].rules :
       \/ \E rule \in EditedRules(draft[p], draft[p].rules[r]) : EditRule(p, r, rule)
       \/ DeleteRule(p, r)
  \/ \E zone \in Zones : EditZone(p, zone)

PageNext(p) ==
  \/ budget["edits"] > 0 /\ (GroupEdit(p) \/ NodeEdit(p) \/ RuleEdit(p))
  \/ \E c \in Calls : Load(p, c) \/ Save(p, c)
  \/ Reload(p)

Next ==
  \/ \E p \in Pages : PageNext(p)
  \/ \E c \in Calls : \/ Check(c) \/ Commit(c) \/ CommitRefused(c) \/ Answer(c)
                      \/ Receive(c) \/ ReceiveError(c) \/ Lose(c)

Spec == Init /\ [][Next]_vars

-----------------------------------------------------------------------------
(* Properties.                                                             *)

(* Every node of a draft is on a disk of it and every rule has its target  *)
(* in it, or none to choose from, whatever answers arrive between which    *)
(* edits: no draft fails to be saved for a reason the page does not show   *)
(* (app.js 739-745, 964-998, 1156-1212, 1395-1419).                        *)
DraftIsConsistent ==
  \A p \in Pages : LET d == draft[p] IN
    /\ \A i \in DOMAIN d.nodes : d.nodes[i].group \in GroupsOf(d)
    /\ \A r \in DOMAIN d.rules : LET rule == d.rules[r] IN
         rule.target \in Candidates(d, rule.type) \cup {NoTarget}

(* renderScheduleTimeline: the rules that are not parked.                  *)
InCalendar(p) == {r \in DOMAIN draft[p].rules : draft[p].rules[r].enabled /\ r \notin dirty[p]}

(* The calendar shows the times the server has computed. It never shows    *)
(* them for a rule, or in a timezone, that differs from what the server    *)
(* sent (app.js 806-808, 866-885, 1255-1290).                              *)
CalendarShowsSavedRules ==
  \A p \in Pages : \A r \in InCalendar(p) :
    /\ r \in DOMAIN received[p].rules
    /\ draft[p].rules[r] = received[p].rules[r]
    /\ draft[p].zone = received[p].zone

(* The enabled nodes of a disk are listed in the order in which a job will *)
(* work through them once the draft is saved, nodes of equal names and     *)
(* disks of equal names included. Their numbers agree only on a disk       *)
(* without disabled nodes, which are numbered too (app.js 721-737,         *)
(* 940-944; orchestrator.go 679-696).                                      *)
ShownOrderIsQueueOrder ==
  \A p \in Pages : \A g \in GroupsOf(draft[p]) :
    Switched(DiskDetail(draft[p], g)) = Queue(Payload(draft[p]).nodes, g)

(* A list that the page accepts makes an acceptable draft unacceptable to  *)
(* the server only by an address that the server alone refuses. No id, no  *)
(* name, no key, no disk and no pair of addresses does, each of which      *)
(* either side checks in its own way (app.js 1072-1154; orchestrator.go    *)
(* 343-407; BULK_NODE_IMPORT.md 12-15).                                    *)
ImportFailsOnlyForAddress ==
  [][\A p \in Pages :
       (Savable(draft[p]) /\ Len(draft'[p].nodes) > Len(draft[p].nodes) /\ ImportNext(p)) =>
         \/ Savable(draft'[p])
         \/ \E i \in DOMAIN draft'[p].nodes :
              /\ i > Len(draft[p].nodes)
              /\ draft'[p].nodes[i].address \in PageTakes \ ServerTakes]_vars
=============================================================================

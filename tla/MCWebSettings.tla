--------------------------- MODULE MCWebSettings ---------------------------
(* Bounds for model checking WebSettings: two disks of different names, a  *)
(* third one named like the first and a fourth without a name, two nodes   *)
(* on the first disk, and a rule for the second.                           *)
EXTENDS WebSettings, TLC

MCGroupName ==
  [g \in GroupIds |-> IF g = "hdd2" THEN 2 ELSE IF g = "unnamed" THEN NoName ELSE 1]
MCAddresses == {"", "u", "u/", "U", "v", "w"}
MCClean == [a \in Addresses |-> IF a = "u/" THEN "u" ELSE a]
MCFold == [a \in Addresses |-> IF a = "U" THEN "u" ELSE a]

Node(id, name, address, group) ==
  [id |-> id, name |-> name, address |-> address, group |-> group, key |-> NoKey,
   enabled |-> TRUE]

MCInitial ==
  [settings |->
     [groups |-> <<"hdd1", "hdd2">>,
      nodes |-> <<Node("n1", 1, "u", "hdd1"), Node("n2", 2, "v", "hdd1")>>,
      rules |-> [r \in {"r1"} |-> [named |-> TRUE, enabled |-> TRUE, type |-> "group",
                                   target |-> "hdd2", mode |-> "weekly", days |-> TRUE]],
      zone |-> "UTC"],
   keys |-> [n \in NodeIds |-> IF n \in {"n1", "n2"} THEN "k1" ELSE NoKey]]

Raw(name, address, key, byName, group) ==
  [name |-> name, address |-> address, key |-> key, byName |-> byName, group |-> group,
   enabled |-> TRUE]
MCRawNodes == {Raw(1, "u/", "k1", TRUE, "hdd1"), Raw(1, "U", "k1", FALSE, "hdd2"),
               Raw(2, "w", "k1", FALSE, "hdd1")}

Bounds(edits, allowed, losses) ==
  [edits |-> edits, calls |-> allowed, losses |-> losses]
MCBudgets == {Bounds(3, 1, 0), Bounds(2, 2, 1), Bounds(1, 4, 0)}

PageSymmetry == Permutations(Pages)
=============================================================================

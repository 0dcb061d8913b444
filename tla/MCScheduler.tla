---------------------------- MODULE MCScheduler ----------------------------
(* Bounds for model checking Scheduler: a rule for all of disk "a" and a   *)
(* weekly one for a node "n" on it; an edit may take either to disk "b".   *)
EXTENDS Scheduler

MCGroupOf == [t \in Targets |-> IF t = "b" THEN "b" ELSE "a"]
MCFirstTarget == [r \in Rules |-> IF r = 1 THEN "a" ELSE "n"]

Bounds(occurrences, requests, edits, disturbances, crashes, failedSaves) ==
  [occurrences |-> occurrences, requests |-> requests, edits |-> edits,
   disturbances |-> disturbances, crashes |-> crashes, failedSaves |-> failedSaves]
MCBudgets == {Bounds(3, 0, 0, 1, 0, 0), Bounds(2, 1, 0, 0, 1, 1),
              Bounds(2, 0, 1, 0, 0, 0), Bounds(1, 0, 2, 0, 0, 0)}
OneDisturbance == {Bounds(1, 0, 0, 1, 0, 0)}
=============================================================================

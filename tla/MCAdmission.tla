---------------------------- MODULE MCAdmission ----------------------------
(* Bounds for model checking Admission: disks "a" and "b", nodes 1 to 3.   *)
EXTENDS WebOffers, TLC

Bounds(updates, crashes, failedSaves) ==
  [updates |-> updates, crashes |-> crashes, failedSaves |-> failedSaves]

Layout(home1, home2, home3, enabled) ==
  [home |-> [n \in Nodes |-> IF n = 1 THEN home1 ELSE IF n = 2 THEN home2 ELSE home3],
   enabled |-> enabled]

(* All nodes in place; node 1 moved to the other disk or removed.          *)
Together == Layout("a", "a", "b", {1, 2, 3})
Edited == {Together, Layout("b", "a", "b", {1, 2, 3}), Layout(NoGroup, "a", "b", {2, 3})}
Removed == {Together, Layout(NoGroup, "a", "b", {2, 3})}

EditsAndFailures == {Bounds(2, 0, 0), Bounds(1, 1, 1)}
OneEdit == {Bounds(1, 0, 0)}

RequesterSymmetry == Permutations(Requesters)
=============================================================================

---------------------------- MODULE MCDiskQueue ----------------------------
(* Bounds for model checking DiskQueue.                                    *)
EXTENDS DiskQueue, TLC

Bounds(requests, stops, crashes, failedSaves, foreignStarts, nodeRestarts, outages) ==
  [requests |-> requests, stops |-> stops, crashes |-> crashes,
   failedSaves |-> failedSaves, foreignStarts |-> foreignStarts,
   nodeRestarts |-> nodeRestarts, outages |-> outages]

(* No process dies with unsaved changes: saves succeed, or nothing crashes. *)
NoLostWrites == {Bounds(2, 1, 2, 0, 0, 0, 0), Bounds(2, 1, 1, 0, 0, 0, 1),
                 Bounds(1, 1, 2, 0, 1, 0, 1), Bounds(1, 1, 0, 2, 1, 1, 1)}
HostileNetwork == {Bounds(1, 1, 1, 1, 0, 1, 1)}
StopsOrRestarts == {Bounds(2, 0, 1, 0, 0, 0, 0), Bounds(1, 0, 2, 0, 1, 0, 1),
                    Bounds(1, 1, 0, 0, 1, 0, 1)}
StopThenRestart == {Bounds(1, 1, 1, 0, 0, 0, 0)}
NothingFails == {Bounds(1, 0, 0, 0, 0, 0, 0)}

RequesterSymmetry == Permutations(Requesters)
=============================================================================

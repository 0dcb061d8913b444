----------------------------- MODULE MCWebRates -----------------------------
(* Bounds for model checking WebRates: one node is polled and restarted,   *)
(* one changes its work, a queue of two nodes with a restart or a switch,  *)
(* a queue of one that changes its work.                                   *)
EXTENDS WebRates

N == CHOOSE n \in Nodes : TRUE
Start(nodes, work, bytes, polled, jobs, loads, faults) ==
  [enabled |-> nodes,
   working |-> [n \in Nodes |-> IF n \in nodes THEN CHOOSE s \in Satellites : TRUE ELSE NoSatellite],
   budget |-> [work |-> work, bytes |-> bytes, polls |-> polled, jobs |-> jobs,
               loads |-> loads, faults |-> faults]]

MCStarts ==
  {Start({N}, 0, 2, 3, 0, 3, 1), Start({N}, 1, 1, 3, 0, 3, 0),
   Start(Nodes, 0, 1, 2, 1, 2, 1), Start({N}, 1, 1, 2, 1, 2, 0)}
=============================================================================

----------------------------- MODULE MCRequests -----------------------------
(* Instances of Requests for TLC.                                          *)
EXTENDS Requests

CONSTANTS a, b, k1, k2, g1, g2

\* The two keys have different owners as long as both servers are in the ring.
SmallDistance == [k \in Key |-> [s \in Server |-> IF (k = k1) = (s = a) THEN 1 ELSE 2]]

Scenario(boots, x, y, maxRetries, reroute, n, rw, parallel, keys) ==
  [bootstraps |-> boots, changes |-> 1,
   work |-> [g \in Goroutine |-> IF g = g1 THEN x ELSE y],
   forward |-> [maxRetries |-> maxRetries, schedule |-> 1, reroute |-> reroute],
   replica |-> [n |-> n, rw |-> rw, parallel |-> parallel, keys |-> keys]]

\* With as many retries as the schedule has entries, or more; in parallel and in series.
SmallScenarios ==
  {Scenario(2, "handle", "none", 2, FALSE, 1, 1, TRUE, {}),
   Scenario(1, "replicate", "none", 1, TRUE, 2, 2, TRUE, {k1, k2}),
   Scenario(1, "replicate", "none", 1, FALSE, 2, 2, FALSE, {k1}),
   Scenario(1, "replicate", "none", 1, FALSE, 1, 2, TRUE, {k1}),
   Scenario(1, "route", "route", 1, FALSE, 1, 1, TRUE, {})}
=============================================================================

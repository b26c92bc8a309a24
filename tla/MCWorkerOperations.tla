------------------------- MODULE MCWorkerOperations -------------------------
\* A run of one agent, and a second one that may be added to it.
EXTENDS WorkerOperations

CONSTANTS a1, a2

Scenario(calls, stops, incidents, endless) ==
  [calls |-> calls, stops |-> stops, incidents |-> incidents, endless |-> endless]

\* Two batches and a stop, of which one agent would never end by itself; one
\* batch, a stop and a failure; two batches and a failure.
Mixed == {Scenario(2, 1, 0, {a2}), Scenario(1, 1, 1, {a2}), Scenario(2, 0, 1, {})}
=============================================================================

---------------------------- MODULE MCFinalization ----------------------------
(* Instances of Finalization for TLC. *)
EXTENDS Finalization

\* Accepts that synchronise, with and without keeping the candidates, and one that
\* leaves the workspace as it is.
SomeKeep == {[sync |-> TRUE, keep |-> TRUE], [sync |-> TRUE, keep |-> FALSE],
             [sync |-> FALSE, keep |-> FALSE]}

\* Accepts that synchronise and accepts that do not.
SyncingOrNot == [sync : BOOLEAN, keep : {FALSE}]

OnlySyncing == [sync : {TRUE}, keep : {FALSE}]
=============================================================================

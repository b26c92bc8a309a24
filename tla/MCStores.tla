------------------------------- MODULE MCStores -------------------------------
(***************************************************************************)
(* The three durable stores of the daemon, for TLC: the journal of         *)
(* commands, the record of a run with its event log, and the file of the   *)
(* relay session.  They share nothing, so a behaviour is about one of them.*)
(***************************************************************************)
EXTENDS MCCommandJournal, RunRecords, DevicePairing

CONSTANTS worker, daemon, peer

VARIABLE store

StoresInit ==
  /\ Init /\ RecordsInit /\ PairingInit
  /\ \/ store = "journal"
     \/ store \in {"records", "relay"} /\ record = [c \in Commands |-> NoRecord]

StoresNext ==
  /\ UNCHANGED store
  /\ \/ store = "journal" /\ Next /\ UNCHANGED <<runVars, pairingVars>>
     \/ store = "records" /\ RecordsNext /\ UNCHANGED <<vars, pairingVars>>
     \/ store = "relay" /\ PairingNext /\ UNCHANGED <<vars, runVars>>

StoresSpec == StoresInit /\ [][StoresNext]_<<vars, runVars, pairingVars, store>>

\* The managers differ in nothing but their names.
Exchange == Permutations(Managers)
=============================================================================

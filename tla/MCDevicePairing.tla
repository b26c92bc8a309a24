--------------------------- MODULE MCDevicePairing ---------------------------
(***************************************************************************)
(* Two protocols of the daemon that need fairness and share nothing, for   *)
(* TLC: the delivery of saved prompts by the journal, and the pairing and  *)
(* sign-in of the machine.  A behaviour is about one of them.              *)
(***************************************************************************)
EXTENDS MCCommandJournal, DevicePairing

VARIABLE protocol

ServicesNext ==
  /\ UNCHANGED protocol
  /\ \/ protocol = "journal" /\ Next /\ UNCHANGED pairingVars
     \/ protocol = "pairing" /\ PairingNext /\ UNCHANGED vars

ServicesInit ==
  /\ Init /\ PairingInit
  /\ \/ protocol = "journal"
     \/ protocol = "pairing" /\ record = [c \in Commands |-> NoRecord]

ServicesSpec ==
  /\ ServicesInit /\ [][ServicesNext]_<<vars, pairingVars, protocol>>
  /\ Fairness /\ PairingFairness
=============================================================================

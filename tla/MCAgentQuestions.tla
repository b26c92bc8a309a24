--------------------------- MODULE MCAgentQuestions ---------------------------
(***************************************************************************)
(* The execution of one agent that may ask for an approval and put a       *)
(* question to the user, for TLC.                                          *)
(***************************************************************************)
EXTENDS AgentQuestions

CONSTANTS approval, async
=============================================================================

-------------------------- MODULE MCCommandJournal --------------------------
\* Instances of the command journal: commands of each protection class, and two
\* fingerprints that may arrive under one command id.
EXTENDS CommandJournal, TLC

CONSTANTS prompt, queued, plain, answer, late, b1, b2
=============================================================================

------------------------------- MODULE Adoption -------------------------------
(***************************************************************************)
(* What finalization promises to somebody who sees only the workspace, the    *)
(* candidate copies and the answers of the runner: at most one agent of a run  *)
(* is chosen and for good; the workspace is touched only before that; after a  *)
(* copy was begun nothing is begun again until the user has said that it was   *)
(* not applied; and the copies go only when they are no longer needed.         *)
(***************************************************************************)
EXTENDS Naturals

CONSTANTS Agents, NoAgent

VARIABLES
  files,   \* the workspace: which agent's result it holds, and whether all of it
  copies,  \* the candidate workspaces exist
  chosen,  \* the agent whose adoption is recorded as done
  doubt    \* the agent whose result may be there in part

vars == <<files, copies, chosen, doubt>>

Original == [of |-> NoAgent, whole |-> TRUE]

Init == files = Original /\ copies = TRUE /\ chosen = NoAgent /\ doubt = NoAgent

\* A result is copied, after nothing else was or the user said that it was not.
BeginCopy(a) ==
  /\ chosen = NoAgent /\ doubt = NoAgent /\ copies
  /\ files' = [of |-> a, whole |-> FALSE] /\ doubt' = a
  /\ UNCHANGED <<copies, chosen>>

EndCopy ==
  /\ doubt # NoAgent /\ files = [of |-> doubt, whole |-> FALSE]
  /\ files' = [of |-> doubt, whole |-> TRUE]
  /\ UNCHANGED <<copies, chosen, doubt>>

\* The copy is known to be complete: by the runner, or from the user.
Choose(a) ==
  /\ chosen = NoAgent /\ doubt = a /\ files = [of |-> a, whole |-> TRUE]
  /\ chosen' = a /\ doubt' = NoAgent
  /\ UNCHANGED <<files, copies>>

\* Somebody accepts an agent and has the workspace left as it is.
ChooseOnly(a) ==
  /\ chosen = NoAgent /\ doubt = NoAgent
  /\ chosen' = a
  /\ UNCHANGED <<files, copies, doubt>>

\* The user says that it was not applied, and answers for what is there.
TakeBack ==
  /\ doubt # NoAgent /\ files # [of |-> doubt, whole |-> TRUE]
  /\ doubt' = NoAgent
  /\ UNCHANGED <<files, copies, chosen>>

\* The copies are deleted after the choice, or instead of one.
DeleteCopies ==
  /\ doubt = NoAgent /\ copies' = FALSE
  /\ UNCHANGED <<files, chosen, doubt>>

Next ==
  \/ \E a \in Agents : BeginCopy(a) \/ Choose(a) \/ ChooseOnly(a)
  \/ EndCopy \/ TakeBack \/ DeleteCopies

Spec == Init /\ [][Next]_vars
=============================================================================

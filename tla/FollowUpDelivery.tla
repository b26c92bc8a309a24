-------------------------- MODULE FollowUpDelivery --------------------------
(***************************************************************************)
(* The follow-up queue and the command journal together: the turns that the  *)
(* queue's coordinator starts as the journal's client "pcrd-follow-up" are a *)
(* behaviour of CommandJournal.  Its requests are prompts, not saved ones:   *)
(* the queue itself retries them, under the same command id and body.       *)
(***************************************************************************)
EXTENDS FollowUpQueue

\* The executor of a command, where the coordinator's pass is inside it.
Executor(c) ==
  LET within(points) == worker.pc \in points /\ cmd = c
  IN CASE within({"admit", "adopting", "commit"}) -> [phase |-> "running", body |-> body]
       [] within({"register", "finish"}) -> [phase |-> "applied", body |-> body]
       [] within({"raised"}) /\ worker.why = "retry" /\ journal[c].status = "retryable"
            -> [phase |-> "indexing", body |-> body]
       [] OTHER -> [phase |-> "free", body |-> None]

\* How often a command took effect: the saved runs that carry its identity.
Effects(c, b) == IF Cardinality(Started(c, b)) < 2 THEN Cardinality(Started(c, b)) ELSE 2

Journal == INSTANCE CommandJournal WITH
  NoBody <- None, Prompts <- Commands, Saved <- {}, Answers <- {}, Late <- {},
  record <- journal, effects <- [c \in Commands |-> [b \in Bodies |-> Effects(c, b)]],
  exec <- [c \in Commands |-> Executor(c)], indexed <- {}, expired <- {}

\* Every step of the queue, its coordinator, the daemon's other clients and its
\* crashes is a step of the journal or leaves the journal alone.
ImplementsJournal == Journal!Spec
=============================================================================

--------------------------- MODULE CommandJournal ---------------------------
(***************************************************************************)
(* The command journal of the pcrd daemon (remote/journal.py) together with *)
(* the thread that re-executes saved prompts (remote/prompt_delivery.py).   *)
(*                                                                         *)
(* A command is the pair (client_id, command_id); its body stands for the   *)
(* fingerprint of action, body and expected_revision.  One JSON record per  *)
(* command survives a crash of the daemon; the executor that holds the      *)
(* command's key lock, and the index of pending keys, do not.  What the      *)
(* command does (start a run, edit a file, answer a question) is abstracted  *)
(* to a counter of how often its effect was committed.                      *)
(***************************************************************************)
EXTENDS Naturals, FiniteSets

CONSTANTS
  Commands,   \* (client_id, command_id) pairs
  Bodies,     \* fingerprints a command id may arrive with
  NoBody,     \* no fingerprint: there is no record, or no executor
  Prompts,    \* commands whose action is in PROMPT_ACTIONS
  Saved,      \* prompts whose request is kept: not the queue coordinator's own
  Answers,    \* runs.answer_question: the answer store keeps its own receipt
  Late        \* commands whose handler may report "retryable" after an effect

ASSUME CommandAssumption ==
  /\ NoBody \notin Bodies
  /\ Prompts \subseteq Commands /\ Saved \subseteq Prompts
  /\ Answers \subseteq Commands /\ Late \subseteq Commands
  /\ Prompts \cap Answers = {} /\ Late \cap (Prompts \cup Answers) = {}

\* Commands whose only protection is their record: no business receipt.
Plain == Commands \ (Prompts \cup Answers)

Statuses == {"none", "started", "completed", "failed", "retryable"}

\* What a failed record says of delivery: nothing, "not_applied", or one of the
\* exact legacy errors that older daemons raised before starting anything.
Outcomes == {"unknown", "not_applied", "unstarted"}

Phases == {"free", "running", "applied", "indexing"}

VARIABLES
  record,     \* the journal directory: one record per command
  effects,    \* committed business state: times each request took effect, at most 2
  exec,       \* the executor holding the command's key lock
  indexed,    \* _pending_keys: saved requests the delivery thread will retry
  expired,    \* commands whose relay envelope outlived its time to live
  up          \* the daemon process is running

vars == <<record, effects, exec, indexed, expired, up>>

NoRecord == [status |-> "none", body |-> NoBody, outcome |-> "unknown"]
Idle == [phase |-> "free", body |-> NoBody]

Twice == 0..2

TypeOK ==
  /\ record \in [Commands -> [status : Statuses, body : Bodies \cup {NoBody},
                              outcome : Outcomes]]
  /\ effects \in [Commands -> [Bodies -> Twice]]
  /\ exec \in [Commands -> [phase : Phases, body : Bodies \cup {NoBody}]]
  /\ indexed \subseteq Commands
  /\ expired \subseteq Commands
  /\ up \in BOOLEAN

-----------------------------------------------------------------------------
(* What a record means.                                                     *)

\* Mutant: the committed business state is never consulted.
RecoveredNever(c, b) == FALSE

\* recover_prompt_command: a committed run carries this very command identity.
Recovered(c, b) == c \in Prompts /\ effects[c][b] > 0

\* _retryable_record: the cases in which a command may be executed again.
RetryableRecord(c) ==
  \/ record[c].status = "retryable"
  \/ c \in Answers /\ record[c].status = "started"
  \/ c \in Prompts /\ record[c].status = "failed" /\ record[c].outcome = "unstarted"

\* Mutant: the stored record is trusted before the business state is asked.
ReceiptFromRecord(c, b) ==
  CASE record[c].status # "none" /\ record[c].body # b -> "command_conflict"
    [] record[c].status = "completed" /\ record[c].body = b -> "completed"
    [] OTHER ->
         IF RetryableRecord(c) THEN "retryable"
         ELSE IF record[c].status = "none" THEN "not_found"
         ELSE IF record[c].status = "failed" /\ record[c].outcome = "not_applied"
              THEN "rejected" ELSE "in_doubt"

\* lookup: the receipt a client is given, which executes and changes nothing.
Receipt(c, b) ==
  CASE record[c].status # "none" /\ record[c].body # b -> "command_conflict"
    [] record[c].status = "completed" /\ record[c].body = b -> "completed"
    [] OTHER ->
         IF Recovered(c, b) THEN "completed"
         ELSE IF RetryableRecord(c) THEN "retryable"
         ELSE IF record[c].status = "none" THEN "not_found"
         ELSE IF record[c].status = "failed" /\ record[c].outcome = "not_applied"
              THEN "rejected" ELSE "in_doubt"

\* Mutant: a record is reused whatever the fingerprint of the request.
StartableAnyBody(c, b) ==
  /\ record[c].status # "completed"
  /\ ~Recovered(c, b)
  /\ record[c].status = "none" \/ RetryableRecord(c)

\* The journal's gate: a request that passes it is executed.
Startable(c, b) ==
  /\ record[c].status # "none" => record[c].body = b
  /\ record[c].status # "completed"
  /\ ~Recovered(c, b)
  /\ record[c].status = "none" \/ RetryableRecord(c)

-----------------------------------------------------------------------------
LegacyRecord(b) == [status |-> "failed", body |-> b, outcome |-> "unstarted"]

Init ==
  /\ record \in [Commands -> {NoRecord} \cup {LegacyRecord(b) : b \in Bodies}]
  /\ \A c \in Commands : record[c] # NoRecord => c \in Prompts
  /\ effects = [c \in Commands |-> [b \in Bodies |-> 0]]
  /\ exec = [c \in Commands |-> Idle]
  /\ indexed = {}
  /\ expired = {}
  /\ up = TRUE

Unlocked(c) == up /\ exec[c].phase = "free"

\* A relay redelivers a command only until its envelope expires.  A native
\* client may resend a saved prompt, or an answer, at any later time.
Deliverable(c) == c \in expired => c \in Prompts \cup Answers

\* Write "started", then run the callback with the key lock held.
Start(c, b) ==
  /\ Unlocked(c) /\ Deliverable(c)
  /\ Startable(c, b)
  /\ record' = [record EXCEPT ![c] = [status |-> "started", body |-> b,
                                      outcome |-> "unknown"]]
  /\ exec' = [exec EXCEPT ![c] = [phase |-> "running", body |-> b]]
  /\ UNCHANGED <<effects, indexed, expired, up>>

\* The business state already holds the result: complete the record from it.
Recover(c, b) ==
  /\ Unlocked(c) /\ Deliverable(c)
  /\ record[c].status # "none" => record[c].body = b
  /\ record[c].status # "completed"
  /\ Recovered(c, b)
  /\ record' = [record EXCEPT ![c] = [status |-> "completed", body |-> b,
                                      outcome |-> "unknown"]]
  /\ UNCHANGED <<effects, exec, indexed, expired, up>>

\* The callback commits its effect.  An answer is committed at most once by
\* the question store itself, whatever the journal does.
Apply(c) ==
  /\ exec[c].phase = "running"
  /\ LET b == exec[c].body
         n == effects[c][b]
     IN effects' = [effects EXCEPT ![c][b] = IF c \in Answers \/ n = 0 THEN 1 ELSE 2]
  /\ exec' = [exec EXCEPT ![c].phase = "applied"]
  /\ UNCHANGED <<record, indexed, expired, up>>

\* The callback returned: write "completed" and release the lock.
Finish(c) ==
  /\ exec[c].phase = "applied"
  /\ record' = [record EXCEPT ![c].status = "completed"]
  /\ exec' = [exec EXCEPT ![c] = Idle]
  /\ UNCHANGED <<effects, indexed, expired, up>>

\* The callback raised for good.  Only an error raised before any effect may
\* say that the command was not applied.
FailForGood(c, outcome) ==
  /\ exec[c].phase \in {"running", "applied"}
  /\ outcome = "not_applied" => exec[c].phase = "running" /\ c \notin Answers
  /\ record' = [record EXCEPT ![c] = [@ EXCEPT !.status = "failed", !.outcome = outcome]]
  /\ exec' = [exec EXCEPT ![c] = Idle]
  /\ UNCHANGED <<effects, indexed, expired, up>>

\* The callback raised a retryable error.  A plain handler raises one before its
\* effect unless it is in Late; a prompt or an answer may raise one after it.
FailRetryably(c) ==
  /\ exec[c].phase = "running" \/ (exec[c].phase = "applied" /\ c \notin Plain \ Late)
  /\ record' = [record EXCEPT ![c].status = "retryable"]
  /\ exec' = [exec EXCEPT ![c].phase = "indexing"]
  /\ UNCHANGED <<effects, indexed, expired, up>>

\* Still under the key lock: index the saved request for the delivery thread.
Index(c) ==
  /\ exec[c].phase = "indexing"
  /\ indexed' = IF c \in Saved THEN indexed \cup {c} ELSE indexed
  /\ exec' = [exec EXCEPT ![c] = Idle]
  /\ UNCHANGED <<record, effects, expired, up>>

\* PromptDeliveryCoordinator: execute a saved request under its own identity.
Redeliver(c) ==
  /\ c \in indexed
  /\ record[c].status = "retryable"
  /\ Start(c, record[c].body) \/ Recover(c, record[c].body)

\* pending_requests: forget a settled key, unless its lock is held right now.
Discard(c) ==
  /\ Unlocked(c)
  /\ c \in indexed
  /\ record[c].status \in {"completed", "failed", "none"}
  /\ indexed' = indexed \ {c}
  /\ UNCHANGED <<record, effects, exec, expired, up>>

\* The envelope's time to live passes; the relay will not deliver it again.
Expire(c) ==
  /\ c \notin expired
  /\ expired' = expired \cup {c}
  /\ UNCHANGED <<record, effects, exec, indexed, up>>

\* Mutant: every record past its retention is removed, the in-doubt ones too.
PruneAll(c) ==
  /\ Unlocked(c)
  /\ c \in expired
  /\ record[c].status # "none"
  /\ record' = [record EXCEPT ![c] = NoRecord]
  /\ UNCHANGED <<effects, exec, indexed, expired, up>>

\* prune: the retention is at least the envelope's time to live, counted from
\* the last write.  Neither an in-doubt record nor a saved request is removed.
Prune(c) ==
  /\ Unlocked(c)
  /\ c \in expired
  /\ record[c].status \in {"completed", "failed", "retryable"}
  /\ ~(record[c].status = "retryable" /\ c \in Saved)
  /\ record' = [record EXCEPT ![c] = NoRecord]
  /\ UNCHANGED <<effects, exec, indexed, expired, up>>

\* The process dies: executors and the in-memory index are gone.
Crash ==
  /\ up
  /\ up' = FALSE
  /\ exec' = [c \in Commands |-> Idle]
  /\ indexed' = {}
  /\ UNCHANGED <<record, effects, expired>>

\* Mutant: a restarted daemon starts with an empty index.
RestartEmpty ==
  /\ ~up
  /\ up' = TRUE
  /\ indexed' = {}
  /\ UNCHANGED <<record, effects, exec, expired>>

\* __init__: rebuild the index from the retryable records that kept a request.
Restart ==
  /\ ~up
  /\ up' = TRUE
  /\ indexed' = {c \in Saved : record[c].status = "retryable"}
  /\ UNCHANGED <<record, effects, exec, expired>>

Next ==
  \/ \E c \in Commands :
       \/ \E b \in Bodies : Start(c, b) \/ Recover(c, b)
       \/ Apply(c) \/ Finish(c)
       \/ \E o \in {"unknown", "not_applied"} : FailForGood(c, o)
       \/ FailRetryably(c) \/ Index(c)
       \/ Redeliver(c) \/ Discard(c)
       \/ Expire(c) \/ Prune(c)
  \/ Crash \/ Restart

\* The service manager restarts a dead daemon; a running thread runs on; the
\* delivery thread polls, and a callback that is retried again and again is
\* let through in the end.
Fairness ==
  /\ WF_vars(Restart)
  /\ \A c \in Commands :
       /\ WF_vars(Finish(c) \/ FailRetryably(c) \/ FailForGood(c, "unknown"))
       /\ WF_vars(Index(c))
       /\ SF_vars(Redeliver(c))
       /\ SF_vars(Apply(c) \/ FailForGood(c, "not_applied"))

Spec == Init /\ [][Next]_vars

FairSpec == Spec /\ Fairness

-----------------------------------------------------------------------------
(* Properties.                                                              *)

\* No request takes effect twice, whatever is redelivered, retried, pruned or
\* lost in a crash, except where the handler itself asks for a retry after an
\* effect (CommandJournal: "Durable at-most-once protection").
AtMostOnce ==
  \A c \in Commands \ Late : \A b \in Bodies : effects[c][b] <= 1

\* A command id stands for one request: while its record cannot be pruned, no
\* two different bodies of one command ever both take effect.
OneRequestPerId ==
  \A c \in Commands \ (Late \cup expired) :
    \A b1, b2 \in Bodies : effects[c][b1] > 0 /\ effects[c][b2] > 0 => b1 = b2

\* What holds between a command's record, its executor and its effects: the
\* inductive strengthening of the three properties above and below.
ExecutorMatchesRecord(c) ==
  /\ record[c].status = "none" <=> record[c].body = NoBody
  /\ exec[c].phase = "free" <=> exec[c].body = NoBody
  /\ exec[c].phase # "free" => record[c].body = exec[c].body
  /\ exec[c].phase \in {"running", "applied"} => record[c].status = "started"
  /\ exec[c].phase = "indexing" => record[c].status = "retryable"
  /\ c \notin Prompts => record[c].outcome # "unstarted"

EffectsMatchRecord(c) ==
  LET b == record[c].body IN
  /\ exec[c].phase = "applied" \/ record[c].status = "completed" => effects[c][b] > 0
  /\ exec[c].phase = "running" /\ c \notin Answers \cup Late => effects[c][b] = 0
  /\ record[c].outcome = "not_applied" /\ c \notin Late =>
       record[c].status = "failed" /\ c \notin Answers /\ effects[c][b] = 0
  /\ c \in Plain \ Late /\ record[c].status = "retryable" => effects[c][b] = 0
  /\ c \notin Late \cup expired =>
       \A d \in Bodies : effects[c][d] > 0 => d = b

JournalInv ==
  /\ TypeOK
  /\ \A c \in Commands : ExecutorMatchesRecord(c) /\ EffectsMatchRecord(c)
  /\ AtMostOnce

\* A receipt can be believed: "completed" is said only of an applied request;
\* "rejected", "retryable" and a prompt's "not_found" only of one that is not,
\* so resending or editing the saved prompt cannot duplicate it.
TruthfulReceipts ==
  \A c \in Commands \ Late : \A b \in Bodies :
    LET receipt == Receipt(c, b) IN
    /\ receipt = "completed" => effects[c][b] > 0
    /\ receipt = "rejected" => effects[c][b] = 0
    /\ c \notin Answers /\ receipt = "retryable" => effects[c][b] = 0
    /\ receipt = "not_found" /\ (c \in Prompts \/ c \notin expired)
         => effects[c][b] = 0

\* An in-doubt record is never executed again, pruned or reclassified: it can
\* only become "completed", from the committed business state.
InDoubt(c) == record[c].status = "started" /\ exec[c].phase = "free" /\ c \notin Answers
InDoubtIsKept ==
  [][\A c \in Commands : InDoubt(c) =>
       \/ record'[c] = record[c] /\ exec'[c] = exec[c]
       \/ record'[c].status = "completed" /\ c \in Prompts
            /\ effects[c][record[c].body] = 1]_vars

\* A saved prompt the daemon has taken over is settled in the end: it takes
\* effect, fails for good, or is left in doubt by a crash.
Settled(c) ==
  \/ record[c].body \in Bodies /\ effects[c][record[c].body] > 0
  \/ record[c].status = "failed"
  \/ InDoubt(c)
SavedPromptSettles ==
  \A c \in Saved : (record[c].status = "retryable") ~> Settled(c)
=============================================================================

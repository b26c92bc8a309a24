------------------------ MODULE CommandJournalProofs ------------------------
(***************************************************************************)
(* Proofs about CommandJournal, for every set of commands and bodies.       *)
(* JournalInv is inductive: what the record, the lock holder and the        *)
(* committed effects of one command say of each other is preserved by every  *)
(* step, and at-most-once and the truth of receipts follow from it.          *)
(***************************************************************************)
EXTENDS CommandJournal, TLAPS

USE CommandAssumption DEF Plain, NoRecord, Idle

\* The part of JournalInv that speaks of one command.
CommandInv(c) ==
  /\ ExecutorMatchesRecord(c)
  /\ EffectsMatchRecord(c)
  /\ c \notin Late => \A b \in Bodies : effects[c][b] <= 1

\* The invariant speaks of each command by itself.
LEMMA JournalInvByCommand ==
  /\ JournalInv <=> TypeOK /\ \A c \in Commands : CommandInv(c)
  /\ JournalInv' <=> TypeOK' /\ \A c \in Commands : CommandInv(c)'
BY DEF JournalInv, AtMostOnce, CommandInv

\* A step that leaves a command's variables alone keeps what is known of it.
LEMMA Untouched ==
  ASSUME NEW c \in Commands, CommandInv(c),
         record'[c] = record[c], effects'[c] = effects[c], exec'[c] = exec[c],
         expired \subseteq expired'
  PROVE  CommandInv(c)'
BY DEF CommandInv, ExecutorMatchesRecord, EffectsMatchRecord

\* The invariant holds at the start.
LEMMA InitInv == Init => JournalInv
<1> SUFFICES ASSUME Init PROVE JournalInv
  OBVIOUS
<1>1. TypeOK
  BY DEF Init, TypeOK, LegacyRecord, Statuses, Outcomes, Phases, Twice
<1>2. ASSUME NEW c \in Commands PROVE CommandInv(c)
  <2>1. record[c] \in {NoRecord} \cup {LegacyRecord(b) : b \in Bodies}
    BY DEF Init
  <2>2. effects[c] = [b \in Bodies |-> 0] /\ exec[c] = Idle
    BY DEF Init
  <2>3. record[c] # NoRecord => c \in Prompts
    BY DEF Init
  <2>. QED
    BY <2>1, <2>2, <2>3
    DEF CommandInv, ExecutorMatchesRecord, EffectsMatchRecord, LegacyRecord
<1>. QED
  BY <1>1, <1>2, JournalInvByCommand

-----------------------------------------------------------------------------
(* One lemma per action that changes the state of one command.              *)

\* Start keeps the invariant.
LEMMA StartKeeps ==
  ASSUME JournalInv, NEW c \in Commands, NEW b \in Bodies, Start(c, b)
  PROVE  JournalInv'
<1> USE JournalInvByCommand
<1>1. TypeOK'
  BY DEF Start, TypeOK, Statuses, Outcomes, Phases
<1>2. CommandInv(c)'
  <2>1. record'[c] = [status |-> "started", body |-> b, outcome |-> "unknown"]
        /\ exec'[c] = [phase |-> "running", body |-> b]
        /\ UNCHANGED <<effects, expired>>
    BY DEF Start, TypeOK
  <2>2. c \notin Answers \cup Late => effects[c][b] = 0
    <3>1. CASE c \in Prompts
      BY <3>1 DEF Start, Startable, Recovered, TypeOK, Twice
    <3>2. CASE c \in Plain \ Late
      BY <3>2 DEF Start, Startable, RetryableRecord, Deliverable, TypeOK, Twice,
                  CommandInv, ExecutorMatchesRecord, EffectsMatchRecord
    <3>. QED
      BY <3>1, <3>2
  <2>3. c \notin Late \cup expired =>
          \A d \in Bodies : effects[c][d] > 0 => d = b
    BY DEF Start, Startable, TypeOK, Twice, CommandInv, ExecutorMatchesRecord,
           EffectsMatchRecord
  <2>. QED
    BY <2>1, <2>2, <2>3
    DEF CommandInv, ExecutorMatchesRecord, EffectsMatchRecord
<1>3. ASSUME NEW d \in Commands, d # c PROVE CommandInv(d)'
  BY <1>3, Untouched DEF Start, TypeOK
<1>. QED
  BY <1>1, <1>2, <1>3

\* Recover keeps the invariant.
LEMMA RecoverKeeps ==
  ASSUME JournalInv, NEW c \in Commands, NEW b \in Bodies, Recover(c, b)
  PROVE  JournalInv'
<1> USE JournalInvByCommand
<1>1. TypeOK'
  BY DEF Recover, TypeOK, Statuses, Outcomes
<1>2. CommandInv(c)'
  <2>1. record'[c] = [status |-> "completed", body |-> b, outcome |-> "unknown"]
        /\ UNCHANGED <<effects, expired, exec>>
    BY DEF Recover, TypeOK
  <2>2. c \in Prompts /\ effects[c][b] > 0 /\ exec[c].phase = "free"
    BY DEF Recover, Recovered, Unlocked
  <2>3. c \notin Late \cup expired => \A d \in Bodies : effects[c][d] > 0 => d = b
    <3>1. record[c].status = "none" \/ record[c].body = b
      BY DEF Recover
    <3>. QED
      BY <2>2, <3>1, CommandAssumption DEF CommandInv, ExecutorMatchesRecord, EffectsMatchRecord
  <2>. QED
    BY <2>1, <2>2, <2>3 DEF CommandInv, ExecutorMatchesRecord, EffectsMatchRecord
<1>3. ASSUME NEW d \in Commands, d # c PROVE CommandInv(d)'
  BY <1>3, Untouched DEF Recover, TypeOK
<1>. QED
  BY <1>1, <1>2, <1>3

\* Apply keeps the invariant.
LEMMA ApplyKeeps ==
  ASSUME JournalInv, NEW c \in Commands, Apply(c)
  PROVE  JournalInv'
<1> USE JournalInvByCommand
<1> DEFINE b == exec[c].body
           n == IF c \in Answers \/ effects[c][b] = 0 THEN 1 ELSE 2
<1>1. b \in Bodies /\ record[c].body = b /\ record[c].status = "started"
  BY DEF Apply, TypeOK, CommandInv, ExecutorMatchesRecord
<1>2. /\ effects' = [effects EXCEPT ![c][b] = n]
      /\ exec' = [exec EXCEPT ![c].phase = "applied"]
      /\ UNCHANGED <<record, indexed, expired, up>>
  BY DEF Apply
<1>3. TypeOK'
  BY <1>1, <1>2 DEF TypeOK, Phases, Twice
<1>4. CommandInv(c)'
  <2>1. effects'[c] = [effects[c] EXCEPT ![b] = n] /\ exec'[c].phase = "applied"
        /\ exec'[c].body = b /\ record'[c] = record[c]
    BY <1>2 DEF TypeOK
  <2>2. c \notin Late => n = 1
    BY DEF Apply, CommandInv, EffectsMatchRecord, ExecutorMatchesRecord
  <2>3. effects[c] \in [Bodies -> Twice]
    BY DEF TypeOK
  <2>4. effects'[c][b] = n /\ \A d \in Bodies : d # b => effects'[c][d] = effects[c][d]
    BY <1>1, <2>1, <2>3
  <2>5. exec[c].phase = "running"
    BY DEF Apply
  <2>. QED
    BY <1>1, <1>2, <2>1, <2>2, <2>4, <2>5
    DEF CommandInv, ExecutorMatchesRecord, EffectsMatchRecord
<1>5. ASSUME NEW d \in Commands, d # c PROVE CommandInv(d)'
  BY <1>2, <1>5, Untouched DEF TypeOK
<1>. QED
  BY <1>3, <1>4, <1>5

\* Finish keeps the invariant.
LEMMA FinishKeeps ==
  ASSUME JournalInv, NEW c \in Commands, Finish(c)
  PROVE  JournalInv'
<1> USE JournalInvByCommand
<1>1. TypeOK'
  BY DEF Finish, TypeOK, Statuses, Phases
<1>2. CommandInv(c)'
  BY DEF Finish, TypeOK, CommandInv, ExecutorMatchesRecord, EffectsMatchRecord
<1>3. ASSUME NEW d \in Commands, d # c PROVE CommandInv(d)'
  BY <1>3, Untouched DEF Finish, TypeOK
<1>. QED
  BY <1>1, <1>2, <1>3

\* FailForGood keeps the invariant.
LEMMA FailForGoodKeeps ==
  ASSUME JournalInv, NEW c \in Commands, NEW o \in {"unknown", "not_applied"},
         FailForGood(c, o)
  PROVE  JournalInv'
<1> USE JournalInvByCommand
<1> DEFINE r == [record[c] EXCEPT !.status = "failed", !.outcome = o]
<1>0. record' = [record EXCEPT ![c] = r]
      /\ r \in [status : Statuses, body : Bodies \cup {NoBody}, outcome : Outcomes]
  <2>1. record[c] \in [status : Statuses, body : Bodies \cup {NoBody}, outcome : Outcomes]
    BY DEF TypeOK
  <2>. QED
    BY <2>1 DEF FailForGood, Statuses, Outcomes
<1>1. TypeOK'
  <2> HIDE DEF r
  <2>. QED
    BY <1>0 DEF FailForGood, TypeOK, Phases
<1>2. CommandInv(c)'
  BY DEF FailForGood, TypeOK, CommandInv, ExecutorMatchesRecord, EffectsMatchRecord
<1>3. ASSUME NEW d \in Commands, d # c PROVE CommandInv(d)'
  BY <1>3, Untouched DEF FailForGood, TypeOK
<1>. QED
  BY <1>1, <1>2, <1>3

\* FailRetryably keeps the invariant.
LEMMA FailRetryablyKeeps ==
  ASSUME JournalInv, NEW c \in Commands, FailRetryably(c)
  PROVE  JournalInv'
<1> USE JournalInvByCommand
<1>1. TypeOK'
  BY DEF FailRetryably, TypeOK, Statuses, Phases
<1>2. CommandInv(c)'
  BY DEF FailRetryably, TypeOK, CommandInv, ExecutorMatchesRecord, EffectsMatchRecord
<1>3. ASSUME NEW d \in Commands, d # c PROVE CommandInv(d)'
  BY <1>3, Untouched DEF FailRetryably, TypeOK
<1>. QED
  BY <1>1, <1>2, <1>3

\* Index keeps the invariant.
LEMMA IndexKeeps ==
  ASSUME JournalInv, NEW c \in Commands, Index(c)
  PROVE  JournalInv'
<1> USE JournalInvByCommand
<1>1. TypeOK'
  BY DEF Index, TypeOK, Phases
<1>2. CommandInv(c)'
  BY DEF Index, TypeOK, CommandInv, ExecutorMatchesRecord, EffectsMatchRecord
<1>3. ASSUME NEW d \in Commands, d # c PROVE CommandInv(d)'
  BY <1>3, Untouched DEF Index, TypeOK
<1>. QED
  BY <1>1, <1>2, <1>3

\* Prune keeps the invariant.
LEMMA PruneKeeps ==
  ASSUME JournalInv, NEW c \in Commands, Prune(c)
  PROVE  JournalInv'
<1> USE JournalInvByCommand
<1>1. TypeOK'
  BY DEF Prune, TypeOK, Statuses, Outcomes
<1>2. CommandInv(c)'
  BY DEF Prune, Unlocked, TypeOK, CommandInv, ExecutorMatchesRecord, EffectsMatchRecord
<1>3. ASSUME NEW d \in Commands, d # c PROVE CommandInv(d)'
  BY <1>3, Untouched DEF Prune, TypeOK
<1>. QED
  BY <1>1, <1>2, <1>3

\* Steps that touch no record, no effect and no executor.
LEMMA BookkeepingKeeps ==
  ASSUME JournalInv, NEW c \in Commands, Discard(c) \/ Expire(c)
  PROVE  JournalInv'
<1> USE JournalInvByCommand
<1>1. TypeOK'
  BY DEF Discard, Expire, TypeOK
<1>2. ASSUME NEW d \in Commands PROVE CommandInv(d)'
  BY Untouched DEF Discard, Expire
<1>. QED
  BY <1>1, <1>2

\* A crash releases every lock and a restart rebuilds the index; the records
\* and the committed effects are on disk.
LEMMA CrashRestartKeeps ==
  ASSUME JournalInv, Crash \/ Restart
  PROVE  JournalInv'
<1> USE JournalInvByCommand
<1>1. TypeOK'
  <2>1. CASE Crash
    BY <2>1 DEF Crash, TypeOK, Phases
  <2>2. CASE Restart
    BY <2>2 DEF Restart, TypeOK
  <2>. QED
    BY <2>1, <2>2
<1>2. ASSUME NEW d \in Commands PROVE CommandInv(d)'
  <2>1. CASE Crash
    BY <2>1 DEF Crash, CommandInv, ExecutorMatchesRecord, EffectsMatchRecord, TypeOK
  <2>2. CASE Restart
    BY <2>2, Untouched DEF Restart
  <2>. QED
    BY <2>1, <2>2
<1>. QED
  BY <1>1, <1>2

\* A redelivered command is started or recovered like any other.
LEMMA RedeliverIsAttempt ==
  ASSUME JournalInv, NEW c \in Commands, Redeliver(c)
  PROVE  \E b \in Bodies : Start(c, b) \/ Recover(c, b)
BY JournalInvByCommand
DEF Redeliver, TypeOK, CommandInv, ExecutorMatchesRecord

\* Every step keeps the invariant.
LEMMA NextKeeps == JournalInv /\ [Next]_vars => JournalInv'
<1> SUFFICES ASSUME JournalInv, [Next]_vars PROVE JournalInv'
  OBVIOUS
<1>1. ASSUME NEW c \in Commands, NEW b \in Bodies, Start(c, b) \/ Recover(c, b)
      PROVE  JournalInv'
  BY <1>1, StartKeeps, RecoverKeeps
<1>2. ASSUME NEW c \in Commands, Apply(c) \/ Finish(c)
      PROVE  JournalInv'
  BY <1>2, ApplyKeeps, FinishKeeps
<1>3. ASSUME NEW c \in Commands, NEW o \in {"unknown", "not_applied"}, FailForGood(c, o)
      PROVE  JournalInv'
  BY <1>3, FailForGoodKeeps
<1>4. ASSUME NEW c \in Commands, FailRetryably(c) \/ Index(c)
      PROVE  JournalInv'
  BY <1>4, FailRetryablyKeeps, IndexKeeps
<1>5. ASSUME NEW c \in Commands, Redeliver(c)
      PROVE  JournalInv'
  BY <1>1, <1>5, RedeliverIsAttempt
<1>6. ASSUME NEW c \in Commands, Discard(c) \/ Expire(c) \/ Prune(c)
      PROVE  JournalInv'
  BY <1>6, BookkeepingKeeps, PruneKeeps
<1>7. CASE Crash \/ Restart
  BY <1>7, CrashRestartKeeps
<1>8. CASE UNCHANGED vars
  BY <1>8 DEF vars, JournalInv, TypeOK, ExecutorMatchesRecord, EffectsMatchRecord,
              AtMostOnce
<1>. QED
  BY <1>1, <1>2, <1>3, <1>4, <1>5, <1>6, <1>7, <1>8 DEF Next

\* The inductive invariant holds in every reachable state.
THEOREM JournalInvariant == Spec => []JournalInv
BY InitInv, NextKeeps, PTL DEF Spec

\* Every variable keeps its type.
THEOREM TypeCorrect == Spec => []TypeOK
<1>1. JournalInv => TypeOK
  BY DEF JournalInv
<1>. QED
  BY <1>1, JournalInvariant, PTL

\* No request takes effect twice, across redelivery, retries, pruning, crashes.
THEOREM AtMostOnceHolds == Spec => []AtMostOnce
<1>1. JournalInv => AtMostOnce
  BY DEF JournalInv
<1>. QED
  BY <1>1, JournalInvariant, PTL

\* While its record is kept, one command id stands for one request.
THEOREM OneRequestPerIdHolds == Spec => []OneRequestPerId
<1>1. JournalInv => OneRequestPerId
  BY JournalInvByCommand DEF OneRequestPerId, CommandInv, EffectsMatchRecord
<1>. QED
  BY <1>1, JournalInvariant, PTL

\* What lookup tells a client about a command is true of the business state.
THEOREM TruthfulReceiptsHold == Spec => []TruthfulReceipts
<1>1. JournalInv => TruthfulReceipts
  <2> SUFFICES ASSUME JournalInv, NEW c \in Commands \ Late, NEW b \in Bodies
               PROVE
                 /\ Receipt(c, b) = "completed" => effects[c][b] > 0
                 /\ Receipt(c, b) = "rejected" => effects[c][b] = 0
                 /\ c \notin Answers /\ Receipt(c, b) = "retryable" => effects[c][b] = 0
                 /\ Receipt(c, b) = "not_found" /\ (c \in Prompts \/ c \notin expired)
                      => effects[c][b] = 0
    BY DEF TruthfulReceipts
  <2>1. TypeOK /\ CommandInv(c)
    BY JournalInvByCommand
  <2>2. effects[c][b] \in Twice
    BY <2>1 DEF TypeOK
  <2>3. CASE record[c].status # "none" /\ record[c].body # b
    BY <2>3 DEF Receipt
  <2>4. CASE record[c].status = "completed" /\ record[c].body = b
    BY <2>1, <2>4 DEF Receipt, CommandInv, EffectsMatchRecord
  <2>5. CASE record[c].status = "none" \/ (record[c].status # "completed" /\ record[c].body = b)
    <3>1. Receipt(c, b) =
            IF Recovered(c, b) THEN "completed"
            ELSE IF RetryableRecord(c) THEN "retryable"
            ELSE IF record[c].status = "none" THEN "not_found"
            ELSE IF record[c].status = "failed" /\ record[c].outcome = "not_applied"
                 THEN "rejected" ELSE "in_doubt"
      BY <2>5 DEF Receipt
    <3>2. Receipt(c, b) = "completed" => effects[c][b] > 0
      BY <3>1 DEF Recovered
    <3>3. Receipt(c, b) = "rejected" => effects[c][b] = 0
      BY <2>1, <2>5, <3>1 DEF CommandInv, EffectsMatchRecord
    <3>4. c \notin Answers /\ Receipt(c, b) = "retryable" => effects[c][b] = 0
      BY <2>1, <2>2, <2>5, <3>1
      DEF RetryableRecord, Recovered, CommandInv, EffectsMatchRecord, Twice
    <3>5. Receipt(c, b) = "not_found" /\ (c \in Prompts \/ c \notin expired)
            => effects[c][b] = 0
      BY <2>1, <2>2, <3>1
      DEF RetryableRecord, Recovered, CommandInv, EffectsMatchRecord,
          ExecutorMatchesRecord, Twice
    <3>. QED
      BY <3>2, <3>3, <3>4, <3>5
  <2>. QED
    BY <2>3, <2>4, <2>5
<1>. QED
  BY <1>1, JournalInvariant, PTL

\* What a step may do to a command in doubt.
DoubtIsKept(c) ==
  \/ record'[c] = record[c] /\ exec'[c] = exec[c]
  \/ record'[c].status = "completed" /\ c \in Prompts /\ effects[c][record[c].body] = 1

\* A step that works on one command keeps another one, or one in doubt.
LEMMA DoubtStep ==
  ASSUME JournalInv, NEW c \in Commands, InDoubt(c), NEW d \in Commands,
         \/ \E b \in Bodies : Start(d, b) \/ Recover(d, b)
         \/ Apply(d) \/ Finish(d)
         \/ \E o \in {"unknown", "not_applied"} : FailForGood(d, o)
         \/ FailRetryably(d) \/ Index(d)
         \/ Redeliver(d) \/ Discard(d) \/ Expire(d) \/ Prune(d)
  PROVE  DoubtIsKept(c)
<1>1. TypeOK /\ CommandInv(c)
  BY JournalInvByCommand
<1>2. record[c].status = "started" /\ exec[c].phase = "free" /\ c \notin Answers
  BY DEF InDoubt
<1>3. ASSUME NEW b, Start(d, b)  PROVE DoubtIsKept(c)
  <2>1. d # c
    BY <1>2, <1>3 DEF Start, Startable, RetryableRecord
  <2> QED  BY <1>1, <1>3, <2>1 DEF Start, DoubtIsKept, TypeOK
<1>4. ASSUME NEW b \in Bodies, Recover(d, b)  PROVE DoubtIsKept(c)
  <2>1. CASE d # c
    BY <1>1, <1>4, <2>1 DEF Recover, DoubtIsKept, TypeOK
  <2>2. CASE d = c
    <3>1. c \in Prompts /\ effects[c][b] > 0 /\ record[c].body = b
      BY <1>2, <1>4, <2>2 DEF Recover, Recovered
    <3>2. effects[c][b] \in Twice /\ c \notin Late
      BY <1>1, <3>1 DEF TypeOK
    <3>3. effects[c][b] = 1
      BY <1>1, <3>1, <3>2 DEF CommandInv, Twice
    <3>4. record'[c].status = "completed"
      BY <1>1, <1>4, <2>2 DEF Recover, TypeOK
    <3> QED  BY <3>1, <3>3, <3>4 DEF DoubtIsKept
  <2> QED  BY <2>1, <2>2
<1>5. CASE Apply(d) \/ Finish(d) \/ FailRetryably(d) \/ Index(d)
           \/ \E o \in {"unknown", "not_applied"} : FailForGood(d, o)
  <2>1. d # c
    BY <1>2, <1>5 DEF Apply, Finish, FailRetryably, Index, FailForGood
  <2> QED  BY <1>1, <1>5, <2>1 DEF Apply, Finish, FailRetryably, Index, FailForGood, DoubtIsKept, TypeOK
<1>6. CASE Redeliver(d)
  <2>1. record[d].body \in Bodies
    <3>1. CommandInv(d)
      BY JournalInvByCommand
    <3> QED  BY <1>1, <1>6, <3>1 DEF Redeliver, CommandInv, ExecutorMatchesRecord, TypeOK
  <2> QED  BY <1>3, <1>4, <1>6, <2>1 DEF Redeliver
<1>7. CASE Discard(d) \/ Expire(d)
  BY <1>7 DEF Discard, Expire, DoubtIsKept
<1>8. CASE Prune(d)
  <2>1. d # c
    BY <1>2, <1>8 DEF Prune
  <2> QED  BY <1>1, <1>8, <2>1 DEF Prune, DoubtIsKept, TypeOK
<1> QED  BY <1>3, <1>4, <1>5, <1>6, <1>7, <1>8

\* An in-doubt record is never executed again, pruned or reclassified: only the
\* committed business state turns it into a completed one (execute, prune,
\* pending_requests, recover_prompt_command).
THEOREM InDoubtIsKeptHolds == Spec => InDoubtIsKept
<1>1. ASSUME JournalInv, [Next]_vars, NEW c \in Commands, InDoubt(c)
      PROVE  DoubtIsKept(c)
  <2>1. CASE Crash
    <3>1. TypeOK /\ CommandInv(c)
      BY <1>1, JournalInvByCommand
    <3>2. exec[c] = Idle
      BY <1>1, <3>1 DEF InDoubt, CommandInv, ExecutorMatchesRecord, TypeOK
    <3> QED  BY <2>1, <3>2, <1>1 DEF Crash, DoubtIsKept
  <2>2. CASE Restart
    BY <2>2 DEF Restart, DoubtIsKept
  <2>3. CASE UNCHANGED vars
    BY <2>3 DEF vars, DoubtIsKept
  <2> QED  BY <1>1, <2>1, <2>2, <2>3, DoubtStep DEF Next
<1>2. JournalInv /\ [Next]_vars =>
        (\A c \in Commands : InDoubt(c) =>
           \/ record'[c] = record[c] /\ exec'[c] = exec[c]
           \/ record'[c].status = "completed" /\ c \in Prompts
                /\ effects[c][record[c].body] = 1)
  BY <1>1 DEF DoubtIsKept
<1>. QED
  BY <1>2, JournalInvariant, PTL DEF Spec, InDoubtIsKept
=============================================================================

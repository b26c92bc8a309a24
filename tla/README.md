# A TLA+ model of parallel-codex-runner

parallel-codex-runner (PCR) lets several Codex agents work on copies of one
workspace, lets the user choose a result, copies it back, and continues the
conversation from it. A daemon, `pcrd`, does this for native clients behind a
relay server; a plugin and a terminal interface use the same core. This
directory holds TLA+ models of the parts of PCR whose correctness depends on
the order of steps of several processes and on what survives a crash, the TLC
runs that check them, and proofs checked by TLAPS.

Paths below are relative to the root of the checkout; the Python package is
`src/src/parallel_codex_runner_core/`, the relay is `src/remote/server/pcr_relay/`.
`PROJECT.json` maps each definition to the lines it models.

## 1. Inventory

| Component (code) | State it keeps | Operations | What is hard |
|---|---|---|---|
| Command journal (`remote/journal.py`), prompt delivery (`remote/prompt_delivery.py`) | one JSON record per (client, command id); in memory a lock per key and the index of pending keys | execute, lookup, pending_requests, prune, construction; the delivery thread | redelivery by relay and clients, a crash between "started" and "completed", retryable errors raised after an effect, pruning by age |
| Follow-up queue and coordinator (`remote/follow_up_queue.py`) | a queue per workspace: items with attempt, claim and hold; run, conversation, selection, countdown, generation | replace, enqueue, clear, select, delay, pause, reset; the coordinator's pass: snapshot, compare, inspect, countdown, claim, execute, complete/pause/retry | the pass holds no lock while it reads registry and run; clients edit in between; the daemon dies between claim, run and completion |
| Turn continuation (`plugin_runtime.py`, `remote/controller.py`, `remote/workspace_registry.py`) | runs with their lineage and command identity; `last_run_id` of the workspace | turns.continue: admission, adoption of the source agent, save of the new run, registry update | the registry is written after the run; other clients start turns; adoption outlives the command's wait |
| Finalization (`plugin_runtime.py`, `finalization.py`, `plugin/state.py`) | the run's record (runs.json and its event log), `finalization.json`, `sync-proof.json`, the workspace, the copies | accept, recover_finalization, discard, background cleanup; reclassification when a manager is constructed | two processes, seven durable writes in order, either process dies between any two; a manager constructed elsewhere reclassifies the run meanwhile |
| Plugin worker (`plugin/worker.py`, `plugin/lifecycle.py`, `work_operations.py`) | requests, candidates window, stop, kill and shutdown files, checkpoint; the worker's process | publish a batch, boot, take a request, add an agent, stop, retire, replace, rescue | the request of a dead worker, an addition while the worker decides that the stage is over, a stop of what has not begun |
| Event log (`plugin/events.py`) | `events.jsonl` and its index | append, rebuild, count, read from a cursor, delete | several writing processes, lines and index entries torn by a death, cursors of readers |
| Run records (`plugin_runtime.py`) | `runs.json`, and a copy of each record in every manager's memory | sync from disk, refresh from the log, save, direct changes | last writer wins as a whole; managers in several processes; an operation holds an object that a save may replace |
| Run lifecycle (`app.py`) | agents' tasks of one batch | start, stop, kill, add, close the window of additions | cancellation, what is reported when several end at once |
| Agent execution (`codex_app_server.py`, `app.py`) | `execution_recovery.json`, the thread's history, adapter, native server and supervisor | start, submit, resume, interrupt, stop, retry | three processes that die apart; whether a submission arrived is not known |
| Agent questions (`agent_questions.py`, `async_answers.py`) | questions and answers with their delivery, the owner's lease, archives | ask, answer, take, write, mark; steer or deliver to an idle agent | an answer in three steps over two connections, the turn that asked ends meanwhile |
| Relay server (`relay.py`, `app.py`, `service.py`, `db.py`) | envelopes in a database; connections in memory | submit, push, read the offline queue, acknowledge, expire, clean up | a device that connects while envelopes are accepted, slow sockets, pages of 100 rows |
| Relay bridge (`remote/relay_bridge.py`, `remote/controller_relay.py`) | requests in hand, deferred ones, pending responses; a client's call | receive, handle, respond, acknowledge, reconnect, retry | it acknowledges only after the answer was stored; bounded queues; a handler that fails |
| Device login and pairing (`remote/relay_http.py`, `remote/relay_state.py`, `remote/relay_bridge.py`, `service.py`) | `relay.json`; the server's devices, pairings and tokens | enroll, authenticate, approve, poll, renew, compare trusted phones, revoke, forget, clean up | every request reads the file, asks the server and writes the file in separate steps; several clients of one file; lost answers |
| Everything else | workspace copies and diffs, registry, IPC, notifications, catalogues, synthesis, TUI, MCP, applications, packaging | | sequential I/O, parsing, presentation, third-party code |

How they meet. A client's command reaches `pcrd` through the relay (or the local
socket) and goes through the journal, which runs the controller's handler under
the command's lock. Handlers change the follow-up queue, the registry, and the
run manager. The queue's coordinator is itself a client of the journal, under
the name `pcrd-follow-up`. The manager hands batches and finalizations to the
run's worker process through files, and learns of their progress from the event
log. The worker supervises the adapters of its agents, each of which drives a
native server. Managers in other processes share the state directory.

Per component, what makes it correct:

* journal: an effect at most once per command; an id stands for one request;
  receipts are true; nothing in doubt is executed again; what was promised to be
  retried is retried, across restarts;
* queue: a message is sent at most once per attempt, only as claimed, only at
  the head; it leaves the queue as sent only if its run exists; it is sent, held
  or removed in the end;
* continuation: a turn continues the run and agent the user meant, from adopted
  files;
* finalization: one winner, copied once; a half-copied workspace is never passed
  off as anything else; copies go only when the choice is safe; it ends;
* worker: one owner of the run, no operation twice, nothing accepted and
  dropped, no stop unheard, no agent pending for ever;
* event log and records: event numbers are stable and have no gaps for any
  reader; every copy of the record applied each event once and in order; what
  was answered stays;
* agent execution: the prompt is sent once; the receipt never says more than the
  thread; supervision ends;
* questions: one answer, at most once, to the connection that asked; none shown
  as under way for ever;
* relay: an accepted envelope is delivered until acknowledged or expired, and a
  request is acknowledged only when its answer is stored;
* pairing: an approved pairing is settled, a trusted phone stays trusted, a
  machine that the server holds active is signed in again.

## 2. Modules

| Module | Models | Composition |
|---|---|---|
| `CommandJournal` | journal and delivery thread | stands alone; is also what `FollowUpDelivery` refines |
| `CommandJournalProofs` | theorems about it | EXTENDS CommandJournal |
| `FollowUpQueue` | queue, coordinator, continuation, registry, the journal's records of the queue's commands | |
| `FollowUpDelivery` | refinement mapping from FollowUpQueue to CommandJournal | EXTENDS FollowUpQueue, INSTANCE CommandJournal |
| `FollowUpQueueProofs` | theorems about the queue, and the refinement | EXTENDS FollowUpDelivery |
| `Finalization` | accept, recover, discard, cleanup, crash and reclassification of one run | INSTANCE Adoption |
| `Adoption` | what finalization promises to the owner of the workspace | abstract specification |
| `FinalizationProofs` | theorems about both | EXTENDS Finalization |
| `EventLog` | append, torn writes, repair of one run's event log | INSTANCE GrowOnlyLog |
| `GrowOnlyLog` | what readers of the log may rely on | abstract specification |
| `RunRecords` | the record of a run in several managers, on top of the log | EXTENDS EventLog |
| `RunRecordsProofs` | theorems about the log and the records | EXTENDS RunRecords |
| `AgentExecution` | adapter, native server, supervisor of one agent | |
| `AgentQuestions` | questions and answers of that agent | EXTENDS AgentExecution |
| `AgentProofs` | theorems about both | EXTENDS AgentQuestions |
| `RelayDelivery` | one client's call through the relay to the daemon and back | |
| `RelayDeliveryProofs` | theorems about it | EXTENDS RelayDelivery |
| `WorkerOperations` | the manager, the worker and the batches of a run | |
| `WorkerOwnership` | the inductive invariants: what the record, the file and the events say of the worker, where a begun request can be, how long the first batch takes additions | EXTENDS WorkerOperations |
| `WorkerOperationsProofs` | theorems about it | EXTENDS WorkerOwnership |
| `DevicePairing` | pairing, session and trusted phones of a machine | |
| `DevicePairingProofs` | theorems about it | EXTENDS DevicePairing |
| `MC...` | constants for TLC; `MCStores` and `MCDevicePairing` put modules that share no variable side by side, a behaviour being about one of them | |

Operators under a comment `Mutant:` are plausible bugs of the
definition below them. No specification uses them; they show that each property
can fail (listed in `PROJECT.json`).

### CommandJournal

`record` is the directory of records: status, body (the fingerprint of action,
body and expected revision) and what a failure says of delivery. `exec` is the
thread that holds a key's lock, with how far it has come. `effects` counts, up to
two, how often a request's effect was committed: it stands for run starts,
edits, answers alike. `indexed` is `_pending_keys`, `expired` says that the relay's
envelope outlived its life, so that only clients which keep the prompt themselves
can send it again.

`Start`/`Recover` are `execute` up to the callback: the gate `Startable` is the
chain of early returns of `execute`. `Apply`, `Finish`, `FailForGood`,
`FailRetryably` and `Index` are the callback and its three endings;
`FailRetryably` and `Index` are apart because the record is written before the
index and a crash may come between. `Redeliver` and `Discard` are the delivery
thread. `Prune` is `prune`, also when the constructor calls it; `Restart` is the
rebuilding of the index. Classes of commands are sets: `Prompts` have a
committed run to recover from, `Saved` prompts keep their request, `Answers` are
committed at most once by the question store whatever the journal does, and
`Late` handlers may ask for a retry after their effect, for which nothing is
promised.

### FollowUpQueue and FollowUpDelivery

`worker.pc` is the point of the coordinator's pass. Each lock-free read
(`Snapshot`, `Compare`, `Inspect`) and each locked write (`Countdown`, `Claim`,
`Complete`, `Pause`, `Wait`) is an action, and the writes compare with what
was read as the code does (`HeadMatches`, `StillCounting`, `fresh` for the
generation). `Execute` to `Finish` follow one command through the journal, the
admission check, the adoption of the source agent, the save of the run and the
registry update; `Fails`, `Raise` and `Raised` are the error paths. `Client` holds
replace, enqueue, clear, select, delay and stop, each handler that reads before
it writes split in two. `Environment` has the other clients' turns, agents that
end, reviews, finalizations, crash and restart. `FollowUpDelivery` maps the
points of a pass to `exec` of the journal and the saved runs to `effects`.

### Finalization and Adoption

`run` is the record, `journal` is `finalization.json` together with the proof,
`op` the operation under way with its program counter, by the worker or by a
manager; `alive`, `clean` and `up` are the two processes and what the worker's
status file says; `files` and `copies` are the workspace and the candidates;
`loader` is a manager under construction, with what it made of the record
that it read, and whether a newer one was saved since (`Overtakes`: the
timestamps tell it, and then it saves nothing). Every durable write of `_accept_agent`
is an action, in the order of the code: reservation, preservation, journal
`sync_started`, record, receipt, the copy (begin and end), journal
`sync_complete`, promotion event, journal `cleanup_started`, deletion, event
`agent_finalized`, journal `complete`. `Failed` is how the manager applies the
worker's failure event. `Noticed`, `Reclassified` and `Loaded` are
`_detect_worker_failure_locked`, `_recover_finalization_locked` and `_load_state`.
`begun` and `dropped` are history: the copy that nobody has disowned yet, and
whether a discard has begun. Recovery answers are truthful: the client says what
is in the workspace.

`Adoption` has four variables: the files, the copies, the chosen agent and the
agent in doubt; an accept that leaves the workspace alone is a choice without a
copy (`ChooseOnly`). In the mapping the choice is the journal's agent once its phase
is one from which nothing is copied again, and the doubt is `begun` until then.
Because crashes, reclassifications and retries all are steps or stutters of
Adoption, there is never a second copy before somebody disowned the first, a
second winner, a write after the choice, or a deletion in doubt.

### EventLog, GrowOnlyLog and RunRecords

`file` and `index` are the two files of `EventLog`, `ragged` a torn index entry,
`lock` the run's lock file with `turn`, what its holder still has to write. `Begin`,
`WriteLine` and `WriteIndex` are `append`; `DieWriting` and `DieRebuilding` cut it,
or the repair, anywhere, within a line or an entry; `Repair` is the repair that
precedes a read. Offsets are line numbers. A long report of an agent
is split into fragments (`Parts`), one line each. `ImplementsLog` maps the
complete lines to `GrowOnlyLog`: what a reader was shown never changes.

`RunRecords` adds, per manager, its copy of the record, the object that its
operation holds (`held`; `same` says whether it still is the copy), whether it
believes runs.json unchanged (`current`), and the step of its operation:
`Sync` is `_sync_state_from_disk_locked`, `Refresh` `_refresh_events_locked` page by
page, `SaveNews` and `StoreChange` `_save_state_locked`, `Change` a direct change of
the record (the rejection of an agent stands for all). The code says of the
copies that "a stale cache is impossible" (`plugin_runtime.py:746-752`). That
holds between operations; when operations of two managers overlap, a save may
replace the object another one is changing, and the later `updated_at` wins as a
whole. `exposed` records those changes, and the properties promise
nothing for them.

### AgentExecution and AgentQuestions

`receipt` is `execution_recovery.json`; `turns` the thread's history, which
outlives the native server; `adapter`, `server` and `supervisor` are the three
processes, each with its program counter; `request` and `events` the pipe between
adapter and server. The adapter checks the history before it submits, names
each submission by a message id, and resubmits only when the history proves
that nothing is under way. A submission whose answer and turn are both missing
is never repeated: `Ambiguous` names that state, in which the agent waits until
the user stops it. It is reached by a death between the receipt and the
write, and also when the service rejected `turn/start` in passing. When only the
worker dies, the adapter's next event cannot be printed and the receipt ends as
"blocked", after a completed turn, too (`Emitted`).

`AgentQuestions` adds the questions (`rows`, both stores in one), the lease of the
adapter's QuestionOwner, and an answer's way in steps: `handed` (taken from the
store), `written`, `wire`, and the server's reply. A request dies with its
connection; an async question is answered by steering the turn that asked or,
when the agent is idle, by a worker of its own (`idle`) with an archive
directory as its lock. `got` counts how often the agent took an answer.

### RelayDelivery

`rows` are the envelopes in the database. `link` is a device's connection as the
relay and the device see it: `open` and `hub` differ once a push timed out; `due`
and `batch` are the read of the offline queue; `inflight` and `recent` what
`RelayConnection.send` skips. `up` and `pushes` are what is on its way, `tasks` the
requests in the daemon's hands, `client` the call in progress. `Fault` actions are
lost connections, restarts of the relay, stalled pushes, expiry, cleanup, failed
handlers, unpairing, a full queue of the daemon, and a client that gives up.

Three states are named because only a new connection ends them: `Parked`, a
request whose handler failed or whose acknowledgement was refused; `Deaf`, a
connection that the hub dropped and that is still open; and `late`, an
acknowledgement from the previous connection that arrived over the new one, so
that the read which should have followed it found nothing. The read limit of 100
rows is `ReadLimit`: rows after the first page wait for an acknowledgement.

### WorkerOperations

`record` and `disk` are the manager's record and runs.json, `tail` and `seen` the
events between them; `requests`, `window`, `stop`, `kills`, `shutdown` and `checkpoint`
are the files; `workers` the processes in order of their start, `process` the
handle of the one that this manager started itself; `call` the operation the
manager is in. `Load` is the constructor's read of runs.json after `Restart`: until
it is done, nobody else is served. A request's file has the name of the operation
that the record shows when it is written (`RequestId`); `batch` is a number of its
own, so that two requests under one name can be told apart. `Scenarios` bounds how
many calls, stops and incidents there may be, and which agents run until they are
stopped; killed and cancelled agents count as failed.

`executed`, `dropped` and `slips` are history: the requests that were begun, agents
whose request was thrown away or never written, and where a state was written over
by an older one: the `record` by a refused batch, the `status` by stop_run, the
request of a batch `cut` off by a crash of the manager, the `checkpoint` by a worker that
leaves. The properties excuse these cases, and section 5 shows what follows from
each. `OneOwner` and `ExecutedOnce` excuse `record` and `checkpoint` only (`Kept`): what
stop_run does and what a crash leaves undone cannot break them.

### DevicePairing

`relay` is relay.json with its trusted phones, the code that waits and the
refresh token, told by what the server would say of it; `machine`, `phone` and
`pairings` are the server's records. `enroller`, `poller`, `renewer` and `keys` are
the requests under way, each in three steps: read the file, be answered, store
the answer. Access to the file is locked, the request is not, and daemon,
bridge and command line each have a client with locks of their own. `GiveUp`
loses a request at any step. `RenewAnswer` is the refresh and, for a token that
the server does not know, the sign-in with the device key.

## 3. Runs

| Run | Instance | Question and result |
|---|---|---|
| `stores` | journal: a saved prompt, a plain command, an answer, two bodies each; records: a worker and two managers, two lines, one death, two direct changes; relay.json: two phones, two codes, two revocations, one lost request | `JournalInv`, one request per id, true receipts, in-doubt kept; a log that only grows, each event applied once and in order in every copy, answered changes kept, current copies agree; no paired phone dropped: hold |
| `services` | journal: a saved prompt, the queue's unsaved one and a late command, one body; pairing: one phone, the application as poller, two codes, one revocation, one lost request; fairness | a saved prompt settles, an approved pairing settles, an active machine signs in again: hold |
| `queue_safety` | one message, two attempts, two agents that may fail or not end, two delays, three runs, two requests, one crash | queue and claims fit, one turn per attempt, lineage, claims kept, completed means sent: hold |
| `queue_pair` | two messages, two texts, one agent, three runs, two requests, one crash, fairness | no message is sent in place of another, the coordinator is a correct client of the journal, the head settles: hold |
| `finalization_safety` | two agents, accepts with a copy or without, four requests, one crash, one worker death, one foreign manager, fairness | refines Adoption, record agrees with journal, partial copies are visible, a finalization settles: hold |
| `finalization_interrupted`, `finalization_flip` | one agent, two requests, at most one crash and one death | section 5: violated |
| `agent` | one agent, an approval, an async question, three incidents | submissions are due, the receipt is true, answers arrive once, execution and answers settle: hold |
| `relay` | two attempts, one fault, a read of one row, one running request | nothing forgotten, acknowledged means answered, taken once per connection, requests are handled: hold |
| `relay_slow` | the same | section 5: violated |
| `workers` | a batch of one agent, a second agent, three scenarios, three workers | one owner, no request twice, nothing thrown away, quiet means ended, a stop ends, nothing pending for ever: hold |
| `pairing_renewal` | two phones, two codes, nothing revoked or lost | section 5: violated |

Why the bounds suffice. In the journal each command's state is independent of
the others except for `Crash` and `Restart`, so one command of each class shows every
interleaving of a command with itself; two bodies are needed for a conflict and
a third adds none. In the records, two managers
besides the worker are what it takes for one to overwrite another; a page of one
event makes a refresh of two pages possible; one death leaves a torn pair to be
repaired by any other process. In the queue, three runs let the source, the
message's own turn and a foreign turn exist together; two messages make "the
head was replaced by another" possible; two attempts make a retry after a pause
possible. One crash is enough for each recovery to start from
every intermediate state. One worker death is all there can be there, for a worker
that finalizes is not replaced; in `workers` it is, by the second, which may be replaced by a
third. Three
incidents of an agent are a failure, a second one during the recovery, and a
question, in any mixture. The relay's limits are reached at one row, one running
request and two envelopes; two attempts let an answer to the first meet the
second. Two codes let an older one be used while a newer one is shown. All
bounds are in the guards of the actions that count. `pairing` with two pollers
and two phones was checked once outside the kept runs (1 048 686 states, no
error), and with two revocations.

`CHECK_DEADLOCK FALSE` stands in every configuration: an empty queue, a
finalized run, an answered call or a paired machine may rest for ever, and so may
the idle half of a run that puts two systems side by side.

### Fairness

* Steps of a process that is running (`Finish`, `Executor`, `Coordinator`, `Adapter`,
  `Relay`, `Bridge`, `Progress`, ...) are weakly fair: the thread runs on. Turns of
  agents and requests in the daemon end; an agent that would run until it is
  stopped is one of the scenarios of `workers`.
* `Restart` is weakly fair: launchd or systemd restarts `pcrd` (`src/remote/installers/`).
* `Redeliver` and `Apply` in the journal are strongly fair: the delivery thread
  polls and takes what is due, and a retried callback is not refused for ever by
  a passing condition. Without the latter a handler may raise a retryable error
  at each attempt, and the code then retries for ever, as it should.
* `Inspect` and `Claim` in the queue are strongly fair: a read that fails now and
  then disables them again and again but not for ever, and a countdown ends.
* `FinalizeEnds` in the queue is strongly fair for outcomes other than "not
  applied", for the same reason.
* Pairing: the application polls while it shows a code and the bridge does when
  an unknown phone sends something; the maintainer looks at the session every
  minute; the server cleans up every hour; a request is carried on.
* Nothing is assumed of clients, users, other clients' turns, stops, crashes, deaths,
  faults, lost requests, edits, expiry, pruning, or reads that fail.

## 4. Proofs

| Module | Theorems | Assumptions on the constants |
|---|---|---|
| `CommandJournalProofs` | `JournalInvariant`, `TypeCorrect`, `AtMostOnceHolds`, `OneRequestPerIdHolds`, `TruthfulReceiptsHold`, `InDoubtIsKeptHolds` | classes are subsets of the commands, the sentinel is no body, an answer is no prompt, a late handler is neither |
| `FollowUpQueueProofs` | `QueueInvariant`, `OneTurnPerAttemptHolds`, `TurnsKeepLineageHolds`, `ClaimIsKeptHolds`, `CompletedIsSentHolds`, `StartsOnlyClaimedHeadHolds`; `FollowUpsImplementJournal` | agents are positive numbers, results are about those agents, there is at least one run; `None` is no message, claim, item or submission |
| `RunRecordsProofs` | `LogInvariant`, `EventsKeepTheirNumbers`, `LogImplementsGrowOnlyLog`; `RecordsInvariant`, `AppliedInOrderHolds`, `AnsweredChangesStayHolds`, `CurrentCopiesAgreeHolds`, `RecordsImplementLog` | nobody is no writer; managers are writers; a page has at least one event; bounds are numbers |
| `FinalizationProofs` | `FinalizationInvariant`, `PartIsNotHiddenHolds`, `FinalizationImplementsAdoption` | 0 is no agent; settings are pairs of Booleans; bounds are numbers |
| `RelayDeliveryProofs` | `RelayInvariant`, `NothingForgottenHolds`, `AckedMeansAnsweredHolds`, `TakenOncePerConnectionHolds` | bounds are numbers; a read returns, the quota admits and the daemon runs at least one |
| `AgentProofs` | `ExecutionInvariant`, `AgentInvariant`, `ReceiptIsTrueHolds`, `SubmissionIsDueHolds`, `AnswersReachOnceHolds`, `ReceivedIsTrueHolds` | a question is not of both kinds; the bound is a number |
| `WorkerOperationsProofs` | `OwnershipInvariant`, `OneOwnerHolds`, `ExecutedOnceHolds`, `FirstBatchInvariant`, `NothingThrownAwayHolds` | finitely many agents, the first batch is some of them; at least one worker; a scenario is three numbers and a set of agents |
| `DevicePairingProofs` | `PairingInvariant`, `TrustIsKeptHolds` | `NoPhone` is no phone |

**Journal.** At-most-once is not inductive: that a request may be started says
nothing of whether it already took effect. `JournalInv` adds, per command, what its record,
the holder of its lock and its effects say of each other
(`ExecutorMatchesRecord`, `EffectsMatchRecord`): a running executor that is
not an answer or late has no effect yet; a retryable plain record has none; a
record that says "not applied" has none; a completed one has one; and until the
envelope has expired every effect belongs to the recorded body. The last needs
the expiry because pruning forgets the body. The proof has one lemma per action,
each for the command the action touches, and one (`Untouched`) for the others;
`JournalInvByCommand` takes the invariant apart. The receipts then follow by
cases of `Receipt` without another induction, and `InDoubtIsKept` step by step.

**Queue.** The coordinator acts on a copy that it read earlier, so none of the
queue's promises is inductive without what the pass still knows. `QueueInv` says
it. `ClaimsMatchQueue` and `QueueFits` are about the stored queue: it is being sent
exactly when its head is claimed and not held, and the ids are distinct.
`PassFits` ties the pass to the queue: a claim in the copy is the head's claim
whatever clients did since, a copy that is called fresh still is the queue, and
the run that will be reported was started for this message (`ServesHead`).
`JournalFits` is why nothing is sent twice: a turn has a record of its own body that
is not retried, and a command that the pass is inside of has no turn before the
commit. `AdmissionFits` says that nobody else decides about the source run while
its adoption is awaited, from which `TurnsKeepLineage` follows at the commit.
There is one lemma per action; the clients' share `ClientStep` (a client keeps
claim and pass, `QueueKeeps`), those of other runs `RunsMoveAlone`. The action
properties need no second induction: `HeadMoves` says how a step may change a
claimed head, `NewTurns` that only `Commit` adds a turn. The refinement to
`CommandJournal` needs one more fact, `OutcomesFit`: a record that did not fail says
nothing of delivery, so a completed record is found as it was written. Then a
commit is `Apply` because the pass was inside a command without a turn, the error
paths are the journal's three endings, `Raised` is `Index`, and a pass outside its
command is not seen (`OutsideUnseen`).

**Event log.** That the numbers of events are stable depends on what each
holder of the lock left behind. `LogInv` says so: `LockFits` (a
holder of the lock works on a complete log, and its index is as far as its turn
says), `IndexFits` (the index lists the whole lines in order and lacks at most the
last), `LinesFit` (only the last line is ever torn, and each whole line carries the
number of its place). The central lemmas are about the repair
(`EnsuredFacts`, `RepairedFacts`): it removes at most the torn last line, which
no reader was shown, and leaves an index of the right length. The refinement follows
step by step: an append is a step of `GrowOnlyLog`, everything else a stutter.

**Records.** A change survives because the record that carries it is newer than
every other one, and what is newer depends on clock, log and lock. `RecordsInv` says
how. `TimesFit`: times come from the clock, and those of the lines follow each other.
`OperationFits`: one operation at a time changes the run and appends at most one
event. `MadeFits`: nothing was made that is not reported, but for that operation.
`UnseenFits` follows an operation that nobody else was within: its change is newer
than every other record, then its event is newer still and not yet applied, and
with the last page the record is as new as that event. So `StoreChange` puts it on
disk, and from then on `ReportedFits` holds: it is in runs.json, and
each manager has it or will read it before it does anything. In the proofs a record is
judged by log and clock (`Fits`); as the log only grows, what a step leaves alone
stays fit (`RecordsKept`, and the `Others...` lemmas for the managers that do not
move). Each action has one lemma; the two saves and the two refreshes share theirs.
`AppliedFacts` is about a page: what a record and the page at its cursor make is the
log up to the new cursor.

**Finalization.** `FinalizationInv` is what a process that reads record, journal and
workspace may rely on, whichever process died before it. Its parts are named
for what they tie together. `OperationFits` and `WorkerFits`: who works, and what
the record says of the worker. `JournalFits`: how far the journal is at each step of
an adoption (`Untouched`, `Copying`, `Adopted`). `AmbiguityFits`, `AdoptionFits` and
`ChoiceFits`: what a record promises, and that it follows the journal unless a
worker died between the two writes. `FilesFit` and `DoubtFits`: what the workspace
holds, and that a copy that may be there in part is visible in the record.
`RecoveryFits`: what the client saw is still so when its answer is written.
`LoaderFits` makes it inductive: a manager reads the record, reclassifies it, and
saves it many steps later, so what it holds must have stayed true since, unless it
was overtaken. There is one lemma per action. Those that end an operation share
`FailureKeeps` and `SuccessKeeps`, which say what a record must fit when its
operation ends (`Ends`); those that touch only record and operation share
`LoaderStaysFit`. The refinement needs no other invariant: `ChosenFacts`
reads choice and doubt off the journal, `UnseenSteps` covers all steps that
Adoption does not see, and the copy, the journal entries, the deletions and the
user's answer are each a step of it.

**Relay.** `RelayInv` makes the three promises inductive. `LinkFits` is about what the
hub remembers of a connection: an acknowledged envelope waits no longer, so to skip
it is harmless, and a batch with such an envelope in it marks the connection
as `late`. With it `NothingForgotten` survives each step: a send puts its envelope
among those in flight or leaves one there, an acknowledgement makes a read due, and
a read finds something when anything waits, because the oldest row for a device has
none before it (`PendingFacts`). `EnvelopesFit` says that each envelope is
submitted once and stored once, with the number of a delivery that happened, and
that an acknowledgement on its way is of an answered request; `TasksFit` that a
task before its response has none stored. `TakenFits` counts the chances: a new
connection or a push that stalls adds one, a send or a hand-over uses one up. The
lemmas above the actions say what a step leaves alone (`QuietStep`, `RelayStays`,
`LinkMoves`); below them each action has one.

**Agent.** Three processes know different parts of what was submitted, and any of
them may be gone. `ExecutionInv` says what is left to rely on. `ServerFits`: only the
last turn may be open, and only under a server, which a new adapter never finds.
`RequestFits` and `AdapterFits`: between the check of the history and the moment
the server reads the request no turn is open and nothing is under way, so what is
submitted is due when it arrives, too. `ReceiptFits`: the receipt carries the
last message id, the first of which is the prompt's. `EventsFit`: what the server
wrote is about its last turn, so an adapter that reads it late still learns the
truth. `SuccessFits`: nothing is submitted after a success. Each action has one lemma;
`InterruptedFacts`, `AppendFacts` and `TailFacts` are about history and messages.

For the questions, "at most once" follows from `OnePlace`: an answer that can still be
taken from the store is nowhere else, one that is in hand, on the wire or with
the idle worker is there only and was not taken. `RepliesFit` ties what the server says to
what the agent took. `ConnectionFits` is why a request's answer stays with its
connection: while no owner holds the lease, the wire carries an answer only to a server
whose adapter is gone, and the next adapter starts after that server's end. Steps of
the execution only lose answers or end requests, which `NothingGiven` covers once.

**Worker.** That a replacement starts only when the worker before it is gone depends on
what the manager believes, and it decides on a record that lags behind the
events. `Ownership` therefore speaks of a record with all unread events applied
(`Knows`). A worker is the `Holder` when it serves the run or waits to be published
and is named. While it is about to begin or in the middle of an operation
(`Bound`), the applied record names it and has an operation open; at rest it may have
been lost sight of, but then the run is not "completed", so nothing will adopt its
results and call it "stopped", which a replacement needs. The same is said of
three records: the one in memory (`RecordKnows`), the one on disk, which a restarted manager
will read (`DiskKnows`), and the one that a refused batch would go back to
(`BackKnows`, until an event was read with the announcement, which is the `record`
slip). `Unheard` says that a worker that has not begun is in no event, record or
checkpoint; `CallFits` what is still true later in a call that started on a check.
`OneHolder` then gives `OneOwner`. What stop, kill and a batch write down beside the
events is shown harmless by comparing records: a `Rival` of a record says the same of the
worker, may have an operation where the other has none, and is complete or
stopped less often; it stays one while both take in the same events
(`RivalsStay`). The recursive function `Applied` is unfolded without
induction over operators: least numbers (`Least`, `UpTo`) give the chain of
records (`ChainExists`, `AppliedIs`), and `AppliedConcat`, `AppliedWithin` and
`AppliedToBoth` are all that is used of it. There is one lemma per action; the worker's share
`WorkerSpeaks` (an event changes what all three records know alike).

`ExecutedOnce` needs `BegunInv`: either no file of a begun request is there (`Clean`), or
its worker is in hand (`InHand`): it is at it, or it died at it, and then no view of
the record says "stopped", the checkpoint still says that the worker lives, and
no replacement is on its way, until `Archive` has moved the file. `Numbered` says that a
new request has a number that none had before. TLC checked `BegunInv` as an
invariant of `workers` (256 800 states) before it was proved.

`NothingThrownAway` is about the first batch alone, whose window takes additions, and needs
`FirstBatchInv`. At the end of its operation `Deactivate` throws away what is in
the window, so the window must be empty and closed by then, or the run stopped:
`WindowFits`. Two things could break that. An addition could still get in: not after
`CloseStage`, for only an open window takes one. The stop could be taken back,
which a batch of its own does (`Mark`, mode "queued"): not while the first operation goes
on, because every record a manager may go by shows it then (`OpeningFits`, with
all unread events applied), so that a batch goes in live or is refused, and
because no other worker is there or on its way (`NoOther`). `UntakenFits` says the same
from the start of the worker until it takes the request (or leaves, or dies before
it does), `TakenFits` what is left of it after the end and until the request
is removed; `FirstHere` then fails for good, and no operation is "initial" again.
No premise about slips is needed. TLC checked `FirstBatchInv` on the same
instance first.

**Pairing.** `TrustIsKept` compares the file with what the server holds at the
moment of the write, while the list was read before. `ListingIsTrue` bridges the
two: a phone that the bridge is about to drop is not active, or was paired
again since (history `returned`). To be true of poll answers as well it
needs `UsersAreKnown` (who used a code is written down before the code can be
claimed) and `CodesAreIssued` (file and requests name only codes that exist).
One lemma per conjunct, one step per action.

Only model-checked: all liveness properties, because fairness and ENABLED are out of
the prover's reach; and of the workers `EndedWhenQuiet`. It is about agents: every
pending one would have to be accounted for in record, window, requests, tasks and
events at once, an invariant as large as `Ownership` per agent, which this
project does not have.

## 5. Where code and documentation differ

Four runs look for the violation of a statement that the repository makes, and
find it (`PROJECT.json` quotes the statements):

1. `finalization_interrupted` (`InterruptedMeansUntouched`): a worker that dies in
   mid-copy makes the run interrupted, which `pcr_recover_finalization` refuses,
   until some other manager is constructed.
2. `finalization_flip` (`SyncedIsSynced`): an adoption without sync that dies early is
   finished by an accept with sync, which copies nothing, records a sync and
   deletes the copies.
3. `relay_slow` (`SlowSocketRecovers`): a device whose push timed out stays connected
   but gets nothing until it acknowledges something or reconnects.
4. `pairing_renewal` (`PollableUntilExpiry`): a renewal of the machine's session
   erases the code that the machine is showing; a phone that approves it
   afterwards is never trusted.

Seven more statements are defined next to the properties and are not invariants
either. No configuration is kept for them; each is refuted in seconds by the
instance named, with the statement as its only property:

5. `AmbiguousMeansBegun` (`finalization_flip`, with syncing requests, no crash and no
   death): a sync refused before it wrote anything makes the run ambiguous,
   because its event is applied like that of a failed sync
   (`plugin_runtime.py:1257`).
6. `ManualMeansChosen` (`queue_safety`, with three requests and delays that do not end
   at once): a countdown stores the fallback
   agent and leaves the source at "manual" (`remote/follow_up_queue.py:1299`), so
   an agent nobody chose counts as a deliberate choice.
7. `ChangedMeansChanged` (`queue_pair` without its fairness, two runs): a crash
   between the save of a run and the registry update (`remote/controller.py:2595`)
   is never repaired; later messages are held because "the conversation changed".
8. `SavingIsUnderWay` (`finalization_flip`): a crash between the reservation
   and the worker's request (`plugin_runtime.py:3741`) leaves the run "being saved"
   with nobody saving it.
9. `DiscardIsFinal` (`finalization_interrupted`, with a crash of the daemon): a
   discarded run becomes ambiguous at the next start when its journal still says
   `sync_started` (`plugin_runtime.py:2026`).

10. `SentAsItStands` (`queue_safety`, with two texts, one agent, one attempt, two runs, no
   immediate delay and five requests): `_complete` removes the head if it has the id
   of the message that was sent (`remote/follow_up_queue.py:1066`), so a text edited
   in between is dropped unsent, against the comment at 1056-1057.
11. `ClaimBelongsToRun`: a countdown whose selection was dropped by another request
   is claimed with no agent selected, and `replace` then moves the queue to
   another run under that claim. This takes about eight requests; TLC refutes it
   from a reachable later state with three more.

`Stranded` (`Finalization`) is a state of the same sort that `FinalizationSettles`
excuses: a manager that read the record before a finalization ended saves it
afterwards, and the record says "finalizing" with nobody at work.

Seen while modelling, outside what the runs can show:

* Records: a direct change that overlaps another manager's operation can be lost,
  against the comment at `plugin_runtime.py:746-752`; the properties excuse it
  (`exposed`).
* Worker: `stop_run` writes "stopping" over an end that it had already read
  (`plugin_runtime.py:3659-3674`), and `restore_after_queue_failure` (3941-3980)
  restores fields noted before events were applied. An addition that was
  answered in the last moment of the window is dropped when the batch is
  cancelled (`app.py:6056-6074`). `EndedWhenQuiet` and `NothingThrownAway`
  name these cases.
* Worker, two at once: without its premise `Kept`, `OneOwner` is refuted in two ways.
  (a) With two calls, one SIGTERM and three workers. The first worker has written
  `plugin_worker_stopped` (`plugin/worker.py:827-835`) but not yet its status, and is
  replaced. Its late update of the status file (836-849) does not look at the pid in
  it, so the checkpoint now says that the replacement has left. A second
  replacement of the idle worker accepts that (`plugin_runtime.py:4362-4371`) and starts a
  third worker beside it.
  (b) With six calls, one SIGTERM and two hand-overs that fail. A refused batch
  restores the operation it noted before, over an `operation_started` that
  was read with its announcement. The record then shows no operation in the middle of
  one, maintenance (1556-1561) forgets the worker, and when the run has ended
  its results are adopted and a second worker is started.
* Worker, names of requests: the event read at the announcement may put another
  operation's id into the record (1125) or clear it (1290) before the request is written
  under it (4030-4036). A batch may so be written over the file of a request that
  a worker has taken, which removes that file at its end (`plugin/worker.py:821-825`);
  its agents then stay queued (`dropped`) and nobody runs them.
* Agent: a turn/start that was rejected in passing leaves the agent
  reconciling for ever; an adapter that outlives its worker ends "blocked" even
  after a completed turn, which neither Recover nor Retry resumes.
* Questions: the native server says "resolved" also when a turn ends before it
  read the answer, which is then shown as received, against
  `src/remote/qa/2026-10-16-agent-questions.md:48-49`; a death between the archive
  directory and the claim (`async_answers.py:54-56`) makes later idle deliveries
  fail.
* Pairing: after forget and a new enrollment the server finds the same machine by
  its key, while relay.json counts its transport sequence from 0 again
  (`remote/relay_http.py:235`) and the server refuses used numbers
  (`relay.py:316-331`); `ARCHITECTURE.md:113` calls the sequence monotonic. `_enroll`
  loads and saves without a lock in between (206-242) and so restores an older
  session, which the machine recovers from (`SignInRecovers`), and drops a phone
  paired meanwhile (`Overwritten`). `remove_unavailable_trusted_devices` claims to
  work "without racing a newly completed pairing" (`remote/relay_state.py:345`);
  a phone revoked and paired again with its old key while the list is read is the
  exception.

## 6. Not modelled

* Journal: the fields of a record that no decision reads.
* Queue: `reconcile_enqueue`, the lengths of delays and `retry_at`, removal of a
  workspace, the explicit generation conflict of `replace` (a stale client's
  request is refused and changes nothing).
* The queue's model has only the outcome of a finalization, and the
  finalization's model only the end of a batch of agents.
* Finalization: one shared record. Managers re-read the record before they use it
  and keep the newer one by its timestamp; where a reclassification, which does
  not renew the timestamp, meets the last save of a worker, the model takes
  either outcome (`Complete`). Cancelled and failed batches count as completed.
  Retention expiry, storage cleanup and failing writes of the state files are left
  out.
* Event log: `delete`, which ends the run, and the byte limits of a page.
* Agent: the hand-over between accounts, the legacy exec transport, retryable
  blocked receipts, a steering reply for another turn.
* Relay: message ids are always fresh; the byte quota, the bound of 1024
  remembered acknowledgements, several connections of one device, renewal of
  tokens while connected. The bridge's limit of 128 deferred requests is shared
  with other clients and so appears as a fault.
* Worker: finalize and discard as worker operations (`Finalization` has what they
  do), responses, deadlines, synthesis, in-process runs, and
  `PCR_PLUGIN_RUN_TTL_SECONDS`, whose `expired` overrides any status
  (`plugin/worker.py:671-674`).
* Pairing: transport sequence numbers, reuse of a code that is still good, the
  store of a machine that controls another, the login of accounts, several
  accounts and relays, local pairing (`remote/devices.py`).
* The components without a module in `PROJECT.json`, with the reason for each.
  The largest are file copying, terminal interface and vendored Textual: I/O,
  presentation and third-party code.

## 7. Plan

1. `FollowUpQueue`: `reconcile_enqueue`.
2. `WorkerOperations`: finalize and discard as operations of the worker, which
   would join it with `Finalization`.
3. `DevicePairing`: transport sequence numbers across forget and re-enrollment.

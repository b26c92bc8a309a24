----------------------------- MODULE Finalization -----------------------------
(***************************************************************************)
(* Finalization of one run (plugin_runtime.py, finalization.py and the       *)
(* worker loop of plugin/worker.py): a client accepts an agent, its result is *)
(* copied over the original workspace, its session is promoted and the        *)
(* candidate workspaces are deleted; or the run is discarded.                 *)
(*                                                                         *)
(* The work is done by the run's persistent worker, a process of its own, or  *)
(* by the manager inside the daemon when only cleanup is left or the worker   *)
(* is gone.  Either may die between two writes.  What they leave behind is    *)
(* the run's record (runs.json with its event log), the finalization journal  *)
(* and the files; every manager that is constructed, the daemon's at a start  *)
(* or that of another run's worker, reclassifies the run from the journal.    *)
(*                                                                         *)
(* The record is one variable: managers re-read it before they use it, and a  *)
(* manager that was constructed saves only if nothing newer was saved since   *)
(* it read the record, which the timestamps of the records tell.              *)
(***************************************************************************)
EXTENDS Naturals, FiniteSets

CONSTANTS
  Agents,      \* agents with a successful result
  Settings,    \* the sync_back and keep_workspaces an accept may carry
  MaxRequests, \* bounds: client requests,
  MaxCrashes,  \*   deaths of the daemon,
  MaxDeaths,   \*   deaths of the worker,
  MaxPeers     \*   managers constructed by other processes

NoAgent == 0

ASSUME FinalizationAssumption ==
  /\ Agents \subseteq Nat \ {NoAgent}
  /\ Settings \subseteq [sync : BOOLEAN, keep : BOOLEAN] /\ Settings # {}
  /\ MaxRequests \in Nat /\ MaxCrashes \in Nat /\ MaxDeaths \in Nat /\ MaxPeers \in Nat

Statuses == {"running", "stopping", "completed", "interrupted", "finalizing",
             "sync_ambiguous", "cleanup_failed", "finalized", "discarded"}
Final == {"finalized", "discarded"}
Phases == {"none", "sync_started", "sync_complete", "cleanup_started", "complete",
           "sync_not_applied"}

\* Phases from which a restart does not synchronise again.
Synced == {"sync_complete", "cleanup_started", "complete"}

Tasks == {"none", "agents", "finalize", "recover", "discard", "cleanup"}
Steps == {"idle", "reserved", "begin", "preserve", "journal", "mark", "receipt", "sync",
          "writing", "synced", "promote", "cleanup", "deleting", "finish", "complete",
          "answer", "dropping", "dropped"}

VARIABLES
  run,      \* the run's record
  journal,  \* finalization.json
  op,       \* the operation under way: the worker's, or the manager's own
  alive,    \* the worker process
  clean,    \* its status file says that it ended a batch of agents cleanly
  files,    \* the workspace: as it was, an agent's result, or part of one
  copies,   \* the candidate workspaces exist
  loader,   \* a manager under construction: what it made of the record that it
            \* read, and whether a newer one was saved since
  up,       \* the daemon
  begun,    \* the agent whose result was last begun to be copied, until somebody
            \* says that it was not applied
  dropped,  \* a discard has begun
  spent     \* client requests, crashes, deaths and peers so far

vars == <<run, journal, op, alive, clean, files, copies, loader, up, begun, dropped, spent>>

NoOp == [task |-> "none", by |-> "none", pc |-> "idle", agent |-> NoAgent, sync |-> TRUE,
         keep |-> FALSE, already |-> FALSE, applied |-> FALSE]
NoLoader == [who |-> "none"]

Choices == Agents \cup {NoAgent}

\* What the workspace holds.
Original == [of |-> NoAgent, whole |-> TRUE]
Result(a) == [of |-> a, whole |-> TRUE]
Part(a) == [of |-> a, whole |-> FALSE]

Record == [status : Statuses, saving : Choices, agent : Choices, synced : BOOLEAN,
           deleted : BOOLEAN, sync : BOOLEAN, keep : BOOLEAN,
           worker : {"idle", "busy", "stopped", "crashed"}, task : Tasks]
Journal == [phase : Phases, agent : Choices, synced : BOOLEAN, deleted : BOOLEAN,
            proven : BOOLEAN]
Op == [task : Tasks, by : {"none", "worker", "manager"}, pc : Steps, agent : Choices,
       sync : BOOLEAN, keep : BOOLEAN, already : BOOLEAN, applied : BOOLEAN]
Loading == [who : {"daemon", "peer"}, found : Record, stale : BOOLEAN]

TypeOK ==
  /\ run \in Record /\ journal \in Journal /\ op \in Op
  /\ alive \in BOOLEAN /\ clean \in BOOLEAN /\ copies \in BOOLEAN /\ up \in BOOLEAN
  /\ files \in [of : Choices, whole : BOOLEAN]
  /\ loader = NoLoader \/ loader \in Loading
  /\ begun \in Choices /\ dropped \in BOOLEAN

-----------------------------------------------------------------------------
(* The state of the worker as the manager sees it.                          *)

\* _worker_active_locked, _worker_available_locked.
Active == alive /\ run.worker = "busy"
Available == alive /\ run.worker \notin {"crashed", "stopped"}

\* The worker is dead and nobody has noticed yet.
Unnoticed == ~alive /\ run.worker \notin {"crashed", "stopped"}

\* _result_operation_pending_locked.
Saving == run.status = "finalizing" \/ (Active /\ run.task \in {"finalize", "recover", "discard"})

\* _completed_result_recovery_available_locked.
Recoverable == /\ run.status = "completed" /\ run.agent = NoAgent /\ ~alive
               /\ run.task = "none" /\ clean
               /\ journal.phase \in {"none", "sync_not_applied"}

\* Mutant: a finalization is not taken for interrupted when its worker dies.
NoticedUnlessFinalizing(r) ==
  [r EXCEPT !.worker = "crashed", !.task = "none",
            !.status = IF @ \in {"running", "stopping"} THEN "interrupted" ELSE @]

\* _detect_worker_failure_locked, for a worker that is dead.
Noticed(r) ==
  IF r.status \in Final \/ Recoverable
  THEN [r EXCEPT !.worker = "stopped", !.task = "none"]
  ELSE [r EXCEPT !.worker = "crashed", !.task = "none",
                 !.status = IF @ \in {"running", "stopping", "finalizing"} THEN "interrupted" ELSE @]

\* _recover_finalization_locked.
Reclassified(r) ==
  CASE journal.phase = "sync_started" ->
         [r EXCEPT !.agent = journal.agent, !.status = "sync_ambiguous"]
    [] journal.phase = "sync_complete" ->
         [r EXCEPT !.agent = journal.agent, !.synced = journal.synced, !.status = "cleanup_failed"]
    [] journal.phase = "cleanup_started" ->
         [r EXCEPT !.agent = journal.agent, !.synced = journal.synced, !.status = "finalized"]
    [] journal.phase = "complete" ->
         [r EXCEPT !.agent = journal.agent, !.synced = journal.synced, !.status = "finalized",
                   !.deleted = journal.deleted]
    [] OTHER -> r

\* _load_state: what a new manager makes of the run.
Loaded == Reclassified(IF Unnoticed THEN Noticed(run) ELSE run)

-----------------------------------------------------------------------------
Init ==
  /\ \E s \in {"running", "completed"}, c \in Settings :
       run = [status |-> s, saving |-> NoAgent, agent |-> NoAgent, synced |-> FALSE,
              deleted |-> FALSE, sync |-> c.sync, keep |-> c.keep,
              worker |-> IF s = "running" THEN "busy" ELSE "idle",
              task |-> IF s = "running" THEN "agents" ELSE "none"]
  /\ journal = [phase |-> "none", agent |-> NoAgent, synced |-> FALSE, deleted |-> FALSE,
                proven |-> FALSE]
  /\ op = NoOp
  /\ alive = TRUE /\ clean = (run.status = "completed")
  /\ files = Original /\ copies = TRUE
  /\ loader = NoLoader /\ up = TRUE
  /\ begun = NoAgent /\ dropped = FALSE
  /\ spent = [requests |-> 0, crashes |-> 0, deaths |-> 0, peers |-> 0]

Spend(what, bound) == spent[what] < bound /\ spent' = [spent EXCEPT ![what] = @ + 1]

\* A client request reaches the manager, which first notices a dead worker.  It
\* holds the run's operation lock, unless it only waits for the worker.
Request == up /\ ~Unnoticed /\ op.by # "manager" /\ op.pc # "reserved"
             /\ Spend("requests", MaxRequests)

Configured(r, s) == [r EXCEPT !.sync = s.sync, !.keep = s.keep]

Operation(task, by, agent) ==
  [NoOp EXCEPT !.task = task, !.by = by, !.agent = agent,
               !.pc = IF by = "worker" THEN "reserved" ELSE "begin"]

Busy(r, task) == [r EXCEPT !.worker = "busy", !.task = task]

Files == <<journal, files, copies, begun, dropped>>
Processes == <<alive, clean, up>>

\* What is saved carries a newer timestamp than what a loader has read.
Overtakes == loader' = IF run' = run \/ loader = NoLoader THEN loader
                       ELSE [loader EXCEPT !.stale = TRUE]

-----------------------------------------------------------------------------
(* Client requests.                                                         *)

\* Only cleanup is left, or the worker ended cleanly before: the manager
\* finalizes by itself.
AcceptHere(a, s) ==
  /\ Request
  /\ \/ run.status = "cleanup_failed" /\ run.agent = a /\ ~Active
     \/ Recoverable /\ copies
  /\ run' = Configured(run, s)
  /\ op' = Operation("finalize", "manager", a)
  /\ UNCHANGED <<Files, Processes>>

\* accept_agent hands the finalization to the worker: the choice is reserved
\* and saved before the request is written for the worker.
AcceptByWorker(a, s) ==
  /\ Request
  /\ run.status \notin {"sync_ambiguous", "finalized"} /\ run.agent \in {NoAgent, a}
  /\ ~(run.status = "cleanup_failed" /\ run.agent = a) /\ ~Recoverable
  /\ ~Saving /\ ~Active /\ Available /\ copies
  /\ run' = Busy([Configured(run, s) EXCEPT !.saving = a, !.status = "finalizing"], "finalize")
  /\ op' = Operation("finalize", "worker", a)
  /\ UNCHANGED <<Files, Processes>>

\* The agents are still at work: an accept, or a discard, stops them first.
StopFirst ==
  /\ Request
  /\ Active /\ run.task = "agents" /\ run.status = "running"
  /\ run' = [run EXCEPT !.status = "stopping"]
  /\ UNCHANGED <<op, Files, Processes>>

\* An accept that is refused, or that joins the one under way, has changed the
\* run's settings all the same.
AcceptRefused(a, s) ==
  /\ Request
  /\ \/ run.status \in {"sync_ambiguous", "finalized", "discarded", "interrupted"} \/ Saving
     \/ run.agent \notin {NoAgent, a}
  /\ Configured(run, s) # run
  /\ run' = Configured(run, s)
  /\ UNCHANGED <<op, Files, Processes>>

\* recover_finalization: the client inspected the workspace and says what it
\* saw, or has the manager verify it against the recorded receipt, which needs
\* the workspace's lease.
Recover(applied, verified) ==
  /\ Request
  /\ run.status = "sync_ambiguous" /\ run.agent # NoAgent
  /\ applied <=> files = Result(run.agent)
  /\ verified => applied /\ journal.proven /\ op.pc # "writing"
  /\ IF Available
     THEN ~Active /\ run' = Busy(run, "recover")
     ELSE UNCHANGED run
  /\ op' = [Operation("recover", IF Available THEN "worker" ELSE "manager", run.agent)
              EXCEPT !.applied = applied]
  /\ UNCHANGED <<Files, Processes>>

\* discard_run, which may be repeated for copies that were kept.
Droppable == /\ run.agent = NoAgent /\ run.status # "finalized"
             /\ ~(run.status = "discarded" /\ run.deleted)
Discard ==
  /\ Request
  /\ Droppable /\ ~Active
  /\ IF Available
     THEN run' = Busy(run, "discard") ELSE run.status # "finalizing" /\ UNCHANGED run
  /\ op' = Operation("discard", IF Available THEN "worker" ELSE "manager", NoAgent)
  /\ UNCHANGED <<Files, Processes>>

\* _queue_persistent_operation_locked writes the request after the record.
Enqueue ==
  /\ op.pc = "reserved"
  /\ op' = IF alive THEN [op EXCEPT !.pc = "begin"] ELSE NoOp
  /\ clean' = (clean /\ alive)
  /\ UNCHANGED <<run, Files, alive, loader, up, spent>>

-----------------------------------------------------------------------------
(* The finalization, step by step, by the worker or the manager.            *)

At(task, pc) == op.task = task /\ op.pc = pc
GoTo(pc) == op' = [op EXCEPT !.pc = pc]
Elsewhere == <<up, spent>>

\* An operation of the worker fails: it reports so and waits for another one.
\* A finalization that had not chosen its agent yet is taken back.
Failed(r) ==
  IF op.by = "manager" THEN r
  ELSE [r EXCEPT !.worker = "idle", !.task = "none",
                 !.status = IF op.task = "finalize" /\ @ = "finalizing" /\ r.agent = NoAgent
                            THEN "completed" ELSE @]
Fails(r) == run' = Failed(r) /\ op' = NoOp
               /\ clean' = (clean /\ op.by = "manager") /\ UNCHANGED alive

\* The worker leaves after a finalization or a discard that succeeded.
Succeeds(r) ==
  /\ op' = NoOp
  /\ IF op.by = "manager" THEN run' = r /\ UNCHANGED <<alive, clean>>
     ELSE /\ run' = [r EXCEPT !.worker = "stopped", !.task = "none"]
          /\ alive' = FALSE /\ clean' = FALSE

\* Mutant: a recorded sync is not looked up before the result is copied.
BeginUnaware ==
  /\ At("finalize", "begin")
  /\ \/ /\ run.status \notin {"sync_ambiguous", "finalized"} /\ run.agent \in {NoAgent, op.agent}
        /\ copies
        /\ run' = [run EXCEPT !.saving = op.agent, !.status = "finalizing"]
        /\ op' = [op EXCEPT !.pc = "preserve", !.sync = run.sync, !.keep = run.keep]
        /\ clean' = (clean /\ op.by = "manager") /\ UNCHANGED alive
     \/ (run.status = "sync_ambiguous" \/ run.agent \notin {NoAgent, op.agent} \/ ~copies) /\ Fails(run)
     \/ run.status = "finalized" /\ Succeeds(run)
  /\ UNCHANGED <<Files, Elsewhere>>

\* _accept_agent checks the choice again and reads the settings.
Begin ==
  /\ At("finalize", "begin")
  /\ LET already == \/ journal.phase \in Synced
                    \/ run.status = "cleanup_failed" /\ run.agent = op.agent /\ run.synced
         refused == \/ run.status = "sync_ambiguous" \/ run.agent \notin {NoAgent, op.agent}
                    \/ ~already /\ ~copies
     IN \/ refused /\ Fails(run)
        \/ ~refused /\ run.status = "finalized" /\ Succeeds(run)
        \/ /\ ~refused /\ run.status # "finalized"
           /\ run' = IF already THEN run
                     ELSE [run EXCEPT !.saving = op.agent, !.status = "finalizing"]
           /\ op' = [op EXCEPT !.pc = "preserve", !.sync = run.sync, !.keep = run.keep,
                               !.already = already]
           /\ clean' = (clean /\ op.by = "manager") /\ UNCHANGED alive
  /\ UNCHANGED <<Files, Elsewhere>>

\* The candidates' diffs are preserved, which may fail.
Preserve ==
  /\ At("finalize", "preserve")
  /\ \/ /\ GoTo(IF op.already THEN "promote" ELSE "journal")
        /\ UNCHANGED <<run, alive, clean>>
     \/ Fails(IF op.already THEN [run EXCEPT !.status = "cleanup_failed"]
              ELSE [run EXCEPT !.status = "completed", !.agent = NoAgent])
  /\ UNCHANGED <<Files, Elsewhere>>

\* The journal says what is about to happen; an older proof no longer counts.
JournalStart ==
  /\ At("finalize", "journal")
  /\ journal' = [journal EXCEPT !.phase = IF op.sync THEN "sync_started" ELSE "sync_complete",
                                !.agent = op.agent, !.synced = FALSE, !.proven = FALSE]
  /\ GoTo("mark")
  /\ UNCHANGED <<run, files, copies, begun, dropped, alive, clean, Elsewhere>>

Mark ==
  /\ At("finalize", "mark")
  /\ run' = [run EXCEPT !.agent = op.agent, !.status = "finalizing"]
  /\ GoTo(IF op.sync THEN "receipt" ELSE "promote")
  /\ UNCHANGED <<Files, alive, clean, Elsewhere>>

\* sync_with_receipt records what the workspace will be.
Receipt ==
  /\ At("finalize", "receipt")
  /\ journal' = [journal EXCEPT !.proven = TRUE]
  /\ GoTo("sync")
  /\ UNCHANGED <<run, files, copies, begun, dropped, alive, clean, Elsewhere>>

\* The receipt cannot be recorded, the workspace's lease is taken, or a check
\* refuses the sync before it writes anything.
Preflight ==
  /\ op.task = "finalize" /\ op.pc \in {"receipt", "sync"}
  /\ Fails([run EXCEPT !.agent = op.agent, !.status = "sync_ambiguous"])
  /\ UNCHANGED <<Files, Elsewhere>>

\* sync_best_workspace_back starts to write, ...
SyncWrites ==
  /\ At("finalize", "sync")
  /\ files' = Part(op.agent) /\ begun' = op.agent
  /\ GoTo("writing")
  /\ UNCHANGED <<run, journal, copies, dropped, alive, clean, Elsewhere>>

\* ... and ends, ...
SyncEnds ==
  /\ At("finalize", "writing")
  /\ files' = Result(op.agent)
  /\ GoTo("synced")
  /\ UNCHANGED <<run, journal, copies, begun, dropped, alive, clean, Elsewhere>>

\* Mutant: an error in the middle of the copy takes the choice back.
SyncFailsQuietly ==
  /\ At("finalize", "writing")
  /\ Fails([run EXCEPT !.agent = NoAgent, !.status = "completed"])
  /\ UNCHANGED <<Files, Elsewhere>>

\* ... or raises an error that leaves the workspace half written.
SyncFails ==
  /\ At("finalize", "writing")
  /\ Fails([run EXCEPT !.status = "sync_ambiguous"])
  /\ UNCHANGED <<Files, Elsewhere>>

AfterSync ==
  /\ At("finalize", "synced")
  /\ journal' = [journal EXCEPT !.phase = "sync_complete", !.agent = op.agent, !.synced = TRUE]
  /\ GoTo("promote")
  /\ UNCHANGED <<run, files, copies, begun, dropped, alive, clean, Elsewhere>>

\* The session is promoted (a failure is only recorded), unless that was done
\* before or the workspace is not to be touched.
Promote ==
  /\ At("finalize", "promote")
  /\ \/ run' = [run EXCEPT !.agent = op.agent, !.synced = op.sync, !.status = "finalizing"]
     \/ op.already /\ UNCHANGED run
  /\ GoTo(IF op.keep THEN "finish" ELSE "cleanup")
  /\ UNCHANGED <<Files, alive, clean, Elsewhere>>

CleanupStart ==
  /\ At("finalize", "cleanup")
  /\ journal' = [journal EXCEPT !.phase = "cleanup_started", !.agent = op.agent, !.synced = op.sync]
  /\ GoTo("deleting")
  /\ UNCHANGED <<run, files, copies, begun, dropped, alive, clean, Elsewhere>>

\* The candidate workspaces are deleted; an error there fails nothing.
Delete ==
  /\ At("finalize", "deleting")
  /\ copies' \in {copies, FALSE}
  /\ GoTo("finish")
  /\ UNCHANGED <<run, journal, files, begun, dropped, alive, clean, Elsewhere>>

\* The event agent_finalized, then the journal and the record.  A manager that
\* was constructed in between, its record no older, may keep what it found.
Finalized(r) == [r EXCEPT !.agent = op.agent, !.saving = NoAgent, !.synced = op.sync,
                          !.deleted = ~op.keep /\ ~copies, !.status = "finalized"]
Finish ==
  /\ At("finalize", "finish")
  /\ run' = Finalized(run)
  /\ GoTo("complete")
  /\ UNCHANGED <<Files, alive, clean, Elsewhere>>
Complete ==
  /\ At("finalize", "complete")
  /\ journal' = [journal EXCEPT !.phase = "complete", !.agent = op.agent, !.synced = op.sync,
                                !.deleted = ~op.keep /\ ~copies]
  /\ Succeeds(run) \/ Succeeds(Finalized(run))
  /\ UNCHANGED <<files, copies, begun, dropped, Elsewhere>>

-----------------------------------------------------------------------------
(* Recovery, discard and background cleanup, step by step.                  *)

\* Mutant: a sync that is confirmed changes the record only.
RecoverJournalUnlessApplied ==
  /\ At("recover", "begin")
  /\ run.status = "sync_ambiguous" /\ run.agent # NoAgent
  /\ op' = [op EXCEPT !.pc = "answer", !.agent = run.agent]
  /\ IF op.applied THEN UNCHANGED <<journal, begun>>
     ELSE journal' = [journal EXCEPT !.phase = "sync_not_applied", !.synced = FALSE]
            /\ begun' = NoAgent
  /\ UNCHANGED <<run, files, copies, dropped, alive, clean, Elsewhere>>

\* _recover_finalization writes the journal before the record.
RecoverJournal ==
  /\ At("recover", "begin")
  /\ \/ /\ run.status = "sync_ambiguous" /\ run.agent # NoAgent
        /\ journal' = [journal EXCEPT !.phase = IF op.applied THEN "sync_complete" ELSE "sync_not_applied",
                                      !.agent = run.agent, !.synced = op.applied]
        /\ begun' = IF op.applied THEN begun ELSE NoAgent
        /\ op' = [op EXCEPT !.pc = "answer", !.agent = run.agent]
        /\ UNCHANGED <<run, alive>>
        /\ clean' = (clean /\ op.by = "manager")
     \/ /\ run.status # "sync_ambiguous" \/ run.agent = NoAgent
        /\ Fails(run) /\ UNCHANGED <<journal, begun>>
  /\ UNCHANGED <<files, copies, dropped, Elsewhere>>

RecoverSave ==
  /\ At("recover", "answer")
  /\ Fails(IF op.applied THEN [run EXCEPT !.synced = TRUE, !.status = "cleanup_failed"]
           ELSE [run EXCEPT !.agent = NoAgent, !.synced = FALSE, !.status = "completed"])
  /\ UNCHANGED <<Files, Elsewhere>>

\* _discard_run checks again, preserves the diffs and deletes the copies, unless
\* they are to be kept.  Either may fail.
DiscardDelete ==
  /\ At("discard", "begin")
  /\ \/ Droppable /\ GoTo("dropped") /\ UNCHANGED <<run, alive>>
        /\ clean' = (clean /\ op.by = "manager")
     \/ Fails(run)
  /\ copies' \in (IF Droppable THEN {copies, FALSE} ELSE {copies})
  /\ dropped' = (dropped \/ Droppable)
  /\ UNCHANGED <<journal, files, begun, Elsewhere>>

DiscardSave ==
  /\ At("discard", "dropped")
  /\ Succeeds([run EXCEPT !.status = "discarded", !.deleted = ~copies])
  /\ UNCHANGED <<Files, Elsewhere>>

\* _retry_finalized_cleanups: a finalized run whose copies are still there.
CleanupPending == run.status = "finalized" /\ run.agent # NoAgent /\ ~run.keep /\ ~run.deleted
RetryCleanup ==
  /\ up /\ ~Unnoticed /\ op.by # "manager" /\ op.pc # "reserved"
  /\ CleanupPending /\ ~Active
  /\ op' = Operation("cleanup", "manager", run.agent)
  /\ UNCHANGED <<run, Files, Processes, loader, spent>>
CleanupDelete ==
  /\ At("cleanup", "begin")
  /\ copies' \in {copies, FALSE}
  /\ GoTo("finish")
  /\ UNCHANGED <<run, journal, files, begun, dropped, alive, clean, Elsewhere>>
CleanupSave ==
  /\ At("cleanup", "finish")
  /\ \/ /\ CleanupPending
        /\ run' = [run EXCEPT !.deleted = ~copies]
        /\ journal' = [journal EXCEPT !.phase = "complete", !.agent = run.agent,
                                      !.synced = run.synced, !.deleted = ~copies]
     \/ (copies \/ ~CleanupPending) /\ UNCHANGED <<run, journal>>
  /\ op' = NoOp
  /\ UNCHANGED <<files, copies, begun, dropped, alive, clean, Elsewhere>>

-----------------------------------------------------------------------------
(* The worker's agents, deaths, crashes and new managers.                   *)

\* The batch of agents ends, by itself or because it was stopped.
BatchEnds ==
  /\ alive /\ run.task = "agents" /\ run.status \in {"running", "stopping"}
  /\ run' = [run EXCEPT !.status = "completed", !.worker = "idle", !.task = "none"]
  /\ clean' = (run.status = "running")
  /\ Overtakes
  /\ UNCHANGED <<op, Files, alive, Elsewhere>>

\* The worker process dies; the request it was given stays behind.
WorkerDies ==
  /\ alive /\ Spend("deaths", MaxDeaths)
  /\ alive' = FALSE
  /\ LET lost == op.by = "worker" /\ op.pc # "reserved"
     IN op' = (IF lost THEN NoOp ELSE op) /\ clean' = (clean /\ ~lost)
  /\ UNCHANGED <<run, Files, loader, up>>

\* Any read of the run by a manager notices that the worker is dead.
Notice ==
  /\ up /\ Unnoticed
  /\ run' = Noticed(run)
  /\ Overtakes
  /\ UNCHANGED <<op, Files, Processes, spent>>

\* The daemon dies, with the operation its manager was doing or queueing.
Crash ==
  /\ up /\ Spend("crashes", MaxCrashes)
  /\ up' = FALSE
  /\ op' = IF op.by = "manager" \/ op.pc = "reserved" THEN NoOp ELSE op
  /\ UNCHANGED <<run, Files, alive, clean, loader>>

\* A manager is constructed: by a daemon that starts again, ...
Restart ==
  /\ ~up /\ loader = NoLoader
  /\ loader' = [who |-> "daemon", found |-> Loaded, stale |-> FALSE]
  /\ UNCHANGED <<run, op, Files, alive, clean, up, spent>>

\* ... or by another process that shares the state directory.
PeerLoads ==
  /\ loader = NoLoader /\ Spend("peers", MaxPeers)
  /\ loader' = [who |-> "peer", found |-> Loaded, stale |-> FALSE]
  /\ UNCHANGED <<run, op, Files, alive, clean, up>>

\* It saves what it found, unless somebody saved something newer.
LoaderSaves ==
  /\ loader # NoLoader
  /\ run' = IF loader.stale THEN run ELSE loader.found
  /\ up' = (up \/ loader.who = "daemon")
  /\ loader' = NoLoader
  /\ UNCHANGED <<op, Files, alive, clean, spent>>

-----------------------------------------------------------------------------
Client ==
  /\ \/ \E a \in Agents, s \in Settings :
          AcceptHere(a, s) \/ AcceptByWorker(a, s) \/ AcceptRefused(a, s)
     \/ StopFirst
     \/ \E applied, verified \in BOOLEAN : Recover(applied, verified)
     \/ Discard
  /\ Overtakes

\* The steps of the process that finalizes, recovers, discards or cleans up.
Executor ==
  /\ \/ Begin \/ Preserve \/ JournalStart \/ Mark \/ Receipt \/ Preflight
     \/ SyncWrites \/ SyncEnds \/ SyncFails \/ AfterSync \/ Promote
     \/ CleanupStart \/ Delete \/ Finish \/ Complete
     \/ RecoverJournal \/ RecoverSave \/ DiscardDelete \/ DiscardSave
     \/ CleanupDelete \/ CleanupSave
  /\ Overtakes

Next ==
  \/ Client \/ Enqueue \/ Executor \/ RetryCleanup
  \/ BatchEnds \/ WorkerDies \/ Notice \/ Crash \/ Restart \/ PeerLoads \/ LoaderSaves

Spec == Init /\ [][Next]_vars

\* Running processes go on, the manager is polled, and the service manager
\* restarts the daemon.
Fairness == /\ WF_vars(Enqueue) /\ WF_vars(Executor) /\ WF_vars(Notice) /\ WF_vars(BatchEnds)
            /\ WF_vars(Restart) /\ WF_vars(LoaderSaves)

FairSpec == Spec /\ Fairness

-----------------------------------------------------------------------------
(* Properties.                                                              *)

\* A workspace that holds part of a result is never passed off as anything
\* else: the run says so until the client has answered.
PartIsNotHidden ==
  ~files.whole => \/ run.status \in {"finalizing", "interrupted", "sync_ambiguous"}
                    \/ begun = NoAgent

\* The rest of this section is what the properties rest on: what a process that
\* writes the record, the journal or the workspace finds there, and leaves behind.

\* Statuses of a run whose workspace may hold part of a result.
Unsettled == {"finalizing", "interrupted", "sync_ambiguous"}

\* Stages of an adoption: nothing is written down yet; the copy is under way; the
\* result is in the workspace.
Untouched == At("finalize", "journal") \/ (At("finalize", "preserve") /\ ~op.already)
Copying == op.task = "finalize" /\ op.pc \in {"receipt", "sync", "writing", "synced"}
Adopted == op.task = "finalize" /\ op.pc \in {"promote", "cleanup", "deleting", "finish", "complete"}

\* A manager under construction will save what it found.
Fresh == loader # NoLoader /\ ~loader.stale

\* Who does the operation, and what the record says of the worker.
OperationFits ==
  /\ op.by = "none" => op = NoOp
  /\ op.by # "none" => op.task \in {"finalize", "recover", "discard", "cleanup"} /\ op.pc # "idle"
  /\ op.pc = "reserved" => op.by = "worker"
  /\ op.by = "worker" /\ op.pc # "reserved" => alive
  /\ op.by = "worker" /\ alive => run.worker = "busy" /\ run.task = op.task
  /\ op.by = "manager" => ~(alive /\ run.worker = "busy")
  /\ op.task \in {"finalize", "recover"} => op.agent # NoAgent

\* A worker that is recorded as gone is gone.
WorkerFits(r) ==
  /\ r.worker \in {"stopped", "crashed"} \/ r.status = "interrupted" => ~alive
  /\ alive /\ r.task = "agents" => r.worker = "busy"

\* What a record says of a sync whose end is not known.
AmbiguityFits(r) ==
  r.status = "sync_ambiguous" =>
    /\ journal.phase # "none" /\ journal.agent = r.agent
    /\ journal.phase \in Synced => files = Result(r.agent)

\* A record that says finalized, and one that promises to finish without copying,
\* agree with the journal on the agent: a restart changes neither.
AdoptionFits(r) ==
  /\ r.status \in {"sync_ambiguous", "cleanup_failed", "finalized"} => r.agent # NoAgent
  /\ r.status \in {"cleanup_failed", "finalized"} =>
       journal.phase \in Synced /\ journal.agent = r.agent

\* What a manager found is not outdated by what happened since.
LoaderFits ==
  Fresh =>
    /\ WorkerFits(loader.found) /\ AmbiguityFits(loader.found) /\ AdoptionFits(loader.found)
    /\ alive => loader.found.worker = run.worker /\ loader.found.task = run.task
    /\ \/ loader.found.agent = run.agent
       \/ loader.found.agent = journal.agent /\ journal.phase \in {"sync_started"} \cup Synced
    /\ loader.found.status = "sync_ambiguous" =>
         run.status = "sync_ambiguous" \/ journal.phase \in {"sync_started"} \cup Synced
    /\ run.status = "sync_ambiguous" =>
         loader.found.status = "sync_ambiguous" \/ journal.phase \in Synced
    /\ run.status \in Unsettled => loader.found.status \in Unsettled \/ journal.phase \in Synced

\* The journal tells how far an adoption has come.
JournalFits ==
  /\ journal.phase # "none" => journal.agent # NoAgent
  /\ journal.phase = "sync_started" =>
       run.status = "sync_ambiguous" \/ ~alive \/ Copying \/ At("finalize", "mark")
  /\ op.task = "finalize" /\ op.pc \in {"reserved", "begin"} => journal.phase # "sync_started"
  /\ op.task = "discard" => journal.phase # "sync_started" \/ ~alive
  /\ Untouched => journal.phase \in {"none", "sync_not_applied"} /\ run.status # "sync_ambiguous"
  /\ At("finalize", "mark") =>
       /\ journal.agent = op.agent /\ run.agent \in {NoAgent, op.agent}
       /\ journal.phase = IF op.sync THEN "sync_started" ELSE "sync_complete"
  /\ Copying =>
       /\ op.sync /\ journal.phase = "sync_started" /\ journal.agent = op.agent
       /\ run.agent = op.agent /\ run.status \in Unsettled
  /\ Adopted \/ (At("finalize", "preserve") /\ op.already) =>
       journal.phase \in Synced /\ journal.agent = op.agent

\* Who is recorded as chosen: the record follows the journal, unless a worker died
\* between the two.
ChoiceFits ==
  /\ journal.phase \in Synced /\ run.agent # journal.agent =>
       At("finalize", "mark") \/ (run.agent = NoAgent /\ ~alive /\ op.task # "finalize")
  /\ Untouched => run.agent \in {NoAgent, op.agent}
  /\ op.by = "manager" /\ (At("finalize", "begin") \/ Untouched \/ At("finalize", "mark") \/ Copying) =>
       ~alive \/ (At("finalize", "begin") /\ journal.phase \in Synced)

\* The workspace holds what the journal and the operation say.
FilesFit ==
  /\ files.whole /\ files.of # NoAgent => begun = files.of
  /\ journal.phase \in {"none", "sync_not_applied"} => begun = NoAgent
  /\ journal.phase = "sync_started" /\ begun # NoAgent => journal.agent = begun /\ files.of = begun
  /\ journal.phase \in Synced /\ begun # NoAgent => journal.agent = begun /\ files = Result(begun)
  /\ op.task = "finalize" /\ op.pc \in {"mark", "receipt", "sync"} => begun = NoAgent
  /\ At("finalize", "writing") => begun = op.agent /\ files = Part(op.agent)
  /\ At("finalize", "synced") => begun = op.agent /\ files = Result(op.agent)
  /\ Untouched \/ Copying \/ At("finalize", "mark") => copies

\* While a copy may be there in part, the record tells of it.
DoubtFits ==
  begun # NoAgent /\ journal.phase = "sync_started" =>
    /\ run.status \in Unsettled /\ run.agent = begun
    /\ op = NoOp \/ op.task = "recover" \/ At("finalize", "writing") \/ At("finalize", "synced")

\* What the client saw is still so when its answer is recorded.
RecoveryFits ==
  op.task = "recover" =>
    /\ op.pc \in {"reserved", "begin"} => (op.applied <=> files = Result(journal.agent))
    /\ op.pc = "answer" =>
         /\ journal.agent = op.agent /\ run.agent = op.agent
         /\ journal.phase \in (IF op.applied THEN Synced ELSE {"sync_not_applied"})

\* What each process that writes the record, the journal or the workspace leaves
\* behind, wherever it dies: files that agree with each other as above.  It is the
\* inductive invariant.
FinalizationInv ==
  /\ TypeOK /\ OperationFits /\ LoaderFits
  /\ WorkerFits(run) /\ AmbiguityFits(run) /\ AdoptionFits(run)
  /\ JournalFits /\ ChoiceFits /\ FilesFit /\ DoubtFits /\ RecoveryFits

\* The processes that finalize, die, start again and reclassify the run are
\* together an adoption: no second copy before somebody said that the first was
\* not applied, no second winner, no write after the choice.
Chosen == IF journal.phase \in Synced THEN journal.agent ELSE NoAgent
Doubt == IF Chosen = NoAgent THEN begun ELSE NoAgent

A == INSTANCE Adoption WITH chosen <- Chosen, doubt <- Doubt
ImplementsAdoption == A!Spec

\* A manager that read the record before the finalization ended saved it after:
\* the record says finalizing, nobody finalizes, and nothing is left to be noticed.
Stranded ==
  /\ run.status = "finalizing" /\ op = NoOp /\ loader = NoLoader
  /\ up /\ ~Unnoticed
  /\ spent.crashes + spent.peers > 0

\* A finalization ends: it is finalized, or the client is told what to do, unless
\* a manager constructed meanwhile stranded it.
FinalizationSettles == run.status = "finalizing" ~> run.status # "finalizing" \/ Stranded

-----------------------------------------------------------------------------
(* What the repository says and the code does not do.                       *)

\* sync_ambiguous asks the client to inspect a workspace that a sync began to
\* write; a sync that was refused before asks for nothing.
AmbiguousMeansBegun == run.status = "sync_ambiguous" => begun = run.agent

\* A sync that may have written part of a result can be recovered.
InterruptedMeansUntouched == run.status = "interrupted" => files.whole

\* A run recorded as synchronised has the agent's result in the workspace.
SyncedIsSynced == run.status = "finalized" /\ run.synced => files = Result(run.agent)

\* A run that says that its result is being saved is being worked on.
SavingIsUnderWay ==
  up /\ ~Unnoticed /\ loader = NoLoader /\ run.status = "finalizing" => op # NoOp

\* A discarded run stays discarded.
DiscardIsFinal == [][run.status = "discarded" => run'.status = "discarded"]_vars
=============================================================================

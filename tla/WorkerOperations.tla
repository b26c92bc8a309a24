-------------------------- MODULE WorkerOperations --------------------------
(* The worker process of one run and the manager that gives it batches of      *)
(* agents, through files: the manager writes requests, opens a window for       *)
(* additions to the first batch, and sets signals; the worker answers with      *)
(* events.  Workers are numbered in the order of their start, 0 is nobody.      *)
EXTENDS Naturals, Sequences, FiniteSets, SequencesExt

CONSTANTS Agents,       \* agents the run may have
          Initial,      \* those of its first batch
          MaxWorkers,   \* processes at most
          Scenarios     \* how many calls, stops and incidents there may be, and
                        \* which agents run until they are stopped

ASSUME WorkerAssumption ==
    /\ IsFiniteSet(Agents) /\ Initial \subseteq Agents /\ Initial # {}
    /\ MaxWorkers \in Nat \ {0}
    /\ Scenarios \subseteq [calls : Nat, stops : Nat, incidents : Nat, endless : SUBSET Agents]

VARIABLES
    record,      \* ManagedRun in the manager's memory
    disk,        \* the same in runs.json
    tail,        \* events that disk has not taken in
    seen,        \* how many of them record has
    requests,    \* workers/requests
    window,      \* candidates.json
    stop, kills, shutdown,  \* files of the control directory
    checkpoint,  \* the worker's status file
    workers,     \* the processes
    process,     \* the one the manager has started itself, 0 when it has none
    call,        \* the operation the manager is in
    waiting,     \* stop_run awaits the end
    lastId,      \* newest operation id
    left,        \* what is left of the scenario
    executed,    \* history: the requests that were begun
    dropped,     \* history: agents whose request was thrown away or never written
    slips        \* history: where a state was written over by an older one

files   == <<requests, window, stop, kills, shutdown, checkpoint>>
history == <<executed, dropped, slips>>
vars    == <<record, disk, tail, seen, files, workers, process, call, waiting, lastId, left, history>>

Workers      == 1..MaxWorkers
ActiveStatus == {"preparing", "running", "stopping"}
Pending      == {"queued", "running", "stopping"}
Terminal     == {"success", "failed"}

Idle    == [pc |-> "none"]
Asleep  == [pc |-> "none", id |-> 0, op |-> "", ok |-> FALSE, tasks |-> [a \in Agents |-> "none"]]
Slip(what, here) == slips' = IF here THEN slips \cup {what} ELSE slips
Spend(what) == left[what] > 0 /\ left' = [left EXCEPT ![what] = @ - 1]

-----------------------------------------------------------------------------
(* The record                                                                  *)

NoOperation(rec) == [rec EXCEPT !.op = "", !.id = 0]

Seal(agents) == [a \in Agents |-> IF agents[a] \in {"none"} \cup Terminal
                                  THEN agents[a] ELSE "failed"]

Apply(rec, e) ==
    CASE e.kind = "worker_started" ->
           [rec EXCEPT !.pid = e.pid, !.state = IF rec.op = "" THEN "idle" ELSE "busy",
                       !.status = IF @ = "preparing" THEN "running" ELSE @]
      [] e.kind = "operation_started" ->
           [rec EXCEPT !.pid = e.pid, !.state = "busy", !.op = e.op, !.id = e.id]
      [] e.kind = "prepared" -> [rec EXCEPT !.status = "running"]
      [] e.kind = "agent" ->
           IF rec.agents[e.agent] \in Terminal /\ e.status \notin Terminal THEN rec
           ELSE [rec EXCEPT !.agents[e.agent] = e.status]
      [] e.kind = "ended" ->
           [rec EXCEPT !.status = IF e.cancelled THEN "cancelled" ELSE "completed",
                       !.agents = Seal(@)]
      [] e.kind = "failed" -> [rec EXCEPT !.status = "failed"]
      [] e.kind = "operation_finished" -> [NoOperation(rec) EXCEPT !.state = "idle"]
      [] e.kind = "worker_stopped" -> [NoOperation(rec) EXCEPT !.state = "stopped", !.pid = 0]

Unread       == SubSeq(tail, seen + 1, Len(tail))

Applied(rec, events) ==
    LET after[n \in 0..Len(events)] == IF n = 0 THEN rec ELSE Apply(after[n - 1], events[n])
    IN  after[Len(events)]
Refresh(rec) == Applied(rec, Unread)

Alive(w)       == w # 0 /\ workers[w].pc \notin {"none", "dead"}
Owned(rec)     == Alive(process) \/ Alive(rec.pid)
Active(rec)    == Owned(rec) /\ (rec.op # "" \/ rec.state = "busy")
Available(rec) == Owned(rec) /\ rec.state \notin {"crashed", "stopped"}

(* Whether the results of a run whose worker has gone may be adopted.          *)
ResultsKept(rec) ==
    /\ rec.status = "completed" /\ rec.op = ""
    /\ \A a \in Agents : rec.agents[a] \in {"none"} \cup Terminal
    /\ \E a \in Agents : rec.agents[a] = "success"
    /\ ~checkpoint.active /\ checkpoint.id = 0 /\ checkpoint.ok
    /\ requests = {} /\ window.pending = {}

\* Mutant: only the run is marked, its agents stay as they were.
DetectRunOnly(rec) ==
  IF Owned(rec) \/ rec.state \in {"crashed", "stopped"} THEN rec
  ELSE [NoOperation(rec) EXCEPT !.pid = 0, !.state = "crashed",
                                !.status = IF @ \in ActiveStatus THEN "interrupted" ELSE @]

Detect(rec) ==
    CASE Owned(rec) -> rec
      [] ~Owned(rec) /\ ResultsKept(rec) ->
           [NoOperation(rec) EXCEPT !.pid = 0, !.state = "stopped"]
      [] ~Owned(rec) /\ ~ResultsKept(rec) /\ rec.state \in {"crashed", "stopped"} -> rec
      [] OTHER ->
           [NoOperation(rec) EXCEPT
              !.pid = 0, !.state = "crashed",
              !.status = IF @ \in ActiveStatus THEN "interrupted" ELSE @,
              !.agents = IF rec.status \in ActiveStatus
                         THEN [a \in Agents |-> IF @[a] \in Pending THEN "interrupted" ELSE @[a]]
                         ELSE @]

Required == Detect(Refresh(record))

(* What is active without a worker is interrupted.                             *)
Maintained(rec) == IF rec.status \in ActiveStatus /\ ~Active(rec)
                   THEN [rec EXCEPT !.status = "interrupted", !.pid = 0] ELSE rec

(* Every event is read and saved; the memory may go on from there.             *)
SaveAnd(saved, kept) == disk' = saved /\ record' = kept /\ tail' = <<>> /\ seen' = 0
SaveAll(rec) == SaveAnd(rec, rec)

Emit(events) == tail' = tail \o events /\ UNCHANGED <<record, disk, seen>>

Agent(a, status) == [kind |-> "agent", agent |-> a, status |-> status]

-----------------------------------------------------------------------------
Init ==
    \* start_run has saved the run, opened the window and started the worker.
    /\ record = [status |-> "preparing", state |-> "busy", op |-> "initial", id |-> 1, pid |-> 1,
                 agents |-> [a \in Agents |-> IF a \in Initial THEN "queued" ELSE "none"]]
    /\ disk = record /\ tail = <<>> /\ seen = 0
    /\ requests = {[id |-> 1, batch |-> 1, op |-> "initial", agents |-> Initial]}
    /\ window = [open |-> TRUE, pending |-> {}]
    /\ stop = FALSE /\ kills = {} /\ shutdown = FALSE
    /\ checkpoint = [pid |-> 0, alive |-> FALSE, active |-> FALSE, id |-> 0, ok |-> FALSE]
    /\ workers = [w \in Workers |-> IF w = 1 THEN [Asleep EXCEPT !.pc = "booting"] ELSE Asleep]
    /\ process = 1 /\ call = Idle /\ waiting = FALSE /\ lastId = 1
    /\ left \in Scenarios
    /\ executed = <<>> /\ dropped = {} /\ slips = {}

-----------------------------------------------------------------------------
(* The worker                                                                  *)

(* A request is a file that is named for its operation.                        *)
Others(id)  == {r \in requests : r.id # id}
At(w, pc)   == workers[w].pc = pc
Go(w, pc)   == workers' = [workers EXCEPT ![w].pc = pc]
ByWorker    == UNCHANGED <<process, call, waiting, lastId, left>>
Published(w) == disk.pid = w /\ disk.id = workers[w].id /\ disk.state = "busy" /\ disk.status = "running"

(* A replacement waits until the record names it, and gives up when the run     *)
(* is stopped or its manager is gone.                                          *)
AwaitPublication(w) ==
    /\ workers[w].pc \in {"awaiting", "orphaned"}
    /\ \/ ~stop /\ Published(w) /\ Go(w, "booting")
       \/ stop /\ Go(w, "dead")
       \/ ~stop /\ ~Published(w) /\ At(w, "orphaned") /\ Go(w, "dead")
    /\ UNCHANGED <<record, disk, tail, seen, files, history>> /\ ByWorker

Boot(w) ==
    /\ At(w, "booting") /\ Go(w, "idle")
    /\ shutdown' = FALSE
    /\ checkpoint' = [checkpoint EXCEPT !.pid = w, !.alive = TRUE, !.active = FALSE]
    /\ Emit(<<[kind |-> "worker_started", pid |-> w]>>)
    /\ UNCHANGED <<requests, window, stop, kills, history>> /\ ByWorker

Take(w) ==
    /\ At(w, "idle") /\ ~shutdown
    /\ \E r \in requests :
         /\ \A s \in requests : r.id <= s.id
         /\ workers' = [workers EXCEPT ![w] =
                [pc |-> "preparing", id |-> r.id, op |-> r.op, ok |-> FALSE,
                 tasks |-> [a \in Agents |-> IF a \in r.agents THEN "queued" ELSE "none"]]]
         /\ checkpoint' = [checkpoint EXCEPT !.pid = w, !.alive = TRUE, !.active = TRUE, !.id = r.id]
         /\ Emit(<<[kind |-> "operation_started", pid |-> w, op |-> r.op, id |-> r.id]>>)
         /\ executed' = Append(executed, r)
    /\ UNCHANGED <<requests, window, stop, kills, shutdown, dropped, slips>> /\ ByWorker

(* A run that is stopped this early ends without its stage: a window that is    *)
(* open stays open until the end of the operation.                             *)
Prepare(w) ==
    /\ At(w, "preparing")
    /\ workers' = [workers EXCEPT ![w].pc = IF stop THEN "ending" ELSE "stage",
                                  ![w].tasks = IF stop THEN Asleep.tasks ELSE @]
    /\ Emit(IF workers[w].op = "initial" THEN <<[kind |-> "prepared"]>> ELSE <<>>)
    /\ UNCHANGED <<files, history>> /\ ByWorker

(* A stop request for an agent is cleared when the agent starts: it belonged    *)
(* to an earlier attempt.                                                      *)
StartAgent(w, a) ==
    /\ At(w, "stage") /\ workers[w].tasks[a] = "queued" /\ ~stop
    /\ kills' = kills \ {a}
    /\ workers' = [workers EXCEPT ![w].tasks[a] = "running"]
    /\ Emit(<<Agent(a, "running")>>)
    /\ UNCHANGED <<requests, window, stop, shutdown, checkpoint, history>> /\ ByWorker

AgentEnds(w, a, status) ==
    /\ workers' = [workers EXCEPT ![w].tasks[a] = status]
    /\ Emit(<<Agent(a, status)>>)
    /\ UNCHANGED <<files, history>> /\ ByWorker

FinishAgent(w, a) ==
    /\ At(w, "stage") /\ workers[w].tasks[a] = "running" /\ a \notin left.endless
    /\ \E status \in Terminal : AgentEnds(w, a, status)

\* Mutant: an agent that waits for its turn does not look at the stop request.
HaltStarted(w, a) ==
    /\ At(w, "stage") /\ workers[w].tasks[a] = "running" /\ (stop \/ a \in kills)
    /\ AgentEnds(w, a, "failed")

HaltAgent(w, a) ==
    /\ At(w, "stage")
    /\ \/ workers[w].tasks[a] \in {"queued", "running"} /\ stop
       \/ workers[w].tasks[a] = "running" /\ a \in kills
    /\ AgentEnds(w, a, "failed")

(* drain, and close_if_idle when something came in                             *)
Drain(w) ==
    /\ At(w, "stage") /\ workers[w].op = "initial" /\ window.pending # {}
    /\ workers' = [workers EXCEPT ![w].tasks =
           [a \in Agents |-> IF a \in window.pending THEN "queued" ELSE @[a]]]
    /\ window' = [window EXCEPT !.pending = {}]
    /\ UNCHANGED <<record, disk, tail, seen, requests, stop, kills, shutdown, checkpoint, history>>
    /\ ByWorker

\* Mutant: the window is closed without another look at what is in it.
CloseUnchecked(w) ==
    /\ At(w, "stage") /\ \A a \in Agents : workers[w].tasks[a] \in {"none"} \cup Terminal
    /\ window' = IF workers[w].op = "initial" THEN [open |-> FALSE, pending |-> {}] ELSE window
    /\ Go(w, "ending")
    /\ UNCHANGED <<record, disk, tail, seen, requests, stop, kills, shutdown, checkpoint, history>>
    /\ ByWorker

(* The stage ends: the first one by close_if_idle, which closes the window.    *)
CloseStage(w) ==
    /\ At(w, "stage") /\ \A a \in Agents : workers[w].tasks[a] \in {"none"} \cup Terminal
    /\ IF workers[w].op = "initial"
       THEN window.pending = {} /\ window' = [window EXCEPT !.open = FALSE]
       ELSE UNCHANGED window
    /\ Go(w, "ending")
    /\ UNCHANGED <<record, disk, tail, seen, requests, stop, kills, shutdown, checkpoint, history>>
    /\ ByWorker

Deactivated(w) == IF workers[w].op = "initial" THEN [open |-> FALSE, pending |-> {}] ELSE window
Thrown(w)      == IF workers[w].op = "initial" THEN window.pending ELSE {}

(* The supervision of an agent fails: the window is closed whatever is in it,   *)
(* the other agents are stopped.                                               *)
StageFails(w, a) ==
    /\ At(w, "stage") /\ workers[w].tasks[a] \in {"queued", "running"}
    /\ Spend("incidents")
    /\ LET halted == {b \in Agents \ {a} : workers[w].tasks[b] = "running"}
           lost   == {b \in Agents \ halted : workers[w].tasks[b] \in {"queued", "running"}}
       IN /\ \E order \in SetToSeqs(halted) :
                Emit([n \in DOMAIN order |-> Agent(order[n], "failed")])
          /\ dropped' = dropped \cup lost \cup Thrown(w)
    /\ window' = Deactivated(w)
    /\ Go(w, "failing")
    /\ UNCHANGED <<requests, stop, kills, shutdown, checkpoint, executed, slips, process, call, waiting, lastId>>

ReportFailure(w) ==
    /\ At(w, "failing") /\ Go(w, "deactivating")
    /\ Emit(<<[kind |-> "failed"]>>)
    /\ UNCHANGED <<files, history>> /\ ByWorker

ReportEnd(w) ==
    /\ At(w, "ending")
    /\ workers' = [workers EXCEPT ![w].pc = "deactivating",
           ![w].ok = ~stop /\ \/ workers[w].op = "batch"
                                  \/ \E a \in Agents : workers[w].tasks[a] = "success"]
    /\ Emit(<<[kind |-> "ended", cancelled |-> stop]>>)
    /\ UNCHANGED <<files, history>> /\ ByWorker

Deactivate(w) ==
    /\ At(w, "deactivating") /\ Go(w, "finishing")
    /\ window' = Deactivated(w)
    /\ dropped' = dropped \cup Thrown(w)
    /\ UNCHANGED <<record, disk, tail, seen, requests, stop, kills, shutdown, checkpoint,
                   executed, slips>>
    /\ ByWorker

Finish(w) ==
    /\ At(w, "finishing") /\ Go(w, "closing")
    /\ Emit(<<[kind |-> "operation_finished"]>>)
    /\ UNCHANGED <<files, history>> /\ ByWorker

WriteCheckpoint(w) ==
    /\ At(w, "closing") /\ Go(w, "unlinking")
    /\ checkpoint' = [checkpoint EXCEPT !.active = FALSE, !.id = 0, !.ok = workers[w].ok]
    /\ UNCHANGED <<record, disk, tail, seen, requests, window, stop, kills, shutdown, history>>
    /\ ByWorker

(* What is in the file of the operation goes, be it another request by now.      *)
Unlink(w) ==
    /\ At(w, "unlinking")
    /\ workers' = [workers EXCEPT ![w] = [Asleep EXCEPT !.pc = "idle"]]
    /\ requests' = Others(workers[w].id)
    /\ dropped' = dropped \cup
                    UNION {r.agents : r \in (requests \ Others(workers[w].id)) \ ToSet(executed)}
    /\ UNCHANGED <<record, disk, tail, seen, window, stop, kills, shutdown, checkpoint,
                   executed, slips>>
    /\ ByWorker

(* The terminal event is durable before the checkpoint says so: a replacement   *)
(* may have made the checkpoint its own in the meantime.                       *)
Leave(w) ==
    /\ At(w, "idle") /\ shutdown /\ Go(w, "leaving")
    /\ Emit(<<[kind |-> "worker_stopped"]>>)
    /\ UNCHANGED <<files, history>> /\ ByWorker

Left(w) ==
    /\ At(w, "leaving") /\ Go(w, "dead")
    /\ checkpoint' = [checkpoint EXCEPT !.alive = FALSE, !.active = FALSE, !.id = 0]
    /\ Slip("checkpoint", checkpoint.pid # w)
    /\ UNCHANGED <<record, disk, tail, seen, requests, window, stop, kills, shutdown, executed, dropped>>
    /\ ByWorker

(* SIGTERM, at the end of the session: within an operation it is a stop too.   *)
Terminate(w) ==
    /\ workers[w].pc \in {"idle", "stage"} /\ Spend("incidents")
    /\ shutdown' = TRUE /\ stop' = (stop \/ At(w, "stage"))
    /\ UNCHANGED <<record, disk, tail, seen, requests, window, kills, checkpoint, workers, process,
                   call, waiting, lastId, history>>

Die(w) ==
    /\ Alive(w) /\ Spend("incidents") /\ Go(w, "dead")
    /\ UNCHANGED <<record, disk, tail, seen, files, process, call, waiting, lastId, history>>

-----------------------------------------------------------------------------
(* The manager.  It holds its lock from the first step of an operation to the   *)
(* last, but not against the worker.                                           *)

ByManager == UNCHANGED <<workers, checkpoint, executed, process>>
Parted    == process' = 0 /\ UNCHANGED <<workers, checkpoint, executed>>
OnlyFiles == UNCHANGED <<requests, window, stop, kills, shutdown>>

(* Listing runs                                                                *)
Look ==
    /\ call = Idle /\ (record.status \in ActiveStatus \/ record.pid # 0 \/ ~Owned(record))
    /\ \E read \in {Refresh(record)} : \E rec \in {Detect(read)} : SaveAll(Maintained(rec))
    /\ UNCHANGED <<workers, process, call, waiting, lastId, left, files, history>>

(* stop_run and kill_agent set the signal, and what events say in the meantime  *)
(* prevails over what they note.                                               *)
Stop ==
    /\ call = Idle /\ Spend("stops") /\ Active(Required)
    /\ stop' = TRUE
    /\ SaveAnd(Required, [Required EXCEPT !.status = "stopping"])
    /\ call' = [pc |-> "noting"] /\ waiting' = TRUE
    /\ Slip("status", Required.status \notin ActiveStatus)
    /\ UNCHANGED <<requests, window, kills, shutdown, lastId, dropped>> /\ ByManager

Kill(a) ==
    /\ call = Idle /\ Spend("stops")
    /\ Active(Required) /\ Required.agents[a] = "running"
    /\ kills' = kills \cup {a}
    /\ SaveAnd(Required, [Required EXCEPT !.agents[a] = "stopping"])
    /\ call' = [pc |-> "noting"]
    /\ UNCHANGED <<requests, window, stop, shutdown, waiting, lastId, dropped, slips>>
    /\ ByManager

Note ==
    /\ call.pc = "noting" /\ call' = Idle
    /\ SaveAll(Refresh(record))
    /\ UNCHANGED <<waiting, lastId, left, dropped, slips>> /\ OnlyFiles /\ ByManager

(* stop_run has waited long enough.                                            *)
Waited ==
    /\ call = Idle /\ waiting /\ waiting' = FALSE
    /\ SaveAnd(Required, IF Active(Required) THEN [Required EXCEPT !.status = "stopping"] ELSE Required)
    /\ Slip("status", Active(Required) /\ (~stop \/ Required.status \notin ActiveStatus))
    /\ UNCHANGED <<call, lastId, left, dropped>> /\ OnlyFiles /\ ByManager

-----------------------------------------------------------------------------
(* More agents, another attempt of some, or a replacement for their worker     *)

Unfinished(rec) == {a \in Agents : rec.agents[a] \notin {"none", "success"}}

Admits(kind, as, rec) ==
    CASE kind = "add" -> Cardinality(as) = 1 /\ \A a \in as : rec.agents[a] = "none"
      [] kind \in {"retry", "retained"} ->
           Cardinality(as) = 1 /\ \A a \in as : rec.agents[a] \in {"failed", "interrupted"}
      [] kind = "resume" ->
           /\ rec.status = "completed" /\ ~Active(rec) /\ Available(rec) /\ ~stop
           /\ as # {} /\ \A a \in as : rec.agents[a] \in {"failed", "interrupted"}
           /\ as \cap kills = {}
           /\ checkpoint.pid = rec.pid /\ checkpoint.alive /\ ~checkpoint.active /\ checkpoint.id = 0
           /\ requests = {} /\ window.pending = {}
      [] kind = "rescue" ->
           /\ rec.status = "interrupted" /\ rec.state = "crashed" /\ rec.pid = 0 /\ ~stop
           /\ checkpoint.active /\ ~Alive(checkpoint.pid)
           /\ as = Unfinished(rec) /\ as # {} /\ as \cap kills = {}
           /\ window.pending = {}
           /\ {r.id : r \in requests} = {checkpoint.id}

Begin ==
    /\ call = Idle /\ Spend("calls")
    /\ \E as \in SUBSET Agents, kind \in {"add", "retry", "retained", "resume", "rescue"} :
         /\ Admits(kind, as, Required)
         /\ call' = [pc |-> "begun", kind |-> kind, agents |-> as, prev |-> Required, heard |-> FALSE]
    /\ SaveAll(Required)
    /\ UNCHANGED <<waiting, lastId, dropped, slips>> /\ OnlyFiles /\ ByManager

(* The idle worker is asked to leave, and its checkpoint awaited.              *)
Retire ==
    /\ call.pc = "begun" /\ call.kind = "resume"
    /\ shutdown' = TRUE /\ call' = [call EXCEPT !.pc = "retiring"]
    /\ UNCHANGED <<record, disk, tail, seen, requests, window, stop, kills, waiting, lastId, left,
                    dropped, slips>>
    /\ ByManager

\* Mutant: the worker is taken to leave because it was asked to.
RetiredAtOnce ==
    /\ call.pc = "retiring"
    /\ SaveAll([Refresh(record) EXCEPT !.pid = 0, !.state = "stopped"])
    /\ call' = [call EXCEPT !.pc = "begun", !.kind = "retained"]
    /\ UNCHANGED <<waiting, lastId, left, dropped, slips>> /\ OnlyFiles /\ Parted

Retired ==
    /\ call.pc = "retiring" /\ checkpoint.pid = record.pid /\ ~checkpoint.alive
    /\ SaveAll([Refresh(record) EXCEPT !.pid = 0, !.state = "stopped"])
    /\ call' = [call EXCEPT !.pc = "begun", !.kind = "retained"]
    /\ UNCHANGED <<waiting, lastId, left, dropped, slips>> /\ OnlyFiles /\ Parted

NotRetired ==
    /\ call.pc = "retiring" /\ checkpoint.alive
    /\ shutdown' = FALSE /\ call' = Idle
    /\ UNCHANGED <<record, disk, tail, seen, requests, window, stop, kills, waiting, lastId, left,
                    dropped, slips>>
    /\ ByManager

\* Mutant: the request of the dead worker is left where it is.
ArchiveNothing ==
    /\ call.pc = "begun" /\ call.kind = "rescue"
    /\ record' = [Refresh(record) EXCEPT !.state = "stopped"] /\ seen' = Len(tail)
    /\ call' = [call EXCEPT !.kind = "retained"]
    /\ UNCHANGED <<disk, tail, requests, window, stop, kills, shutdown, waiting, lastId, left,
                   dropped, slips>>
    /\ Parted

(* The request of the dead worker is moved away, so that it is not taken again.*)
Archive ==
    /\ call.pc = "begun" /\ call.kind = "rescue"
    /\ requests' = {}
    /\ record' = [Refresh(record) EXCEPT !.state = "stopped"] /\ seen' = Len(tail)
    /\ call' = [call EXCEPT !.kind = "retained"]
    /\ UNCHANGED <<disk, tail, window, stop, kills, shutdown, waiting, lastId, left,
                    dropped, slips>>
    /\ Parted

Live  == Active(record) /\ record.op = "initial" /\ window.open
Fresh == call.kind = "retained"

(* Which of the three ways a batch goes is decided once.                       *)
Mode == CASE Live /\ ~Fresh -> "live"
          [] ~Active(record) /\ Available(record) /\ ~Fresh -> "queued"
          [] /\ Fresh /\ ~Active(record) /\ record.pid = 0 /\ record.state = "stopped"
             /\ ~stop /\ call.agents \cap kills = {} -> "fresh"
          [] OTHER -> "refused"

Marked(rec) ==
    [rec EXCEPT !.status = "running",
                !.agents = [a \in Agents |-> IF a \in call.agents THEN "queued" ELSE @[a]]]

Mark ==
    /\ call.pc = "begun" /\ call.kind \in {"add", "retry", "retained"}
    /\ CASE Mode = "refused" ->
              /\ call' = Idle
              /\ UNCHANGED <<record, kills, stop, lastId>>
         [] Mode = "live" ->
              /\ record' = Marked(record) /\ kills' = kills \ call.agents
              /\ UNCHANGED <<stop, lastId>>
         [] Mode \in {"queued", "fresh"} ->
              /\ record' = [Marked(record) EXCEPT !.state = "busy", !.op = "batch", !.id = lastId + 1]
              /\ lastId' = lastId + 1
              /\ IF Mode = "fresh" THEN UNCHANGED <<kills, stop>>
                 ELSE kills' = kills \ call.agents /\ stop' = FALSE
    /\ Mode # "refused" =>
         call' = [pc |-> "marked", mode |-> Mode, agents |-> call.agents, prev |-> record, heard |-> FALSE]
    /\ UNCHANGED <<disk, tail, seen, requests, window, shutdown, waiting, left, dropped, slips>>
    /\ ByManager

(* The batch is announced as an event; what was unread is read with it.        *)
Announce ==
    /\ call.pc = "marked"
    /\ call' = [call EXCEPT !.pc = "announced", !.heard = Unread # <<>>]
    /\ IF call.mode = "fresh"
       THEN record' = Refresh(record) /\ seen' = Len(tail) /\ UNCHANGED <<disk, tail>>
       ELSE SaveAll(Refresh(record))
    /\ UNCHANGED <<waiting, lastId, left, dropped, slips>> /\ OnlyFiles /\ ByManager

Accepted == /\ dropped' = dropped \ call.agents /\ UNCHANGED <<slips, executed>>

SubmitLive ==
    /\ call.pc = "announced" /\ call.mode = "live"
    /\ window.open /\ window.pending \cap call.agents = {}
    /\ window' = [window EXCEPT !.pending = @ \cup call.agents]
    /\ call' = Idle /\ Accepted
    /\ UNCHANGED <<record, disk, tail, seen, requests, stop, kills, shutdown, checkpoint, workers,
                   process, waiting, lastId, left>>

(* The request goes by the operation that the record has by now, which an event  *)
(* may have put there or taken away since the batch was marked.                *)
NewestId  == IF record.id # 0 THEN lastId ELSE lastId + 1
RequestId == IF record.id # 0 THEN record.id ELSE NewestId
Request   == [id |-> RequestId, batch |-> NewestId, op |-> "batch", agents |-> call.agents]

(* A file of that name is written over.                                        *)
Written == Others(RequestId) \cup {Request}

SubmitRequest ==
    /\ call.pc = "announced" /\ call.mode = "queued"
    /\ requests' = Written
    /\ lastId' = NewestId
    /\ call' = Idle /\ Accepted
    /\ UNCHANGED <<record, disk, tail, seen, window, stop, kills, shutdown, checkpoint, workers,
                   process, waiting, left>>

\* Mutant: the agents are put back, the operation stays open.
RollBackAgents ==
    /\ call.pc = "announced"
    /\ \/ call.mode = "live" /\ ~(window.open /\ window.pending \cap call.agents = {}) /\ UNCHANGED left
       \/ call.mode # "live" /\ Spend("incidents")
    /\ SaveAll(Refresh([record EXCEPT !.status = call.prev.status,
           !.agents = [a \in Agents |-> IF a \in call.agents THEN call.prev.agents[a] ELSE @[a]]]))
    /\ Slip("record", call.heard)
    /\ call' = Idle
    /\ UNCHANGED <<waiting, lastId, dropped>> /\ OnlyFiles /\ ByManager

(* The record is put back to what it was when the batch was marked.            *)
RollBack ==
    /\ call.pc = "announced"
    /\ \/ /\ call.mode = "live" /\ ~(window.open /\ window.pending \cap call.agents = {})
          /\ UNCHANGED left
       \/ call.mode # "live" /\ Spend("incidents")
    /\ SaveAll(Refresh([record EXCEPT
           !.status = call.prev.status, !.state = call.prev.state, !.op = call.prev.op,
           !.id = call.prev.id,
           !.agents = [a \in Agents |-> IF a \in call.agents THEN call.prev.agents[a] ELSE @[a]]]))
    /\ Slip("record", call.heard)
    /\ call' = Idle
    /\ UNCHANGED <<waiting, lastId, dropped>> /\ OnlyFiles /\ ByManager

Spawn ==
    /\ call.pc = "announced" /\ call.mode = "fresh"
    /\ requests' = Written
    /\ lastId' = NewestId
    /\ \E w \in Workers :
         /\ At(w, "none") /\ \A v \in 1..(w - 1) : ~At(v, "none")
         /\ workers' = [workers EXCEPT ![w] = [Asleep EXCEPT !.pc = "awaiting", !.id = RequestId]]
         /\ record' = [record EXCEPT !.pid = w] /\ process' = w
    /\ call' = [call EXCEPT !.pc = "spawned"]
    /\ UNCHANGED <<disk, tail, seen, window, stop, kills, shutdown, checkpoint, waiting, left, history>>

Publish ==
    /\ call.pc = "spawned" /\ call' = Idle
    /\ disk' = record /\ seen' = 0 /\ tail' = Unread /\ UNCHANGED record
    /\ dropped' = dropped \ call.agents
    /\ UNCHANGED <<waiting, lastId, left, slips>> /\ OnlyFiles /\ ByManager

(* The manager dies and is started again: only runs.json and the events are     *)
(* left of its record.                                                         *)
Restart ==
    /\ Spend("incidents")
    /\ call' = [pc |-> "loading"] /\ waiting' = FALSE /\ process' = 0
    /\ record' = disk /\ seen' = 0
    /\ workers' = [w \in Workers |-> IF At(w, "awaiting") THEN [workers[w] EXCEPT !.pc = "orphaned"]
                                     ELSE workers[w]]
    /\ LET cut == call.pc = "announced" /\ call.mode # "fresh" IN
         /\ dropped' = IF cut THEN dropped \cup call.agents ELSE dropped
         /\ Slip("cut", cut /\ call.mode = "queued")
    /\ UNCHANGED <<disk, tail, lastId, files, executed>>

Load ==
    /\ call.pc = "loading" /\ call' = Idle
    /\ \E read \in {Refresh(record)} : \E rec \in {Detect(read)} : SaveAll(Maintained(rec))
    /\ UNCHANGED <<waiting, lastId, left, dropped, slips>> /\ OnlyFiles /\ ByManager

-----------------------------------------------------------------------------
Worker(w) == \/ AwaitPublication(w) \/ Boot(w) \/ Take(w) \/ Prepare(w) \/ Drain(w) \/ CloseStage(w)
             \/ ReportFailure(w) \/ ReportEnd(w) \/ Deactivate(w) \/ Finish(w)
             \/ WriteCheckpoint(w) \/ Unlink(w) \/ Leave(w) \/ Left(w)
             \/ \E a \in Agents : StartAgent(w, a) \/ FinishAgent(w, a) \/ HaltAgent(w, a)

Operation == \/ Load \/ Note \/ Retire \/ Retired \/ NotRetired \/ Archive \/ Mark \/ Announce
             \/ SubmitLive \/ SubmitRequest \/ RollBack \/ Spawn \/ Publish

Incident == \/ Restart
            \/ \E w \in Workers : Terminate(w) \/ Die(w) \/ \E a \in Agents : StageFails(w, a)

Next == \/ Look \/ Stop \/ Waited \/ Begin \/ Operation \/ Incident
        \/ \E a \in Agents : Kill(a)
        \/ \E w \in Workers : Worker(w)

Spec == Init /\ [][Next]_vars


(* The worker goes on by itself and agents end, except the endless ones; an     *)
(* operation of the manager comes to its end, and runs are looked at again and   *)
(* again.  Nobody has to stop anything, begin anything or fail.                 *)
Progress == Look \/ Operation \/ \E w \in Workers : Worker(w)

FairSpec == Spec /\ WF_vars(Progress)

-----------------------------------------------------------------------------
Kept       == slips \cap {"record", "checkpoint"} = {}
Serving(w) == workers[w].pc \notin {"none", "awaiting", "orphaned", "leaving", "dead"}

(* Two workers never serve the run at the same time: a replacement, which clears *)
(* the request to leave that the one before was given, starts only when that one *)
(* takes no further request.  Excepted is what follows when a refused batch has  *)
(* undone what the record said of a worker, or when a worker that leaves has     *)
(* written its end into the checkpoint of the next one.                        *)
OneOwner == Kept => \A v, w \in Workers : Serving(v) /\ Serving(w) => v = w

(* No batch is executed a second time, not after a crash and a rescue by a new   *)
(* worker either: the request of a dead worker is out of the way by then.  The  *)
(* exceptions are those of OneOwner.                                           *)
ExecutedOnce == Kept => IsInjective(executed)

(* An agent that was added while the first batch ran is taken over by the worker *)
(* (the worker may be about to find that there is nothing left to do), unless    *)
(* the run is told to stop or its supervision fails.                            *)
NothingThrownAway ==
    [][\A a \in window.pending \ window'.pending :
          \/ \E w \in Workers : workers'[w].tasks[a] = "queued" \/ workers'[w].pc = "failing"
          \/ stop]_vars

Quiet == /\ call = Idle /\ requests = {} /\ Unread = <<>>
         /\ \E w \in Workers : At(w, "idle") /\ record.pid = w /\ ~shutdown

(* A worker with nothing to do is recorded so: when all its events are read, no  *)
(* operation is open and no run or agent is shown as going on.  Excepted are    *)
(* records that a refused or interrupted batch has put out of step, and agents  *)
(* whose request was thrown away.                                              *)
EndedWhenQuiet ==
    Quiet /\ slips = {} =>
        /\ record.op = "" /\ record.state = "idle"
        /\ dropped = {} => record.status \notin ActiveStatus
        /\ \A a \in Agents \ dropped : record.agents[a] \notin Pending

(* A run that is told to stop ends, although its agents would run for ever.     *)
StopEnds == (stop /\ Active(record)) ~> (~Active(record) \/ slips # {})

(* Whatever a client sees as queued or running becomes something else in the     *)
(* end, unless its request was thrown away or the worker has left in peace.     *)
PendingSettles ==
    \A a \in Agents :
        (a \notin left.endless /\ disk.agents[a] \in Pending) ~>
            \/ disk.agents[a] \notin Pending
            \/ a \in dropped \/ slips # {} \/ disk.state = "stopped"
=============================================================================

-------------------------- MODULE WorkerOwnership --------------------------
(* Why a run has one worker at a time: what the record, its copy on disk and    *)
(* the events between them say of the worker that serves the run or may come    *)
(* to serve it, where a request can be that was begun already, and how long     *)
(* the first batch takes additions.                                            *)
EXTENDS WorkerOperations

-----------------------------------------------------------------------------
(* What the variables hold                                                     *)

OrNobody    == Workers \cup {0}
RunStatus   == ActiveStatus \cup {"cancelled", "completed", "failed", "interrupted"}
AgentStatus == {"none", "interrupted"} \cup Pending \cup Terminal
Op          == {"initial", "batch"}

Record == [status : RunStatus, state : {"idle", "busy", "crashed", "stopped"},
           op : Op \cup {""}, id : Nat, pid : OrNobody, agents : [Agents -> AgentStatus]]

Event ==
    [kind : {"worker_started"}, pid : Workers]
    \cup [kind : {"operation_started"}, pid : Workers, op : Op, id : Nat]
    \cup [kind : {"prepared", "failed", "operation_finished", "worker_stopped"}]
    \cup [kind : {"agent"}, agent : Agents, status : AgentStatus]
    \cup [kind : {"ended"}, cancelled : BOOLEAN]

AnyRequest == [id : Nat, batch : Nat, op : Op, agents : SUBSET Agents]

Stage == {"preparing", "stage", "ending", "failing", "deactivating", "finishing"}
Rest  == {"idle", "closing", "unlinking"}

Pc    == {"none", "awaiting", "orphaned", "booting", "leaving", "dead"} \cup Stage \cup Rest

Process == [pc : Pc, id : Nat, op : Op \cup {""}, ok : BOOLEAN, tasks : [Agents -> AgentStatus]]

Call ==
    [pc : {"none", "loading", "noting"}]
    \cup [pc : {"begun", "retiring"}, kind : {"add", "retry", "retained", "resume", "rescue"},
          agents : SUBSET Agents, prev : Record, heard : BOOLEAN]
    \cup [pc : {"marked", "announced", "spawned"}, mode : {"live", "queued", "fresh"},
          agents : SUBSET Agents, prev : Record, heard : BOOLEAN]

ViewsTypeOK ==
    /\ record \in Record /\ disk \in Record
    /\ tail \in Seq(Event) /\ seen \in 0..Len(tail)

FilesTypeOK ==
    /\ requests \subseteq AnyRequest
    /\ window \in [open : BOOLEAN, pending : SUBSET Agents]
    /\ stop \in BOOLEAN /\ kills \subseteq Agents /\ shutdown \in BOOLEAN

ProcessesTypeOK ==
    /\ checkpoint \in [pid : OrNobody, alive : BOOLEAN, active : BOOLEAN, id : Nat, ok : BOOLEAN]
    /\ workers \in [Workers -> Process] /\ process \in OrNobody

CallTypeOK ==
    /\ call \in Call /\ waiting \in BOOLEAN /\ lastId \in Nat
    /\ left \in [calls : Nat, stops : Nat, incidents : Nat, endless : SUBSET Agents]

HistoryTypeOK ==
    /\ executed \in Seq(AnyRequest) /\ dropped \subseteq Agents
    /\ slips \subseteq {"record", "status", "cut", "checkpoint"}

OwnershipTypeOK == ViewsTypeOK /\ FilesTypeOK /\ ProcessesTypeOK /\ CallTypeOK /\ HistoryTypeOK

-----------------------------------------------------------------------------
(* The worker that serves the run, or that waits and is named                   *)

Waits(w)  == workers[w].pc \in {"awaiting", "orphaned"}
Bound(w)  == workers[w].pc \in {"awaiting", "orphaned", "booting"} \cup Stage
Holder(w) == \/ Serving(w)
             \/ Waits(w) /\ (disk.pid = w \/ (call.pc = "spawned" /\ record.pid = w))

InBatch == call.pc \in {"marked", "announced"}

(* The record that a refused batch would go back to                            *)
Back == [record EXCEPT
           !.status = call.prev.status, !.state = call.prev.state, !.op = call.prev.op,
           !.id = call.prev.id,
           !.agents = [a \in Agents |-> IF a \in call.agents THEN call.prev.agents[a] ELSE @[a]]]

(* A record that has taken in every event of its worker knows it, as long as the *)
(* worker is about to begin or in the middle of an operation; one that has lost *)
(* sight of it afterwards never takes the run for complete, nor for left.      *)
KnowsAs(rec, w, bound) ==
    /\ bound => rec.pid = w /\ rec.op # ""
    /\ rec.pid \in {w, 0}
    /\ rec.pid = 0 => rec.status # "completed"
    /\ rec.state # "stopped"

Knows(rec, w) == KnowsAs(rec, w, Bound(w))

Names(rec, w) == rec.pid \in {w, 0} /\ rec.state # "stopped"

RecordKnows == \A w \in Workers : Holder(w) =>
    /\ Names(record, w) /\ Knows(Refresh(record), w)
    /\ process \in {w, 0}

DiskKnows == \A w \in Workers : Holder(w) /\ call.pc # "spawned" =>
    /\ Names(disk, w) /\ Knows(Applied(disk, tail), w)
    /\ seen = 0

BackKnows == \A w \in Workers : Holder(w) /\ InBatch =>
    call.mode # "fresh" /\ (~call.heard => Knows(Refresh(Back), w))

OneHolder == \A v, w \in Workers : Holder(v) /\ Holder(w) => v = w

(* A worker that has not begun has not been heard of.                          *)
Unheard == \A w \in Workers :
    /\ workers[w].pc = "none" => record.pid # w /\ disk.pid # w
    /\ workers[w].pc = "none" \/ Waits(w) =>
         \A i \in DOMAIN tail :
             tail[i].kind \in {"worker_started", "operation_started"} => tail[i].pid # w
    /\ Waits(w) /\ record.pid = w => disk.pid = w \/ call.pc = "spawned"
    /\ workers[w].pc \in {"none", "awaiting", "orphaned", "booting"} => checkpoint.pid # w
    /\ Serving(w) /\ workers[w].pc # "booting" => checkpoint.pid = w /\ checkpoint.alive

NoHolder == \A w \in Workers : ~Holder(w)

(* What the manager relies on in the middle of a call                          *)
CallFits ==
    /\ record.pid = 0 /\ record.state = "stopped" /\ call.pc # "loading" => Unread = <<>>
    /\ checkpoint.alive => checkpoint.pid # 0
    /\ call.pc = "begun" /\ call.kind = "rescue" => NoHolder /\ record.pid = 0 /\ Unread = <<>>
    /\ call.pc = "retiring" \/ (call.pc = "begun" /\ call.kind = "resume") => record.pid # 0
    /\ call.pc = "marked" => ~call.heard
    /\ InBatch /\ call.mode = "fresh" =>
         /\ NoHolder /\ Unread = <<>> /\ ~call.heard
         /\ record.pid = 0 /\ record.state = "busy" /\ record.op # ""
    /\ call.pc = "spawned" =>
         /\ Unread = <<>>
         /\ record.pid # 0 /\ workers[record.pid].pc \in {"awaiting", "dead"}
         /\ disk.pid # record.pid
         /\ record.op # "" /\ record.state = "busy"

Ownership == RecordKnows /\ DiskKnows /\ BackKnows /\ OneHolder /\ Unheard /\ CallFits

OwnerInv == OwnershipTypeOK /\ (Kept => Ownership)

-----------------------------------------------------------------------------
(* Requests that were begun                                                    *)

Begun == ToSet(executed)
Clean == requests \cap Begun = {}

(* A batch has a number of its own, though its file may have another's name.    *)
Numbered ==
    /\ IsInjective(executed)
    /\ \A r \in requests \cup Begun :
         r.batch <= lastId /\ (InBatch /\ call.mode # "live" => r.batch < lastId)

NotStopped ==
    /\ record.state # "stopped" /\ Refresh(record).state # "stopped"
    /\ disk.state # "stopped" /\ Applied(disk, tail).state # "stopped"
    /\ InBatch => (call.heard \/ Refresh(Back).state # "stopped")
    /\ checkpoint.alive

Works(w) == workers[w].pc \in Stage \cup {"closing", "unlinking"}

(* The file of an operation that was begun is there only while it goes on, or   *)
(* when its worker has died in it; then nothing tells that the worker has left, *)
(* and no other is on its way.                                                 *)
InHand ==
    /\ NotStopped
    /\ \A w \in Workers : workers[w].pc = "leaving" => checkpoint.pid # w
    /\ \A w \in Workers : Holder(w) => Works(w) /\ Others(workers[w].id) \cap Begun = {}
    /\ (InBatch => call.mode # "fresh") /\ call.pc # "spawned"

BegunInv == OwnerInv /\ (Kept => Numbered /\ (Clean \/ InHand))

-----------------------------------------------------------------------------
(* The first batch, the only one that takes in additions                        *)

FirstHere == \E r \in requests : r.op = "initial"

\* Its worker is about to take it, or has not ended it.
Opening == \/ workers[1].pc \in {"booting", "idle"} /\ executed = <<>>
           \/ workers[1].pc \in Stage /\ workers[1].op = "initial"

Asked(rec)     == rec.op = "initial" /\ rec.state = "busy"
Shown(rec)     == Asked(rec) /\ rec.pid = 1
Untouched(rec) == \A a \in Agents : rec.agents[a] \in {"none", "queued"}

StartEvent == [kind |-> "worker_started", pid |-> 1]
StopEvent  == [kind |-> "worker_stopped"]

OpeningEvent(e) ==
    /\ e.kind \notin {"operation_finished", "worker_stopped"}
    /\ e.kind \in {"worker_started", "operation_started"} => e.pid = 1
    /\ e.kind = "operation_started" => e.op = "initial"

(* What a record may be before the batch was taken: as it was made, or told     *)
(* that the worker has left or died                                            *)
Unmoved(rec, events) ==
    \/ Asked(rec) /\ Untouched(rec)
    \/ rec.state = "stopped" /\ rec.op = "" /\ Untouched(rec) /\ events = <<>>
    \/ rec.state = "crashed" /\ rec.op = "" /\ events = <<>>

\* The request and its operation are the first worker's, under the first name.
OnlyFirst ==
    /\ \A r \in requests : r.op = "initial" => r.id = 1
    /\ \A w \in Workers : workers[w].op = "initial" => w = 1 /\ workers[w].id = 1

\* While the request is there, no other worker is, or is on its way.
NoOther ==
    /\ \A w \in Workers : w # 1 => workers[w] = Asleep
    /\ process \in {0, 1}
    /\ call.pc \notin {"retiring", "spawned"}
    /\ call.pc = "begun" =>
         call.kind # "resume" /\ (call.kind = "retained" => record.state # "stopped")
    /\ InBatch => call.mode # "fresh"

\* Once the batch is about to end, its window is empty and closed, or the run was
\* told to stop.
WindowFits ==
    workers[1].pc \in {"ending", "failing", "deactivating"} =>
        \/ window.pending = {} /\ ~window.open
        \/ stop /\ workers[1].pc # "failing"

OpeningFits ==
    /\ Shown(record) /\ Shown(disk)
    /\ \A i \in DOMAIN tail : OpeningEvent(tail[i])
    /\ call.pc = "begun" => call.kind # "rescue"
    /\ InBatch => call.mode = "live" /\ Asked(call.prev)
    /\ \A r \in requests : r.op = "initial"
    /\ WindowFits

UntakenFits ==
    /\ workers[1].op = "" /\ seen = 0 /\ ~checkpoint.active
    /\ \/ workers[1].pc = "booting" /\ tail = <<>>
       \/ workers[1].pc \in {"idle", "dead"} /\ tail \in {<<>>, <<StartEvent>>}
       \/ workers[1].pc \in {"leaving", "dead"}
             /\ tail \in {<<>>, <<StopEvent>>, <<StartEvent, StopEvent>>}
    /\ Unmoved(record, tail) /\ Unmoved(disk, tail)
    /\ call.pc = "begun" => call.kind # "rescue"
    /\ InBatch => /\ call.mode = "live" /\ record.state # "crashed"
                  /\ Asked(call.prev) /\ Untouched(call.prev)

TakenFits ==
    /\ workers[1].pc \in Stage \cup {"closing", "unlinking", "dead"} /\ workers[1].op = "initial"
    /\ record.state # "stopped" /\ disk.state # "stopped"
    /\ \A i \in DOMAIN tail : tail[i].kind # "worker_stopped"
    /\ InBatch => call.prev.state # "stopped"

FirstBatch ==
    /\ OnlyFirst
    /\ FirstHere => NoOther
    /\ Opening => FirstHere /\ OpeningFits
    /\ executed = <<>> => FirstHere /\ UntakenFits
    /\ executed # <<>> /\ FirstHere => TakenFits

FirstBatchInv == OwnershipTypeOK /\ FirstBatch
=============================================================================

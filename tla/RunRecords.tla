------------------------------ MODULE RunRecords ------------------------------
(***************************************************************************)
(* The record of one run, of which every manager (the daemon's, that of an *)
(* MCP plugin, that of a worker which finalizes) keeps a copy of its own,  *)
(* and runs.json the common one: _sync_state_from_disk_locked,             *)
(* _refresh_events_locked, _require_run_locked and _save_state_locked of   *)
(* plugin_runtime.py, with the operations around them.  A record says how  *)
(* far it has applied the event log, and carries direct changes (a         *)
(* rejected agent, a setting) that no event repeats.  Where two copies     *)
(* differ, the one with the later updated_at wins as a whole.              *)
(***************************************************************************)
EXTENDS EventLog, FiniteSets

CONSTANTS
  Managers,     \* processes with a manager
  PageLimit,    \* events that one read returns (1000)
  MaxChanges    \* bound: operations that change the record directly

ASSUME RunRecordsAssumption ==
  /\ Managers \subseteq Writers
  /\ PageLimit \in Nat \ {0} /\ MaxChanges \in Nat

VARIABLES
  disk,       \* the record in runs.json
  mgr,        \* each manager: its copy, the step of its operation, and the object held by
              \* the operation, which is the copy in _runs (same) unless a save replaced
              \* that one; current: runs.json is as the manager last saw it
  changes,    \* direct changes so far
  reported,   \* those whose operation has answered
  exposed     \* those made under another manager's eyes, or on an outdated object

recordVars == <<disk, mgr, changes, reported, exposed>>
runVars == <<logVars, recordVars>>

\* seen: what the record has applied, by time; count: event_count, its cursor.
Record == [seen : Seq(Nat), count : Nat, made : SUBSET (1..MaxChanges), at : Nat]
NewRecord == [seen |-> <<>>, count |-> 0, made |-> {}, at |-> 0]

RecordsInit ==
  /\ LogInit
  /\ disk = NewRecord
  /\ mgr = [m \in Managers |-> [step |-> "idle", task |-> 0, copy |-> NewRecord,
             held |-> NewRecord, same |-> TRUE, current |-> TRUE, durable |-> FALSE]]
  /\ changes = 0 /\ reported = {} /\ exposed = {}

\* The state of a manager after its operation changed the object that it holds.
Holding(g, record) == [g EXCEPT !.held = record, !.copy = IF g.same THEN record ELSE @]

At(m, step) == mgr[m].step = step

\* The tasks of the operations under way; a reading operation has none.
Busy == {m \in Managers : mgr[m].step \notin {"idle", "down"}}
Tasks == {mgr[m].task : m \in Managers} \ {0}

StartReading(m) ==
  /\ At(m, "idle")
  /\ mgr' = [mgr EXCEPT ![m].step = "sync"]
  /\ exposed' = exposed \cup Tasks
  /\ UNCHANGED <<disk, changes, reported, logVars>>

\* _run_operation_guard: one operation that changes the run at a time, among all
\* processes.  The reading that it begins with is one of those above.
StartChange(m) ==
  /\ At(m, "idle") /\ Tasks = {}
  /\ changes < MaxChanges /\ changes' = changes + 1
  /\ mgr' = [mgr EXCEPT ![m].step = "sync", ![m].task = changes + 1]
  /\ exposed' = IF Busy = {} THEN exposed ELSE exposed \cup {changes + 1}
  /\ UNCHANGED <<disk, reported, logVars>>

\* Mutant: the stamp is believed to be that of what was read.
SyncStampOnly(m) ==
  /\ At(m, "sync")
  /\ mgr' = [mgr EXCEPT ![m] = [@ EXCEPT !.step = "refresh", !.held = mgr[m].copy, !.same = TRUE,
                                         !.current = TRUE, !.durable = FALSE]]
  /\ UNCHANGED <<disk, changes, reported, exposed, logVars>>

\* _sync_state_from_disk_locked: when runs.json is not what the manager last read
\* or wrote, it is read, and adopted if it is newer.
Sync(m) ==
  /\ At(m, "sync")
  /\ LET copy == IF ~mgr[m].current /\ disk.at > mgr[m].copy.at THEN disk ELSE mgr[m].copy
     IN mgr' = [mgr EXCEPT ![m] = [@ EXCEPT !.step = "refresh", !.copy = copy, !.held = copy,
                                            !.same = TRUE, !.current = TRUE, !.durable = FALSE]]
  /\ UNCHANGED <<disk, changes, reported, exposed, logVars>>

-----------------------------------------------------------------------------
(* Applying the log.                                                        *)

\* EventLog.read from a cursor: the page of lines that it returns.
Page(cursor) ==
  LET last == IF Len(EnsuredIndex) < cursor + PageLimit THEN Len(EnsuredIndex)
              ELSE cursor + PageLimit
  IN [n \in 1..(IF cursor < last THEN last - cursor ELSE 0) |->
        EnsuredFile[EnsuredIndex[cursor + n]].event]

\* Mutant: the cursor skips to the end of the log as it was counted before.
AppliedToEnd(record, page) ==
  [record EXCEPT !.seen = @ \o [n \in DOMAIN page |-> page[n].at],
                 !.count = Len(EnsuredIndex),
                 !.at = IF page = <<>> THEN @ ELSE page[Len(page)].at]

\* _apply_progress_locked of a page: the record is as old as its last event.
Applied(record, page) ==
  [record EXCEPT !.seen = @ \o [n \in DOMAIN page |-> page[n].at],
                 !.count = @ + Len(page),
                 !.at = IF page = <<>> THEN @ ELSE page[Len(page)].at]

\* One page of _refresh_events_locked, which goes on until the log has no more.
Refreshed(m, after) ==
  LET g == mgr[m]
      page == Page(g.held.count)
      durable == g.durable \/ \E n \in DOMAIN page : page[n].kind # "agent_line"
      more == g.held.count + Len(page) < Len(EnsuredIndex)
  IN /\ Repair
     /\ mgr' = [mgr EXCEPT ![m] =
          [Holding(g, Applied(g.held, page)) EXCEPT
             !.durable = durable, !.step = IF more THEN g.step ELSE after[durable]]]
     /\ UNCHANGED <<disk, changes, reported, exposed>>

\* The refresh at the start of every operation: news worth keeping are saved first.
Refresh(m) ==
  /\ At(m, "refresh")
  /\ Refreshed(m, [durable \in BOOLEAN |->
       CASE durable -> "save" [] mgr[m].task = 0 -> "idle" [] OTHER -> "change"])

\* The refresh after an operation's own event; the operation saves anyway.
RefreshNotice(m) == At(m, "noticed") /\ Refreshed(m, [durable \in BOOLEAN |-> "store"])

-----------------------------------------------------------------------------
(* Saving.                                                                  *)

\* _save_state_locked: under the lock of runs.json a newer record replaces the
\* copy in _runs, but not the object that the operation holds.
Store(m, step) ==
  LET newer == disk.at > mgr[m].copy.at IN
  /\ disk' = IF newer THEN disk ELSE mgr[m].copy
  /\ mgr' = [n \in Managers |->
       IF n = m
       THEN [mgr[m] EXCEPT !.step = step, !.task = IF step = "idle" THEN 0 ELSE @,
                           !.current = TRUE, !.copy = disk', !.same = @ /\ ~newer]
       ELSE [mgr[n] EXCEPT !.current = FALSE]]

\* _require_run_locked saves what it found in the log.
SaveNews(m) ==
  /\ At(m, "save")
  /\ Store(m, IF mgr[m].task = 0 THEN "idle" ELSE "change")
  /\ UNCHANGED <<changes, reported, exposed, logVars>>

\* The operation changes the object it holds; most operations then append an event
\* that says so, but a setting of accept is stored without one.
Change(m, step) ==
  /\ At(m, "change")
  /\ clock' = clock + 1
  /\ mgr' = [mgr EXCEPT ![m] =
       [Holding(mgr[m], [mgr[m].held EXCEPT !.made = @ \cup {mgr[m].task}, !.at = clock + 1])
        EXCEPT !.step = step]]
  /\ exposed' = IF mgr[m].same THEN exposed ELSE exposed \cup {mgr[m].task}
  /\ UNCHANGED <<disk, changes, reported, file, index, ragged, lock, turn, deaths>>

\* _append_event_locked, by way of EventLog.append.
AppendNotice(m) ==
  /\ At(m, "notice")
  /\ \/ lock # m /\ Begin(m, "status", 1) /\ UNCHANGED mgr
     \/ WriteLine(m) /\ UNCHANGED mgr
     \/ WriteIndex(m) /\ mgr' = [mgr EXCEPT ![m].step = "noticed"]
  /\ UNCHANGED <<disk, changes, reported, exposed>>

\* The operation saves, and answers.
StoreChange(m) ==
  /\ At(m, "store")
  /\ Store(m, "idle")
  /\ reported' = reported \cup {mgr[m].task}
  /\ UNCHANGED <<changes, exposed, logVars>>

-----------------------------------------------------------------------------
(* Deaths, and the worker.                                                  *)

\* A manager's process ends, if need be in the middle of a write of the log.
Die(m) ==
  /\ mgr[m].step # "down"
  /\ \/ DieWriting(m)
     \/ lock # m /\ deaths < MaxDeaths /\ deaths' = deaths + 1
          /\ UNCHANGED <<file, index, ragged, lock, turn, clock>>
  /\ mgr' = [mgr EXCEPT ![m] = [@ EXCEPT !.step = "down", !.task = 0, !.durable = FALSE,
                                        !.copy = NewRecord, !.held = NewRecord, !.same = TRUE]]
  /\ UNCHANGED <<disk, changes, reported, exposed>>

\* _load_state of the process that follows.
RestartManager(m) ==
  /\ At(m, "down")
  /\ mgr' = [mgr EXCEPT ![m] = [@ EXCEPT !.step = "idle", !.copy = disk, !.held = disk,
                                        !.current = TRUE]]
  /\ UNCHANGED <<disk, changes, reported, exposed, logVars>>

Worker ==
  /\ \E w \in Writers \ Managers : Appending(w)
  /\ UNCHANGED recordVars

Rebuilder == DieRebuilding /\ UNCHANGED recordVars

Operation(m) ==
  \/ Sync(m) \/ Refresh(m) \/ SaveNews(m) \/ AppendNotice(m) \/ RefreshNotice(m)
  \/ StoreChange(m) \/ Change(m, "notice") \/ Change(m, "store")

RecordsNext ==
  \/ \E m \in Managers : StartReading(m) \/ StartChange(m) \/ Operation(m) \/ Die(m) \/ RestartManager(m)
  \/ Worker \/ Rebuilder

RecordsSpec == RecordsInit /\ [][RecordsNext]_runVars

-----------------------------------------------------------------------------
(* Properties.                                                              *)

Copies(m) == {mgr[m].copy, mgr[m].held}
Records == {disk} \cup UNION {Copies(m) : m \in Managers}

\* Every record, wherever it is kept, has applied the events of the log in order,
\* each once and without a gap, up to its cursor: whatever was paged, repaired,
\* adopted from disk, swapped in by a save or lost with a process.
AppliedInOrder ==
  LET lines == Lines IN
  \A r \in Records :
    /\ r.count <= Len(lines)
    /\ r.seen = [n \in 1..r.count |-> lines[n].event.at]

\* A direct change that was answered stays in runs.json, however often the worker's
\* events move other copies' updated_at past it: unless another manager was inside
\* an operation of its own meanwhile, or a save had swapped the object away.
AnsweredChangesStay == reported \ exposed \subseteq disk.made

\* A manager at rest whose stamp of runs.json still fits has every such change in
\* its copy: "a stale cache is impossible" as far as it is true.
CurrentCopiesAgree ==
  \A m \in Managers :
    At(m, "idle") /\ mgr[m].current => disk.made \ exposed \subseteq mgr[m].copy.made

-----------------------------------------------------------------------------
(* What makes these three inductive.                                        *)

Steps == {"idle", "sync", "refresh", "save", "change", "notice", "noticed", "store", "down"}
Manager == [step : Steps, task : 0..MaxChanges, copy : Record, held : Record,
            same : BOOLEAN, current : BOOLEAN, durable : BOOLEAN]

RecordsTypeOK ==
  /\ disk \in Record /\ mgr \in [Managers -> Manager]
  /\ changes \in 0..MaxChanges /\ reported \subseteq 1..changes /\ exposed \subseteq 1..changes

\* The lines of the log have the times of their appends, in this order; all that
\* bears a time has one that was read from the clock.
TimesFit ==
  /\ \A i, j \in 1..Len(Lines) : i <= j => Lines[i].event.at <= Lines[j].event.at
  /\ \A i \in 1..Len(Lines) : Lines[i].event.at <= clock
  /\ turn.step # "none" => turn.at <= clock
  /\ turn.step = "line" => \A i \in 1..Len(Lines) : Lines[i].event.at <= turn.at
  /\ turn.step = "index" => Lines[Len(Lines)].event.at = turn.at

\* One operation at a time changes the run, its change is new, and it appends one
\* event of its own.
OperationFits(m) ==
  LET g == mgr[m] IN
  /\ g.task # 0 => g.task \in 1..changes /\ g.task \notin reported
  /\ g.step \in {"idle", "down"} => g.task = 0
  /\ g.step \in {"change", "notice", "noticed", "store"} => g.task # 0
  /\ \A n \in Managers : g.task # 0 /\ mgr[n].task # 0 => n = m
  /\ g.same => g.held = g.copy
  /\ lock = m => g.step = "notice" /\ turn.part = turn.parts

\* What an operation has made, and has yet to answer for.
Unanswered(m) == IF mgr[m].step \in {"notice", "noticed", "store"} THEN {mgr[m].task} ELSE {}

\* Nothing else was made that is not reported.
MadeFits ==
  /\ disk.made \subseteq reported
  /\ \A m \in Managers : \A r \in Copies(m) : r.made \subseteq reported \cup Unanswered(m)

\* Every other record is older than this time.
Newest(m, time) == disk.at < time /\ \A n \in Managers \ {m} : mgr[n].copy.at < time

\* An operation under nobody else's eyes: its change, once made, is the newest thing
\* there is, or the event that says so is and has yet to be applied.
UnseenFits(m) ==
  LET g == mgr[m] IN
  g.task # 0 /\ g.task \notin exposed =>
    /\ \A n \in Managers \ {m} : mgr[n].step \in {"idle", "down"}
    /\ g.step \in {"notice", "noticed", "store"} => g.same /\ g.task \in g.held.made
    /\ g.step \in {"notice", "store"} => Newest(m, g.copy.at)
    /\ g.step = "notice" /\ lock = m =>
         g.copy.at < turn.at /\ (turn.step = "index" => g.held.count < Len(Lines))
    /\ g.step = "noticed" =>
         g.held.count < Len(Lines) /\ Newest(m, Lines[Len(Lines)].event.at)

\* Such a change is in runs.json once it is reported, and every manager has it or
\* will read it before it does anything.
WillHave(m, c) ==
  \/ mgr[m].step = "down" \/ c \in mgr[m].copy.made
  \/ mgr[m].step \in {"idle", "sync"} /\ ~mgr[m].current /\ mgr[m].copy.at < disk.at

ReportedFits(c) == c \in disk.made /\ \A m \in Managers : WillHave(m, c)

RecordsInv ==
  /\ LogInv /\ TimesFit /\ RecordsTypeOK /\ AppliedInOrder /\ MadeFits
  /\ \A r \in Records : r.at <= clock
  /\ \A m \in Managers : OperationFits(m) /\ UnseenFits(m)
  /\ \A c \in reported \ exposed : ReportedFits(c)
=============================================================================

---------------------------- MODULE AgentExecution ----------------------------
(***************************************************************************)
(* The execution of one agent's task: codex_app_server.py and              *)
(* run_one_agent of app.py.  A supervisor in the worker starts an adapter, *)
(* the adapter starts a native server and submits the task to it as a turn *)
(* of a thread.  Each of the three may die on its own.  What was submitted *)
(* is known from a durable receipt (execution_recovery.json) and from the  *)
(* thread's history, so that what was interrupted is continued, and the    *)
(* prompt is not sent twice.                                               *)
(*                                                                         *)
(* Left out: the hand-over between accounts, and the legacy transport.     *)
(***************************************************************************)
EXTENDS Naturals, Sequences, SequencesExt

CONSTANTS
  MaxIncidents   \* bound: faults of the service, deaths of processes, and questions

ASSUME AgentExecutionAssumption == MaxIncidents \in Nat

VARIABLES
  receipt,     \* execution_recovery.json: "ready", "submitting", "accepted",
               \* "continuation_ready", "completed", "blocked" or "stopped"
  turns,       \* the thread's history, which outlives the native server
  server,      \* the native server
  request,     \* the turn/start that the server has not read
  events,      \* what the server wrote and the adapter has not read
  adapter,     \* the adapter's process
  supervisor,  \* run_one_agent, and the status that it leaves in status.json
  stop,        \* the user's stop, a file
  messages,    \* client message ids so far
  incidents

executionVars ==
  <<receipt, turns, server, request, events, adapter, supervisor, stop, messages, incidents>>

\* "overloaded": it failed with an error that transient_error expects to pass.
TurnStatuses == {"inProgress", "completed", "failed", "overloaded", "interrupted"}
NoRequest == [msg |-> 0, kind |-> "none"]
NoAdapter == [pc |-> "none", turn |-> 0, exit |-> "none", outcome |-> "none", kind |-> "none"]

ExecutionInit ==
  /\ receipt = [stage |-> "ready", turn |-> 0, msg |-> 0]
  /\ turns = <<>> /\ server = "none" /\ request = NoRequest /\ events = <<>>
  /\ adapter = NoAdapter
  /\ supervisor = [pc |-> "start", status |-> "none"]
  /\ stop = FALSE /\ messages = 0 /\ incidents = 0

Incident == incidents < MaxIncidents /\ incidents' = incidents + 1

\* The adapter leaves _run_once for good.
Closing(outcome) == [adapter EXCEPT !.pc = "closing", !.outcome = outcome]

\* After an event was printed.  When the worker is gone nobody reads it: the error is
\* taken for a lost connection, whose own event fails in turn, for good.
Emitted(next) == IF supervisor.pc = "dead" THEN Closing("blocked") ELSE next

\* Turns that their server left behind.
Interrupted == [n \in DOMAIN turns |->
  [turns[n] EXCEPT !.status = IF @ = "inProgress" THEN "interrupted" ELSE @]]

ServerGone ==
  /\ server' = "none" /\ request' = NoRequest /\ events' = <<>>
  /\ turns' = Interrupted

-----------------------------------------------------------------------------
(* The adapter.                                                             *)

Connected == adapter.pc \in {"check", "submit", "send", "await", "run", "pause", "backoff"}

\* _run_once up to the thread: a server is started, and resumes the thread if there is
\* one.  It may refuse for good (configuration, authentication).
Connect ==
  /\ adapter.pc = "connect" /\ ~stop
  /\ server' = "up"
  /\ \/ adapter' = Emitted([adapter EXCEPT !.pc = "check"]) /\ UNCHANGED incidents
     \/ Incident /\ adapter' = Closing("blocked")
  /\ UNCHANGED <<receipt, turns, request, events, supervisor, stop, messages>>

\* Mutant: a receipt without a turn is taken for a lost input.
MatchesOrUnseen(latest) ==
  IF receipt.stage = "submitting" THEN TRUE ELSE latest = receipt.turn

\* The server's latest turn is the one that the receipt is about.
Matches(latest) ==
  IF receipt.stage = "submitting" THEN turns[latest].msg = receipt.msg ELSE latest = receipt.turn

\* execute_turn before it submits: a receipt that is not new is reconciled with the
\* history first, and while it cannot be, nothing is submitted.
Reconciled(latest) ==
  LET status == turns[latest].status
      Known(stage) == receipt' = [receipt EXCEPT !.stage = stage, !.turn = latest]
  IN \/ /\ status = "completed" /\ Known("completed")
        /\ adapter' = Emitted([adapter EXCEPT !.pc = "run", !.turn = latest, !.exit = "ok"])
     \/ /\ status = "inProgress"
        /\ IF adapter.turn = 0 THEN Known("accepted") ELSE UNCHANGED receipt
        /\ adapter' = Emitted([adapter EXCEPT !.pc = "run", !.turn = latest])
     \/ /\ status = "failed"
        /\ receipt' = [receipt EXCEPT !.stage = "blocked"]
        /\ adapter' = Closing("blocked")
     \/ /\ status \in {"overloaded", "interrupted"} /\ Known("continuation_ready")
        /\ adapter' = IF adapter.turn = 0
                      THEN [adapter EXCEPT !.pc = "submit", !.kind = "continue"]
                      ELSE [adapter EXCEPT !.pc = "run"]

\* What the server wrote before its answer is handled before it.
Check ==
  /\ adapter.pc = "check" /\ ~stop /\ server = "up" /\ events = <<>>
  /\ \/ /\ receipt.stage = "ready"
        /\ adapter' = [adapter EXCEPT !.pc = "submit", !.kind = "prompt"]
        /\ UNCHANGED receipt
     \/ /\ receipt.stage # "ready"
        /\ IF turns # <<>> /\ Matches(Len(turns)) THEN Reconciled(Len(turns))
           ELSE adapter' = Emitted([adapter EXCEPT !.pc = "pause"]) /\ UNCHANGED receipt
  /\ UNCHANGED <<turns, server, request, events, supervisor, stop, messages, incidents>>

\* Mutant: the receipt is written when the turn is known.
SubmitUnrecorded ==
  /\ adapter.pc = "submit"
  /\ messages' = messages + 1
  /\ receipt' = [receipt EXCEPT !.msg = messages + 1]
  /\ adapter' = Emitted([adapter EXCEPT !.pc = "send"])
  /\ UNCHANGED <<turns, server, request, events, supervisor, stop, incidents>>

\* The receipt names the message before it is sent.
Submit ==
  /\ adapter.pc = "submit"
  /\ messages' = messages + 1
  /\ receipt' = [stage |-> "submitting", turn |-> 0, msg |-> messages + 1]
  /\ adapter' = Emitted([adapter EXCEPT !.pc = "send"])
  /\ UNCHANGED <<turns, server, request, events, supervisor, stop, incidents>>

Send ==
  /\ adapter.pc = "send" /\ ~stop /\ server = "up"
  /\ request' = [msg |-> receipt.msg, kind |-> adapter.kind]
  /\ adapter' = [adapter EXCEPT !.pc = "await"]
  /\ UNCHANGED <<receipt, turns, server, events, supervisor, stop, messages, incidents>>

\* EventAdapter.started_turn.
StartedTurn(turn, pc) ==
  IF adapter.turn = 0
  THEN /\ receipt' = [receipt EXCEPT !.stage = "accepted", !.turn = turn]
       /\ adapter' = Emitted([adapter EXCEPT !.turn = turn, !.pc = pc])
  ELSE /\ adapter' = IF adapter.turn = turn THEN [adapter EXCEPT !.pc = pc] ELSE Closing("blocked")
       /\ UNCHANGED receipt

\* Mutant: only the answer ends the wait for it.
StillAwaiting == adapter.pc

\* A turn that ends before its answer came is not waited for any longer.
AfterEnd == IF adapter.pc = "await" THEN "run" ELSE adapter.pc

\* EventAdapter.observe of turn/completed; an interruption nobody asked for is passing.
EndedTurn(turn) ==
  LET status == turns[turn].status
      exit == CASE status = "completed" -> "ok"
                [] status = "overloaded" \/ (status = "interrupted" /\ ~stop) -> "again"
                [] OTHER -> "failed"
      stage == CASE exit = "ok" -> "completed" [] exit = "again" -> "continuation_ready"
                 [] OTHER -> "blocked"
  IN IF adapter.turn # turn
     THEN UNCHANGED <<receipt, adapter>>
     ELSE /\ receipt' = [receipt EXCEPT !.stage = stage]
          /\ LET next == [adapter EXCEPT !.exit = exit, !.pc = AfterEnd]
             IN adapter' = IF exit = "again" THEN next ELSE Emitted(next)

\* The answer to turn/start was an error.
Rejected(passing) ==
  /\ adapter' = IF passing THEN Emitted([adapter EXCEPT !.pc = "pause"]) ELSE Closing("blocked")
  /\ UNCHANGED receipt

\* handle: one message of the server, also while the adapter waits for something else.
\* An answer comes before the end of its turn, and is still waited for.
Handle ==
  /\ Connected /\ ~stop /\ events # <<>> /\ events' = Tail(events)
  /\ LET event == Head(events)
     IN \/ event.kind = "started" /\ StartedTurn(event.turn, adapter.pc)
        \/ event.kind = "ended" /\ EndedTurn(event.turn)
        \/ event.kind = "accepted" /\ adapter.pc = "await" /\ StartedTurn(event.turn, "run")
        \/ event.kind = "rejected" /\ adapter.pc = "await" /\ Rejected(event.passing)
  /\ UNCHANGED <<turns, server, request, supervisor, stop, messages, incidents>>

\* The end of the main loop of _run_once.
Finish ==
  /\ adapter.pc = "run" /\ adapter.exit # "none"
  /\ adapter' = CASE adapter.exit = "ok" -> Closing("success")
                  [] adapter.exit = "failed" -> Closing("failed")
                  [] OTHER -> Emitted([adapter EXCEPT !.pc = "backoff"])
  /\ UNCHANGED <<receipt, turns, server, request, events, supervisor, stop, messages, incidents>>

\* The end of wait_with_updates; after a turn that failed the next one is due.
EndWait ==
  /\ ~stop
  /\ \/ adapter.pc = "pause" /\ adapter' = [adapter EXCEPT !.pc = "check"]
     \/ adapter.pc = "backoff" /\ adapter' = [NoAdapter EXCEPT !.pc = "check"]
  /\ UNCHANGED <<receipt, turns, server, request, events, supervisor, stop, messages, incidents>>

\* The server is gone: a new one is started after a while.
Reconnect ==
  /\ Connected /\ server # "up"
  /\ ServerGone
  /\ adapter' = Emitted([NoAdapter EXCEPT !.pc = "connect"])
  /\ UNCHANGED <<receipt, supervisor, stop, messages, incidents>>

\* watch_stop cancels the adapter: at once, or while it is closing its server.
Cancelled ==
  /\ stop /\ adapter.outcome # "stopped"
  /\ \/ /\ Connected \/ adapter.pc = "connect"
        /\ adapter' = Closing("stopped") /\ UNCHANGED <<receipt, events>>
     \/ /\ adapter.pc = "closing"
        /\ adapter' = [NoAdapter EXCEPT !.outcome = "stopped"]
        /\ receipt' = [receipt EXCEPT !.stage = "stopped"] /\ events' = <<>>
  /\ UNCHANGED <<turns, server, request, supervisor, stop, messages, incidents>>

\* The finally of _run_once, then that of run: the server is closed, if need be
\* killed, and the process exits.
Close ==
  /\ adapter.pc = "closing"
  /\ ServerGone
  /\ adapter' = [NoAdapter EXCEPT !.outcome = adapter.outcome]
  /\ receipt' = IF adapter.outcome \in {"blocked", "stopped"}
                THEN [receipt EXCEPT !.stage = adapter.outcome] ELSE receipt
  /\ UNCHANGED <<supervisor, stop, messages, incidents>>

AdapterDies ==
  /\ adapter.pc # "none" /\ Incident
  /\ adapter' = [NoAdapter EXCEPT !.outcome = "failed"]
  /\ events' = <<>>
  /\ UNCHANGED <<receipt, turns, server, request, supervisor, stop, messages>>

Adapter ==
  \/ Connect \/ Check \/ Submit \/ Send \/ Handle \/ Finish \/ EndWait \/ Reconnect
  \/ Cancelled \/ Close

-----------------------------------------------------------------------------
(* The native server (external).                                            *)

Event(kind, turn, passing) == [kind |-> kind, turn |-> turn, passing |-> passing]

\* What the server writes is lost when nobody is there to read it.
Writes(news) == events' = IF adapter.pc = "none" THEN <<>> ELSE events \o news

\* The turn starts, and the answer says so, or says that something went wrong, or is
\* missing.
Accept ==
  /\ server = "up" /\ request # NoRequest /\ request' = NoRequest
  /\ turns' = Append(turns, [msg |-> request.msg, kind |-> request.kind, status |-> "inProgress"])
  /\ LET started == Event("started", Len(turns'), FALSE)
         accepted == Event("accepted", Len(turns'), FALSE)
     IN \/ Writes(<<started, accepted>>) /\ UNCHANGED incidents
        \/ Writes(<<accepted, started>>) /\ UNCHANGED incidents
        \/ Incident /\ (Writes(<<started>>) \/ Writes(<<started, Event("rejected", 0, TRUE)>>))
  /\ UNCHANGED <<receipt, server, adapter, supervisor, stop, messages>>

Reject ==
  /\ server = "up" /\ request # NoRequest /\ request' = NoRequest
  /\ Incident
  /\ \E passing \in BOOLEAN : Writes(<<Event("rejected", 0, passing)>>)
  /\ UNCHANGED <<receipt, turns, server, adapter, supervisor, stop, messages>>

EndTurn ==
  /\ server = "up" /\ turns # <<>> /\ Last(turns).status = "inProgress"
  /\ \E status \in TurnStatuses \ {"inProgress"} :
       /\ IF status \in {"overloaded", "interrupted"} THEN Incident ELSE UNCHANGED incidents
       /\ turns' = [turns EXCEPT ![Len(turns)].status = status]
  /\ Writes(<<Event("ended", Len(turns), FALSE)>>)
  /\ UNCHANGED <<receipt, server, request, adapter, supervisor, stop, messages>>

ServerDies ==
  /\ server = "up" /\ adapter.pc # "none" /\ Incident
  /\ server' = "none" /\ request' = NoRequest /\ turns' = Interrupted
  /\ UNCHANGED <<receipt, events, adapter, supervisor, stop, messages>>

\* A server whose adapter is gone reads the end of its input; its output is closed
\* before its process number is free.
OrphanExits ==
  /\ adapter.pc = "none"
  /\ \/ server = "up" /\ server' = "exiting" /\ request' = NoRequest /\ turns' = Interrupted
     \/ server = "exiting" /\ server' = "none" /\ UNCHANGED <<request, turns>>
  /\ UNCHANGED <<receipt, events, adapter, supervisor, stop, messages, incidents>>

Server == Accept \/ Reject \/ EndTurn \/ OrphanExits

-----------------------------------------------------------------------------
(* The supervisor, and the user.                                            *)

Ended(status) == supervisor' = [pc |-> "done", status |-> status]

\* retained_agent_execution: what a dead adapter leaves can be taken up.
RetainedStages == {"submitting", "accepted", "continuation_ready", "completed"}
Retained == receipt.stage \in RetainedStages /\ server = "none"

\* start_process, at first and after the delay of a restart.
StartAdapter ==
  /\ supervisor.pc = "start"
  /\ IF stop THEN Ended("stopped") /\ UNCHANGED adapter
     ELSE /\ adapter' = [NoAdapter EXCEPT !.pc = "connect"]
          /\ supervisor' = [supervisor EXCEPT !.pc = "watch"]
  /\ UNCHANGED <<receipt, turns, server, request, events, stop, messages, incidents>>

\* terminate_process: the group is killed two seconds after it was asked to end.
StopAgent ==
  /\ supervisor.pc = "watch" /\ stop /\ adapter.pc # "none"
  /\ Ended("stopped")
  /\ ServerGone /\ adapter' = NoAdapter
  /\ UNCHANGED <<receipt, stop, messages, incidents>>

\* The adapter exited, and the server closed the output that it shares with it.
AdapterExited ==
  /\ supervisor.pc = "watch" /\ adapter.pc = "none" /\ server # "up"
  /\ IF adapter.outcome # "success" /\ Retained
     THEN supervisor' = [supervisor EXCEPT !.pc = "start"]
     ELSE Ended(CASE stop -> "stopped" [] ~stop /\ adapter.outcome = "success" -> "success"
                  [] OTHER -> "failed")
  /\ UNCHANGED <<receipt, turns, server, request, events, adapter, stop, messages, incidents>>

\* The worker dies; the adapter is not its only child, and lives on.
SupervisorDies ==
  /\ supervisor.pc \in {"start", "watch"} /\ Incident
  /\ supervisor' = [supervisor EXCEPT !.pc = "dead"]
  /\ UNCHANGED <<receipt, turns, server, request, events, adapter, stop, messages>>

\* _read_retained_execution: without a status.json the input must have been accepted.
Resumable ==
  /\ Retained /\ receipt.turn # 0
  /\ \/ supervisor.status = "none" /\ receipt.stage \in {"accepted", "continuation_ready"}
     \/ supervisor.status = "failed"

\* recover_interrupted_batch, resume_agents_in_place and _retry_agent: the user has
\* the task taken up by a new worker, or sent if it never was.
Resume ==
  /\ supervisor.pc = "dead" \/ supervisor = [pc |-> "done", status |-> "failed"]
  /\ adapter.pc = "none" /\ server = "none" /\ ~stop
  /\ Resumable \/ receipt.stage = "ready"
  /\ supervisor' = [supervisor EXCEPT !.pc = "start"]
  /\ UNCHANGED <<receipt, turns, server, request, events, adapter, stop, messages, incidents>>

Stop ==
  /\ ~stop /\ stop' = TRUE
  /\ UNCHANGED <<receipt, turns, server, request, events, adapter, supervisor, messages, incidents>>

Supervisor == StartAdapter \/ StopAgent \/ AdapterExited

ExecutionNext ==
  \/ Adapter \/ AdapterDies
  \/ Server \/ ServerDies
  \/ Supervisor \/ SupervisorDies \/ Resume \/ Stop

\* Processes go on; turns and requests come to an end some day.
ExecutionFairness ==
  /\ WF_executionVars(Adapter) /\ WF_executionVars(Server) /\ WF_executionVars(Supervisor)

ExecutionSpec == ExecutionInit /\ [][ExecutionNext]_executionVars /\ ExecutionFairness

-----------------------------------------------------------------------------
(* Properties.                                                              *)

\* Whatever died in between: a turn is submitted only while every earlier one was
\* interrupted or failed in passing, never after a stop, and the prompt only if no
\* message was ever sent for this task; everything later asks to continue.
SubmissionIsDue ==
  [][request' # NoRequest /\ request = NoRequest =>
       /\ ~stop
       /\ \A n \in DOMAIN turns : turns[n].status \in {"overloaded", "interrupted"}
       /\ request'.kind = "prompt" <=> request'.msg = 1
       /\ request'.kind = "prompt" <=> turns = <<>>]_executionVars

\* The receipt never says more than the thread's history, which the adapter sees late
\* or not at all: which message a turn was started by, and how it ended.  An agent is
\* reported successful only when its last turn completed.
ReceiptIsTrue ==
  /\ receipt.turn # 0 =>
       receipt.turn \in DOMAIN turns /\ turns[receipt.turn].msg = receipt.msg
  /\ receipt.stage = "completed" => turns[receipt.turn].status = "completed"
  /\ receipt.stage = "continuation_ready" =>
       turns[receipt.turn].status \in {"overloaded", "interrupted"}
  /\ supervisor.status = "success" => receipt.stage = "completed" /\ receipt.turn = Len(turns)

\* The receipt names a message that the history does not have: nothing is resent,
\* and nothing ends the wait but the user.
Ambiguous ==
  /\ receipt.stage = "submitting" /\ adapter.pc \in {"check", "pause"} /\ request = NoRequest
  /\ ~\E n \in DOMAIN turns : turns[n].msg = receipt.msg

\* The supervision of an agent comes to an end, with its worker or with a result,
\* unless the receipt of its input is ambiguous; a stop is obeyed also then.
ExecutionSettles ==
  /\ supervisor.pc \in {"start", "watch"} ~> (supervisor.pc \in {"done", "dead"} \/ Ambiguous)
  /\ stop ~> (supervisor.pc \in {"done", "dead"} /\ adapter.pc = "none")

-----------------------------------------------------------------------------
(* What makes the receipt's truth inductive.                                *)

Stages == RetainedStages \cup {"ready", "blocked", "stopped"}
Kinds == {"prompt", "continue"}
Exits == {"none", "ok", "again", "failed"}
AdapterSteps ==
  {"none", "connect", "check", "submit", "send", "await", "run", "pause", "backoff", "closing"}

Turn == [msg : Nat, kind : Kinds, status : TurnStatuses]
AdapterState ==
  [pc : AdapterSteps, turn : Nat, exit : Exits,
   outcome : {"none", "success", "failed", "blocked", "stopped"}, kind : Kinds \cup {"none"}]
Message == [kind : {"started", "accepted", "ended", "rejected"}, turn : Nat, passing : BOOLEAN]

ExecutionTypeOK ==
  /\ receipt \in [stage : Stages, turn : Nat, msg : Nat]
  /\ turns \in Seq(Turn) /\ events \in Seq(Message)
  /\ server \in {"none", "up", "exiting"}
  /\ request \in [msg : Nat, kind : Kinds \cup {"none"}]
  /\ adapter \in AdapterState
  /\ supervisor \in [pc : {"start", "watch", "done", "dead"},
                     status : {"none", "success", "failed", "stopped"}]
  /\ stop \in BOOLEAN /\ messages \in Nat /\ incidents \in Nat

\* Every turn but the last one was left to be continued.
Passing == {"overloaded", "interrupted"}
AllPassed == \A n \in DOMAIN turns : turns[n].status \in Passing

\* Nothing is under way without a server, and an adapter that connects finds none.
ServerFits ==
  /\ \A n \in DOMAIN turns : n < Len(turns) => turns[n].status \in Passing
  /\ server # "up" =>
       request = NoRequest /\ \A n \in DOMAIN turns : turns[n].status # "inProgress"
  /\ server = "exiting" => adapter.pc = "none"
  /\ adapter.pc \in {"none", "connect"} => events = <<>>
  /\ adapter.pc = "connect" \/ supervisor.pc = "start" => server = "none"
  /\ supervisor.pc \in {"start", "done"} => adapter.pc = "none"

\* What the server has yet to read is the message of the receipt, and no turn is open.
RequestFits ==
  request # NoRequest =>
    /\ adapter.pc \in {"await", "closing", "none"} /\ adapter.turn = 0
    /\ request.msg = receipt.msg /\ request.kind \in Kinds
    /\ events = <<>> /\ AllPassed

\* What the adapter has yet to read is about the last turn.
EventsFit ==
  \A i \in DOMAIN events : events[i].kind # "rejected" =>
    /\ turns # <<>> /\ events[i].turn = Len(turns)
    /\ events[i].kind \in {"started", "accepted"} => turns[Len(turns)].msg = receipt.msg
    /\ events[i].kind = "ended" => turns[Len(turns)].status # "inProgress"

ReceiptFits ==
  /\ receipt.msg = messages
  /\ receipt.stage = "ready" => turns = <<>> /\ messages = 0 /\ request = NoRequest
  /\ receipt.stage = "submitting" => receipt.turn = 0
  /\ receipt.stage \in {"accepted", "continuation_ready", "completed"} => receipt.turn # 0
  /\ turns # <<>> \/ request # NoRequest \/ adapter.pc = "send" => messages # 0

\* What may be submitted, and what the adapter believes of its turn.
AdapterFits ==
  /\ adapter.pc \in {"submit", "send"} =>
       /\ events = <<>> /\ request = NoRequest /\ AllPassed
       /\ adapter.turn = 0 /\ adapter.kind \in Kinds
  /\ adapter.pc = "submit" =>
       (adapter.kind = "prompt" <=> messages = 0) /\ (adapter.kind = "prompt" <=> turns = <<>>)
  /\ adapter.pc = "send" =>
       (adapter.kind = "prompt" <=> messages = 1) /\ (adapter.kind = "prompt" <=> turns = <<>>)
  /\ adapter.turn # 0 =>
       /\ adapter.turn = receipt.turn /\ adapter.turn = Len(turns)
       /\ receipt.stage \notin {"ready", "submitting"}
  /\ adapter.exit = "ok" => adapter.turn # 0 /\ receipt.stage = "completed"
  /\ adapter.pc \notin {"closing", "none"} => adapter.outcome = "none"

\* Success is reported of the last turn, after which none is submitted.
SuccessFits ==
  /\ adapter.outcome = "success" \/ supervisor.status = "success" =>
       receipt.stage = "completed" /\ receipt.turn = Len(turns) /\ request = NoRequest
  /\ supervisor.status = "success" => supervisor.pc = "done"

ExecutionInv ==
  /\ ExecutionTypeOK /\ ReceiptIsTrue
  /\ ServerFits /\ RequestFits /\ EventsFit /\ ReceiptFits /\ AdapterFits /\ SuccessFits
=============================================================================

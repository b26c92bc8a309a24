---------------------------- MODULE AgentQuestions ----------------------------
(***************************************************************************)
(* What an agent asks the user while it executes, and the way of the       *)
(* answers: agent_questions.py, the questions in codex_app_server.py, and  *)
(* async_answers.py.  A request is asked and answered over one connection  *)
(* to the native server and dies with it.  An async question stays in the  *)
(* run's store: its answer is steered into the turn that asked, or, when   *)
(* the agent has succeeded and is idle, handed to its thread by a worker   *)
(* of its own.  An answer reaches the agent at most once.                  *)
(***************************************************************************)
EXTENDS AgentExecution

CONSTANTS
  Requests,   \* questions that the native server waits for
  Asyncs      \* questions that it does not wait for

ASSUME AgentQuestionsAssumption == Requests \cap Asyncs = {}

Questions == Requests \cup Asyncs

VARIABLES
  rows,      \* the two stores, as one
  owner,     \* the adapter's QuestionOwner: its id while it holds the lease, or 0
  owners,    \* owners so far
  handed,    \* answers that deliver_answers took and did not write yet
  written,   \* the one it wrote and did not mark yet
  wire,      \* answers that the server has not read
  replies,   \* what the server says about questions, on its way to the adapter
  steering,  \* async answers whose reply the adapter waits for
  deferred,  \* async answers that this server refused
  idle,      \* the worker that delivers to an idle agent
  archived,  \* async questions with an archive directory
  got        \* how often the agent took each answer

deliveryVars == <<handed, written, wire, replies, steering, deferred>>
questionVars == <<rows, owner, owners, deliveryVars, idle, archived, got>>
agentVars == <<executionVars, questionVars>>

NoRow == [state |-> "none", delivery |-> "none", turn |-> 0, owner |-> 0]
NotIdle == [pc |-> "none", question |-> "none"]

QuestionsInit ==
  /\ ExecutionInit
  /\ rows = [q \in Questions |-> NoRow]
  /\ owner = 0 /\ owners = 0
  /\ handed = {} /\ written = {} /\ wire = {} /\ replies = {} /\ steering = {} /\ deferred = {}
  /\ idle = NotIdle /\ archived = {}
  /\ got = [q \in Questions |-> 0]

Open(q) == rows[q].state = "open"

\* Mutant: a dead owner is not noticed.
ShownAsStored(q) == rows[q].delivery

\* _record: what a client is shown of the delivery.
Shown(q) ==
  IF rows[q].delivery = "sending" /\ owner = 0 /\ idle.question # q THEN "unknown"
  ELSE rows[q].delivery

\* Rows of requests of some owners when one goes or comes: what was on its way may have
\* arrived.
Invalidated(of) == [q \in Questions |->
  IF q \in Requests /\ Open(q) /\ rows[q].owner \in of
  THEN [rows[q] EXCEPT !.state = "invalidated",
                       !.delivery = IF @ \in {"sending", "sent"} THEN "unknown" ELSE @]
  ELSE rows[q]]

-----------------------------------------------------------------------------
(* Questions and answers.                                                   *)

Running == adapter.pc \in {"await", "run"} /\ adapter.turn # 0 /\ adapter.exit = "none"

InTurn == server = "up" /\ turns # <<>> /\ Last(turns).status = "inProgress"

\* handle of a question of the active turn; QuestionOwner at the first one.
Ask(q) ==
  /\ Running /\ InTurn /\ adapter.turn = Len(turns)
  /\ rows[q].state = "none" /\ handed = {} /\ written = {}
  /\ owner' = IF owner = 0 THEN owners + 1 ELSE owner
  /\ owners' = IF owner = 0 THEN owners + 1 ELSE owners
  /\ rows' = [(IF owner = 0 THEN Invalidated(1..owners) ELSE rows) EXCEPT ![q] =
       [NoRow EXCEPT !.state = "open", !.turn = adapter.turn, !.owner = owner']]
  /\ adapter' = Emitted(adapter) /\ Incident
  /\ UNCHANGED <<receipt, turns, server, request, events, supervisor, stop, messages>>
  /\ UNCHANGED <<deliveryVars, idle, archived, got>>

\* answer_question and QuestionStore.answer.
AnswerQuestion(q) ==
  /\ Open(q) /\ rows[q].delivery = "none" /\ ~stop
  /\ \/ q \in Requests /\ owner # 0 /\ supervisor.pc # "done"
     \/ q \in Asyncs /\ supervisor.status \in {"none", "success"}
  /\ rows' = [rows EXCEPT ![q].delivery = "queued"]
  /\ UNCHANGED <<owner, owners, deliveryVars, idle, archived, got, executionVars>>

-----------------------------------------------------------------------------
(* deliver_answers, which the adapter runs whenever it reads.               *)

\* take_answers: all that is queued for this owner.
TakeAnswers ==
  /\ Connected /\ owner # 0 /\ handed = {} /\ written = {}
  /\ handed' = {q \in Requests : Open(q) /\ rows[q].owner = owner /\ rows[q].delivery = "queued"}
  /\ handed' # {}
  /\ rows' = [q \in Questions |->
       IF q \in handed' THEN [rows[q] EXCEPT !.delivery = "sending"] ELSE rows[q]]
  /\ UNCHANGED <<owner, owners, written, wire, replies, steering, deferred, idle, archived, got,
                 executionVars>>

\* Mutant: an answer that is on its way is still queued.
TakeAsyncUnclaimed(q) ==
  /\ Connected /\ owner # 0 /\ handed = {} /\ written = {} /\ adapter.exit = "none"
  /\ q \in Asyncs \ deferred /\ Open(q) /\ rows[q].delivery = "queued"
  /\ rows[q].turn = adapter.turn
  /\ handed' = {q}
  /\ UNCHANGED <<rows, owner, owners, written, wire, replies, steering, deferred, idle, archived,
                 got, executionVars>>

\* queued_async and async_delivery: only for the turn that asked.
TakeAsync(q) ==
  /\ Connected /\ owner # 0 /\ handed = {} /\ written = {} /\ adapter.exit = "none"
  /\ q \in Asyncs \ deferred /\ Open(q) /\ rows[q].delivery = "queued"
  /\ rows[q].turn = adapter.turn
  /\ rows' = [rows EXCEPT ![q].delivery = "sending"] /\ handed' = {q}
  /\ UNCHANGED <<owner, owners, written, wire, replies, steering, deferred, idle, archived, got,
                 executionVars>>

WriteAnswer(q) ==
  /\ Connected /\ ~stop /\ server = "up"
  /\ q \in handed /\ handed' = handed \ {q} /\ written = {}
  /\ wire' = wire \cup {q}
  /\ IF q \in Requests THEN written' = {q} /\ UNCHANGED steering
     ELSE steering' = steering \cup {q} /\ UNCHANGED written
  /\ UNCHANGED <<rows, owner, owners, replies, deferred, idle, archived, got, executionVars>>

\* QuestionOwner.sent.
MarkSent ==
  /\ Connected /\ written # {} /\ written' = {}
  /\ rows' = [q \in Questions |->
       IF q \in written /\ rows[q].delivery = "sending" THEN [rows[q] EXCEPT !.delivery = "sent"]
       ELSE rows[q]]
  /\ UNCHANGED <<owner, owners, handed, wire, replies, steering, deferred, idle, archived, got,
                 executionVars>>

\* Mutant: what is resolved was answered.
HandleReplyAsAnswered(r) ==
  /\ Connected /\ handed = {} /\ written = {}
  /\ r \in replies /\ replies' = replies \ {r}
  /\ LET q == r.question
     IN /\ rows' = [rows EXCEPT ![q] =
             CASE r.says = "resolved" /\ Open(q) /\ @.owner = owner ->
                    [@ EXCEPT !.state = "resolved"]
               [] r.says = "accepted" /\ @.delivery = "sending" ->
                    [@ EXCEPT !.state = "resolved", !.delivery = "sent"]
               [] r.says = "rejected" /\ @.delivery = "sending" -> [@ EXCEPT !.delivery = "queued"]
               [] OTHER -> @]
        /\ steering' = steering \ {q}
        /\ deferred' = IF r.says = "rejected" THEN deferred \cup {q} ELSE deferred
  /\ UNCHANGED <<owner, owners, handed, written, wire, idle, archived, got, executionVars>>

\* handle of what the server says about a question.
HandleReply(r) ==
  /\ Connected /\ handed = {} /\ written = {}
  /\ r \in replies /\ replies' = replies \ {r}
  /\ LET q == r.question
     IN /\ rows' = [rows EXCEPT ![q] =
             CASE r.says = "resolved" /\ Open(q) /\ @.owner = owner ->
                    [@ EXCEPT !.state = IF rows[q].delivery = "sent"
                                        THEN "resolved" ELSE "invalidated"]
               [] r.says = "accepted" /\ @.delivery = "sending" ->
                    [@ EXCEPT !.state = "resolved", !.delivery = "sent"]
               [] r.says = "rejected" /\ @.delivery = "sending" -> [@ EXCEPT !.delivery = "queued"]
               [] OTHER -> @]
        /\ steering' = steering \ {q}
        /\ deferred' = IF r.says = "rejected" THEN deferred \cup {q} ELSE deferred
  /\ UNCHANGED <<owner, owners, handed, written, wire, idle, archived, got, executionVars>>

Delivery ==
  \/ TakeAnswers \/ MarkSent
  \/ \E q \in Questions : TakeAsync(q) \/ WriteAnswer(q)
  \/ \E r \in replies : HandleReply(r)

-----------------------------------------------------------------------------
(* The execution, and what its steps do to questions.                       *)

\* QuestionOwner.close.
OwnerCloses ==
  /\ rows' = IF owner = 0 THEN rows ELSE Invalidated({owner})
  /\ owner' = 0
  /\ handed' = {} /\ written' = {} /\ steering' = {} /\ deferred' = {}

\* The lease goes with its process; the rows stay as they are.
OwnerDies ==
  /\ owner' = 0 /\ handed' = {} /\ written' = {} /\ steering' = {} /\ deferred' = {}
  /\ UNCHANGED rows

ServerForgets == wire' = {} /\ replies' = {}

\* The end of a turn invalidates its requests.
EndsQuestions ==
  /\ LET event == Head(events)
     IN rows' = [q \in Questions |->
          IF /\ event.kind = "ended" /\ owner # 0
             /\ q \in Requests /\ Open(q) /\ rows[q].owner = owner /\ rows[q].turn = event.turn
          THEN [rows[q] EXCEPT !.state = "invalidated"] ELSE rows[q]]
  /\ UNCHANGED <<owner, owners, deliveryVars, idle, archived, got>>

\* The server clears the requests of a turn that ends, and says that they are resolved.
ClearsRequests ==
  /\ replies' = IF adapter.pc = "none" THEN {} ELSE replies \cup
       [question : {q \in Requests : Open(q) /\ rows[q].turn = Len(turns) /\ got[q] = 0},
        says : {"resolved"}]
  /\ UNCHANGED <<rows, owner, owners, handed, written, wire, steering, deferred, idle, archived, got>>

AdapterStep ==
  \/ /\ Connect \/ Check \/ Submit \/ Send \/ Finish \/ EndWait
     /\ handed = {} /\ written = {} /\ UNCHANGED questionVars
  \/ Handle /\ handed = {} /\ written = {} /\ EndsQuestions
  \/ (Reconnect \/ Close) /\ OwnerCloses /\ ServerForgets /\ UNCHANGED <<owners, idle, archived, got>>
  \/ /\ Cancelled
     /\ IF adapter'.pc = "none" THEN OwnerCloses ELSE
          UNCHANGED <<rows, owner, handed, written, steering, deferred>>
     /\ UNCHANGED <<owners, wire, replies, idle, archived, got>>

\* The server takes an answer, if the turn that asked is still under way.
TakeFromWire(q) ==
  /\ server = "up" /\ q \in wire /\ wire' = wire \ {q}
  /\ LET taken == InTurn /\ rows[q].turn = Len(turns)
         says == CASE ~taken -> "rejected" [] taken /\ q \in Requests -> "resolved"
                   [] OTHER -> "accepted"
     IN /\ got' = IF taken THEN [got EXCEPT ![q] = @ + 1] ELSE got
        /\ replies' = IF adapter.pc = "none" \/ (q \in Requests /\ ~taken) THEN replies
                      ELSE replies \cup {[question |-> q, says |-> says]}
  /\ UNCHANGED <<rows, owner, owners, handed, written, steering, deferred, idle, archived,
                 executionVars>>

ServerStep ==
  \/ (Accept \/ Reject) /\ UNCHANGED questionVars
  \/ EndTurn /\ ClearsRequests
  \/ OrphanExits /\ ServerForgets
       /\ UNCHANGED <<rows, owner, owners, handed, written, steering, deferred, idle, archived, got>>
  \/ \E q \in Questions : TakeFromWire(q)

SupervisorStep ==
  \/ StartAdapter /\ idle.pc = "none" /\ UNCHANGED questionVars
  \/ AdapterExited /\ UNCHANGED questionVars
  \/ StopAgent /\ OwnerDies /\ ServerForgets /\ UNCHANGED <<owners, idle, archived, got>>

Faults ==
  \/ AdapterDies /\ OwnerDies /\ replies' = {} /\ UNCHANGED <<owners, wire, idle, archived, got>>
  \/ ServerDies /\ wire' = {}
       /\ UNCHANGED <<rows, owner, owners, handed, written, replies, steering, deferred, idle,
                      archived, got>>
  \/ SupervisorDies /\ UNCHANGED questionVars

-----------------------------------------------------------------------------
(* Delivery to an agent that is idle.                                       *)

\* _dispatch_idle_async_answer, which spawns a worker for one answer.
DispatchIdle(q) ==
  /\ idle.pc = "none" /\ q \in Asyncs /\ Open(q) /\ rows[q].delivery = "queued"
  /\ supervisor = [pc |-> "done", status |-> "success"] /\ ~stop
  /\ receipt.stage = "completed" /\ server = "none" /\ q \notin archived
  /\ idle' = [pc |-> "archive", question |-> q]
  /\ UNCHANGED <<rows, owner, owners, deliveryVars, archived, got, executionVars>>

\* _deliver_idle_answer: the archive's directory, the claim, then run_one_agent.
ArchiveIdle ==
  /\ idle.pc = "archive"
  /\ archived' = archived \cup {idle.question}
  /\ idle' = [idle EXCEPT !.pc = "claim"]
  /\ UNCHANGED <<rows, owner, owners, deliveryVars, got, executionVars>>

ClaimIdle ==
  /\ idle.pc = "claim"
  /\ IF rows[idle.question].delivery = "queued"
     THEN /\ rows' = [rows EXCEPT ![idle.question].delivery = "sending"]
          /\ idle' = [idle EXCEPT !.pc = "run"]
     ELSE idle' = NotIdle /\ UNCHANGED rows
  /\ UNCHANGED <<owner, owners, deliveryVars, archived, got, executionVars>>

\* The thread takes the answer as a turn, or the execution fails before.
RunIdle ==
  /\ idle.pc = "run"
  /\ \/ got' = [got EXCEPT ![idle.question] = @ + 1] /\ idle' = [idle EXCEPT !.pc = "started"]
        /\ UNCHANGED rows
     \/ rows' = [rows EXCEPT ![idle.question].delivery = "unknown"] /\ idle' = NotIdle
        /\ UNCHANGED got
  /\ UNCHANGED <<owner, owners, deliveryVars, archived, executionVars>>

\* The event turn.started, or the end of the execution if that is lost.
EndIdle ==
  /\ idle.pc = "started"
  /\ \E delivery \in {"sent", "unknown"} :
       rows' = [rows EXCEPT ![idle.question].delivery = delivery,
                            ![idle.question].state = IF delivery = "sent" THEN "resolved" ELSE @]
  /\ idle' = NotIdle
  /\ UNCHANGED <<owner, owners, deliveryVars, archived, got, executionVars>>

IdleDies ==
  /\ idle.pc # "none" /\ incidents < MaxIncidents /\ incidents' = incidents + 1
  /\ idle' = NotIdle
  /\ UNCHANGED <<rows, owner, owners, deliveryVars, archived, got, receipt, turns, server, request,
                 events, adapter, supervisor, stop, messages>>

IdleStep ==
  \/ \E q \in Asyncs : DispatchIdle(q)
  \/ ArchiveIdle \/ ClaimIdle \/ RunIdle \/ EndIdle

QuestionsNext ==
  \/ AdapterStep \/ ServerStep \/ SupervisorStep \/ Faults \/ Delivery \/ IdleStep \/ IdleDies
  \/ (Resume \/ Stop) /\ UNCHANGED questionVars
  \/ \E q \in Questions : Ask(q) \/ AnswerQuestion(q)

\* As in AgentExecution; a request that is never answered may keep its turn for ever.
QuestionsFairness ==
  /\ WF_agentVars(AdapterStep) /\ WF_agentVars(ServerStep) /\ WF_agentVars(SupervisorStep)
  /\ WF_agentVars(Delivery) /\ WF_agentVars(IdleStep)

QuestionsSpec == QuestionsInit /\ [][QuestionsNext]_agentVars /\ QuestionsFairness

-----------------------------------------------------------------------------
(* Properties.                                                              *)

\* An answer reaches the agent at most once, and that of a request never another
\* connection than the one it was asked over.
AnswersReachOnce ==
  /\ \A q \in Questions : got[q] <= 1
  /\ \A q \in wire \cap Requests : owner \in {0, rows[q].owner}

\* What is shown as received was, but for one case: the server says "resolved" also
\* when the turn ended before it read an answer that had been written.
ReceivedIsTrue ==
  \A q \in Questions : rows[q].state = "resolved" =>
    \/ got[q] = 1
    \/ q \in Requests /\ rows[q].delivery = "sent" /\ turns[rows[q].turn].status # "inProgress"

\* No answer is shown as on its way for ever.  One that was committed for later is
\* delivered to the idle agent, unless the run ended otherwise or an earlier
\* delivery died between its archive and its claim.
AnswersSettle ==
  \A q \in Questions :
    /\ Shown(q) = "sending" ~> Shown(q) # "sending"
    /\ (q \in Asyncs /\ rows[q].delivery = "queued") ~>
         (\/ rows[q].delivery # "queued" \/ q \in archived \/ stop
          \/ supervisor.pc # "done" \/ supervisor.status # "success")

-----------------------------------------------------------------------------
(* What makes the properties of answers inductive.                          *)

Row == [state : {"none", "open", "resolved", "invalidated"},
        delivery : {"none", "queued", "sending", "sent", "unknown"}, turn : Nat, owner : Nat]

QuestionsTypeOK ==
  /\ rows \in [Questions -> Row]
  /\ owner \in Nat /\ owners \in Nat
  /\ handed \subseteq Questions /\ wire \subseteq Questions
  /\ replies \subseteq [question : Requests, says : {"resolved"}]
                      \cup [question : Asyncs, says : {"accepted", "rejected"}]
  /\ idle \in [pc : {"none", "archive", "claim", "run", "started"}, question : Asyncs \cup {"none"}]
  /\ idle.pc # "none" => idle.question \in Asyncs
  /\ got \in [Questions -> Nat]

\* The server's reply to an async answer is on its way, or the idle worker has the answer.
Replied(q) == q \in Asyncs /\ \E r \in replies : r.question = q
WithIdle(q) == idle.question = q /\ idle.pc \in {"run", "started"}

RowsFit ==
  \A q \in Questions :
    /\ rows[q].state = "none" => rows[q].delivery = "none" /\ \A r \in replies : r.question # q
    /\ rows[q].state # "none" => rows[q].turn \in DOMAIN turns

\* An answer is in one place, and nobody has one that can still be taken.
OnePlace ==
  \A q \in Questions :
    /\ rows[q].delivery \in {"none", "queued"} \/ q \in handed \/ q \in wire => got[q] = 0
    /\ rows[q].delivery \in {"none", "queued"} => q \notin handed /\ q \notin wire
    /\ rows[q].delivery \in {"none", "queued"} \/ q \in handed \/ q \in wire =>
         ~Replied(q) /\ ~WithIdle(q)
    /\ q \in handed => q \notin wire
    /\ Replied(q) => ~WithIdle(q)
    /\ WithIdle(q) => got[q] = IF idle.pc = "run" THEN 0 ELSE 1

\* What the server says is true, but for a request whose turn ended.
RepliesFit ==
  \A r \in replies :
    /\ r.says = "accepted" => got[r.question] = 1
    /\ r.says = "rejected" => got[r.question] = 0
    /\ r.says = "resolved" =>
         got[r.question] = 1 \/ turns[rows[r.question].turn].status # "inProgress"

\* An answer to a request is written over the connection of its owner, and the next
\* owner comes with a server that has read nothing.
ConnectionFits ==
  /\ \A q \in handed : owner # 0 /\ (q \in Requests => rows[q].owner = owner)
  /\ server # "up" => wire = {}
  /\ owner = 0 /\ wire \cap Requests # {} => adapter.pc = "none"

QuestionsInv ==
  /\ QuestionsTypeOK /\ AnswersReachOnce /\ ReceivedIsTrue
  /\ RowsFit /\ OnePlace /\ RepliesFit /\ ConnectionFits

AgentInv == ExecutionInv /\ QuestionsInv
=============================================================================

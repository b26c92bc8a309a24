---------------------------- MODULE FollowUpQueue ----------------------------
(***************************************************************************)
(* The follow-up queue of one workspace (remote/follow_up_queue.py), with    *)
(* the parts of the daemon it meets: the workspace registry's last_run_id,   *)
(* the runs a message continues from, turns.continue (remote/controller.py,  *)
(* plugin_runtime.py) and the command journal's records of the queue's own   *)
(* client.                                                                   *)
(*                                                                         *)
(* The coordinator works without a lock: it copies the queue, reads the      *)
(* registry and the run, and only then changes the queue, while clients edit *)
(* the queue, other clients start turns and the daemon may die.  Each of     *)
(* those reads and writes is a step of its own here.                         *)
(*                                                                         *)
(* The queue's generation is abstracted to one bit: nothing has changed the  *)
(* queue since the coordinator's copy (fresh).  Times are not modelled: a    *)
(* countdown that is running may be found over or not over.                  *)
(***************************************************************************)
EXTENDS Naturals, Sequences, FiniteSets

CONSTANTS
  Items,       \* ids of queued messages
  Texts,       \* prompts, with every setting except follow_up_delay
  Delays,      \* follow_up_delay: "now" is zero
  Agents,      \* agent numbers, from 1
  Results,    \* how the agents of a settled run may stand
  None,        \* no message, no claim, no command
  MaxRuns, MaxAttempt, MaxEdits, MaxCrashes   \* bounds

ASSUME QueueAssumption ==
  /\ Agents \subseteq Nat \ {0}
  /\ Delays \subseteq {"now", "later"}
  /\ Results \subseteq [eligible : SUBSET Agents, rejected : SUBSET Agents,
                         preferred : Agents \cup {0}, terminal : BOOLEAN]
  /\ MaxRuns \in Nat \ {0} /\ MaxAttempt \in Nat /\ MaxEdits \in Nat /\ MaxCrashes \in Nat

Runs == 1..MaxRuns
Attempts == 0..MaxAttempt

\* follow-up-<id>-attempt-<n>, the command id under which a message is sent.
Commands == Items \X Attempts

\* The saved body of a dispatch: source run, source agent and the message.
Bodies == [run : Runs, agent : Agents, text : Texts, delay : Delays]

\* Why an item is paused: the conversation changed, its turn was stopped, its
\* command failed, or something else stands in its way.
Holds == {"none", "changed", "stopped", "unsent", "blocked"}

QueueItems == [id : Items, text : Texts, delay : Delays, attempt : Attempts,
               hold : Holds, claim : Bodies \cup {None}]

NewItem(i, t, d, n) ==
  [id |-> i, text |-> t, delay |-> d, attempt |-> n, hold |-> "none", claim |-> None]

\* The messages a client may send.
Messages == {NewItem(i, t, d, n) : i \in Items, t \in Texts, d \in Delays, n \in Attempts}

\* The ids of a list of messages are distinct.
Distinct(list) == \A j, k \in 1..Len(list) : list[j].id = list[k].id => j = k

\* The command of a turn, as its run saves it: the id and the whole body.
Submissions == [id : Commands, body : Bodies]

ASSUME NoneAssumption ==
  None \notin Items /\ None \notin Bodies /\ None \notin Submissions /\ None \notin QueueItems

VARIABLES
  queue,     \* the stored queue of the workspace
  runs,      \* the saved runs of the workspace, by number
  registry,  \* last_run_id of the workspace
  journal,   \* the journal's records of the commands of pcrd-follow-up
  worker,    \* the coordinator's pass over this workspace
  fresh,     \* nothing has changed the queue since the worker's copy
  call,      \* the client request that is being handled
  foreign,   \* another client's new run, saved but not yet registered
  up,        \* the daemon is running
  edits, crashes   \* client requests and crashes so far

vars == <<queue, runs, registry, journal, worker, fresh, call, foreign, up, edits, crashes>>

NoSnap == [run |-> 0, selected |-> 0, source |-> "none", deadline |-> FALSE, head |-> None]
Resting == [pc |-> "idle", snap |-> NoSnap, agent |-> 0, next |-> 0, why |-> "none"]
NoCall == [op |-> "none", run |-> 0, agent |-> 0, item |-> None, ancestors |-> {}]
NoRecord == [status |-> "none", body |-> None, outcome |-> "unknown"]

PassPoints == {"idle", "compare", "inspect", "pause", "complete", "wait", "countdown", "claim",
               "execute", "admit", "adopting", "commit", "register", "finish", "raised"}

AgentOrNone == Agents \cup {0}
Sources == {"none", "manual", "automatic"}

Queues == [run : 0..MaxRuns, conv : 0..MaxRuns, items : Seq(QueueItems),
           selected : AgentOrNone, source : Sources,
           state : {"idle", "waiting", "countdown", "dispatching", "paused"},
           deadline : BOOLEAN, done : Items \cup {None}]

SavedRuns == [from : 0..MaxRuns, agent : AgentOrNone, conv : Runs,
               status : {"active", "settled", "finalizing", "finalized", "unsafe"},
               outcome : Results, saving : AgentOrNone, finalized : AgentOrNone,
               command : Submissions \cup {None}]

JournalRecords == [status : {"none", "started", "retryable", "completed", "failed"},
                   body : Bodies \cup {None}, outcome : {"unknown", "not_applied"}]

Passes == [pc : PassPoints,
           snap : [run : 0..MaxRuns, selected : AgentOrNone, source : Sources,
                   deadline : BOOLEAN, head : QueueItems \cup {None}],
           agent : AgentOrNone, next : 0..MaxRuns,
           why : Holds \cup {"final", "retry"}]

\* A run that is adopted says by which agent, and one that is being adopted too.
RunFits(r) ==
  /\ r.finalized # 0 <=> r.status = "finalized"
  /\ r.status \in {"finalizing", "unsafe"} => r.saving # 0

TypeOK ==
  /\ queue \in Queues
  /\ runs \in Seq(SavedRuns) /\ Len(runs) \in Runs
  /\ \A r \in 1..Len(runs) : runs[r].from < r /\ runs[r].conv <= r /\ RunFits(runs[r])
  /\ registry \in 1..Len(runs) /\ foreign \in 0..Len(runs)
  /\ journal \in [Commands -> JournalRecords]
  /\ \A c \in Commands : journal[c].status # "none" <=> journal[c].body # None
  /\ worker \in Passes /\ (worker.pc = "idle" <=> worker = Resting)
  /\ fresh \in BOOLEAN /\ up \in BOOLEAN
  /\ call.op \in {"none", "enqueue", "select", "stop"}
  /\ call.op # "none" => call.run \in 1..Len(runs)
  /\ call.op = "enqueue" => call.item \in Messages
  /\ call.op = "select" => call.agent \in Agents
  /\ ~up => worker = Resting /\ call = NoCall /\ foreign = 0

-----------------------------------------------------------------------------
(* Reading runs and queues.                                                 *)

Known == 1..Len(runs)
Pending == queue.items # <<>>
First == queue.items[1]
Busy(r) == runs[r].status \in {"active", "finalizing"}

\* _eligible_agents: can_accept, or can_continue of the finalized agent.
Eligible(r) ==
  CASE runs[r].status = "finalized" -> {runs[r].finalized}
    [] runs[r].status = "settled" -> runs[r].outcome.eligible
    [] OTHER -> {}

\* _source_agent: the adopted result, then a deliberate choice, then, among
\* the agents that were not rejected, the earlier automatic choice, the
\* recommendation and the first one; 0 when there is none.
SourceAgent(q, r) ==
  LET able == Eligible(r)
      open == able \ runs[r].outcome.rejected
  IN CASE runs[r].finalized \in able -> runs[r].finalized
       [] q.source = "manual" /\ q.selected \in able -> q.selected
       [] q.source = "automatic" /\ q.selected \in open -> q.selected
       [] runs[r].outcome.preferred \in open -> runs[r].outcome.preferred
       [] open # {} -> CHOOSE a \in open : \A b \in open : a <= b
       [] OTHER -> 0

\* The run and its ancestors in the same conversation, nearest first.
Lineage(r) ==
  LET up_[n \in 0..MaxRuns] ==
        IF n = 0 \/ n \notin Known THEN {}
        ELSE IF runs[n].conv # runs[r].conv THEN {} ELSE {n} \cup up_[runs[n].from]
  IN up_[r]

\* _follow_up_ancestors: the runs from r's parent back to the queue's anchor.
Ancestors(r) ==
  IF queue.run # r /\ queue.conv = runs[r].conv /\ queue.run \in Lineage(r)
  THEN {n \in Lineage(r) : queue.run <= n /\ n < r} ELSE {}

\* _conversation_for_update: a pending queue belongs to one conversation.
ConversationConflict(r, conv) ==
  /\ Pending /\ conv # 0
  /\ \/ queue.conv # 0 /\ queue.conv # conv
     \/ queue.conv = 0 /\ queue.run \notin {0, r}
ConversationFor(conv) == IF Pending /\ queue.conv # 0 THEN queue.conv ELSE conv

Command(item) == <<item.id, item.attempt>>
Body(r, a, item) == [run |-> r, agent |-> a, text |-> item.text, delay |-> item.delay]
Submission(c, b) == [id |-> c, body |-> b]

\* prompt_command_result: the saved runs that carry this command identity.
Started(c, b) == {r \in Known : runs[r].command = Submission(c, b)}

\* Mutant: any continuation of the source is taken for the message's own turn.
MatchesLineage(r, source, item) == runs[r].from = source

\* _matches_dispatched_follow_up: the run was started by this very message.
Matches(r, source, item) ==
  LET b == IF item.claim # None THEN item.claim ELSE Body(source, runs[r].agent, item)
  IN /\ runs[r].from = source /\ b.run = source
     /\ item.claim = None => runs[r].agent # 0
     /\ runs[r].command = Submission(Command(item), b)
     /\ b.text = item.text

-----------------------------------------------------------------------------
Init ==
  /\ queue = [run |-> 0, conv |-> 0, items |-> <<>>, selected |-> 0, source |-> "none",
              state |-> "idle", deadline |-> FALSE, done |-> None]
  /\ \E o \in Results :
       runs = <<[from |-> 0, agent |-> 0, conv |-> 1, status |-> "active", outcome |-> o,
                 saving |-> 0, finalized |-> 0, command |-> None]>>
  /\ registry = 1
  /\ journal = [c \in Commands |-> NoRecord]
  /\ worker = Resting /\ fresh = FALSE
  /\ call = NoCall /\ foreign = 0
  /\ up = TRUE /\ edits = 0 /\ crashes = 0

\* One more request of a client; the number of requests is bounded.
Request == up /\ call = NoCall /\ edits < MaxEdits /\ edits' = edits + 1

\* A client's write: the generation moves on.
Store(q) == queue' = q /\ fresh' = FALSE

-----------------------------------------------------------------------------
(* Client requests.  _follow_up_context first drops the selection when the   *)
(* request names a run that is still at work.                                *)

Unselected(q) == [q EXCEPT !.selected = 0, !.source = "none", !.deadline = FALSE]

AfterContext(r) ==
  IF /\ Busy(r) /\ queue.run = r /\ queue.state # "dispatching"
     /\ queue.selected # 0 \/ queue.source # "none"
  THEN Unselected(queue) ELSE queue

\* A request that is refused after _follow_up_context has done its part.
RefusedRequest(r) ==
  /\ Request
  /\ AfterContext(r) # queue
  /\ Store(AfterContext(r))
  /\ UNCHANGED <<runs, registry, journal, worker, call, foreign, up, crashes>>

\* replace: drop what was already completed, keep what is stored of unchanged
\* messages, and refuse to touch a head that is being sent.
Replace(r, list, reset) ==
  /\ Request
  /\ LET q == AfterContext(r)
         done == {k \in 1..Len(list) : list[k].id = q.done}
         rest == IF done = {} THEN list
                 ELSE SubSeq(list, 1 + CHOOSE k \in done : TRUE, Len(list))
         run == IF done = {} THEN r ELSE q.run
         source == IF q.run = run THEN q.source ELSE "none"
         selected == IF source = "none" THEN 0 ELSE q.selected
         same(x, y) == /\ x.id = y.id /\ x.text = y.text
                       /\ x.delay = y.delay /\ x.attempt = y.attempt
         kept(x) == LET old == {k \in 1..Len(q.items) : same(q.items[k], x)}
                    IN IF old = {} THEN x ELSE q.items[CHOOSE k \in old : TRUE]
         sending == q.state = "dispatching"
     IN /\ ~ConversationConflict(run, runs[r].conv)
        /\ sending => rest # <<>> /\ same(q.items[1], rest[1]) /\ q.selected = selected
        /\ Store([q EXCEPT
             !.run = run, !.conv = ConversationFor(runs[r].conv),
             !.items = [k \in 1..Len(rest) |-> kept(rest[k])],
             !.selected = selected, !.source = source,
             !.state = IF sending THEN "dispatching" ELSE IF rest = <<>> THEN "idle" ELSE "waiting",
             !.deadline = q.deadline /\ ~sending /\ ~reset /\ q.selected = selected])
  /\ UNCHANGED <<runs, registry, journal, worker, call, foreign, up, crashes>>

\* _followups_enqueue reads the run and the queue's anchor...
EnqueueBegin(r, item) ==
  /\ Request
  /\ queue' = AfterContext(r)
  /\ fresh' = (fresh /\ queue' = queue)
  /\ call' = [NoCall EXCEPT !.op = "enqueue", !.run = r, !.item = item,
                            !.ancestors = Ancestors(r)]
  /\ UNCHANGED <<runs, registry, journal, worker, foreign, up, crashes>>

\* ... and enqueue appends the message to whatever is stored by then.
Enqueue ==
  /\ up /\ call.op = "enqueue"
  /\ call' = NoCall
  /\ LET conv == runs[call.run].conv
         known == {queue.items[k].id : k \in 1..Len(queue.items)} \cup {queue.done}
         advanced == /\ queue.done # None /\ queue.conv = conv
                     /\ queue.run \notin call.ancestors
         anchored == Pending \/ advanced
         keep == anchored \/ queue.run = call.run
     IN IF ConversationConflict(call.run, conv) \/ call.item.id \in known
        THEN UNCHANGED <<queue, fresh>>
        ELSE Store([queue EXCEPT
               !.run = IF anchored /\ queue.run # 0 THEN queue.run ELSE call.run,
               !.conv = ConversationFor(conv),
               !.items = Append(queue.items, call.item),
               !.selected = IF keep /\ queue.source # "none" THEN queue.selected ELSE 0,
               !.source = IF keep THEN queue.source ELSE "none",
               !.state = IF queue.state = "dispatching" THEN "dispatching" ELSE "waiting",
               !.deadline = Pending /\ queue.deadline])
  /\ UNCHANGED <<runs, registry, journal, worker, foreign, up, edits, crashes>>

\* The queue without its messages; the selection stays with its run.
Cleared(q, r, conv) ==
  LET keep == r = 0 \/ q.run = r
      base == IF keep THEN q ELSE Unselected(q)
  IN [base EXCEPT !.run = IF r = 0 THEN q.run ELSE r, !.conv = conv, !.items = <<>>,
                  !.selected = IF base.source = "none" THEN 0 ELSE base.selected,
                  !.state = "idle", !.deadline = FALSE]

\* clear, with the run it is about or, when r = 0, without one.
Clear(r) ==
  /\ Request
  /\ queue.state # "dispatching"
  /\ LET conv == IF r = 0 THEN 0 ELSE runs[r].conv
         q == IF r = 0 THEN queue ELSE AfterContext(r)
     IN /\ ~ConversationConflict(r, conv)
        /\ Store(Cleared(q, r, ConversationFor(conv)))
  /\ UNCHANGED <<runs, registry, journal, worker, call, foreign, up, crashes>>

\* _followups_select_agent checks that the choice is open...
SelectBegin(r, a) ==
  /\ Request
  /\ registry = r
  /\ runs[r].status \in {"settled", "finalized"} /\ runs[r].outcome.terminal
  /\ a \in Eligible(r)
  /\ call' = [NoCall EXCEPT !.op = "select", !.run = r, !.agent = a]
  /\ UNCHANGED <<queue, fresh, runs, registry, journal, worker, foreign, up, crashes>>

\* ... and select_agent records it, unless the queue has moved on.
Select ==
  /\ up /\ call.op = "select"
  /\ call' = NoCall
  /\ LET conv == runs[call.run].conv
         q == IF queue.run = call.run THEN queue ELSE Cleared(queue, call.run, conv)
     IN IF \/ ConversationConflict(call.run, conv)
           \/ Pending /\ queue.run # call.run
           \/ queue.state = "dispatching"
        THEN UNCHANGED <<queue, fresh>>
        ELSE Store([q EXCEPT !.selected = call.agent, !.source = "manual", !.deadline = FALSE,
                             !.state = IF q.items = <<>> THEN q.state ELSE "waiting"])
  /\ UNCHANGED <<runs, registry, journal, worker, foreign, up, edits, crashes>>

Held(q, why) ==
  [q EXCEPT !.items[1].hold = why, !.state = "paused", !.deadline = FALSE]

\* runs.stop: pause_for_run comes first, so that the coordinator cannot take
\* the agents that the stop is about to make eligible...
StopBegin(r) ==
  /\ Request
  /\ runs[r].status = "active"
  /\ IF queue.run = r /\ Pending
     THEN queue.state # "dispatching" /\ Store(Held(queue, "stopped"))
     ELSE UNCHANGED <<queue, fresh>>
  /\ call' = [NoCall EXCEPT !.op = "stop", !.run = r]
  /\ UNCHANGED <<runs, registry, journal, worker, foreign, up, crashes>>

\* ... and then the run stops.
Stop(o) ==
  /\ up /\ call.op = "stop"
  /\ call' = NoCall
  /\ runs' = IF runs[call.run].status = "active"
             THEN [runs EXCEPT ![call.run].status = "settled", ![call.run].outcome = o]
             ELSE runs
  /\ UNCHANGED <<queue, fresh, registry, journal, worker, foreign, up, edits, crashes>>

\* update_delay: a claimed command is immutable; only its successors change.
UpdateDelay(d) ==
  /\ Request
  /\ LET free(k) == ~(k = 1 /\ (queue.state = "dispatching" \/ First.claim # None))
         changed == {k \in 1..Len(queue.items) : free(k) /\ queue.items[k].delay # d}
     IN /\ changed # {}
        /\ Store([queue EXCEPT
             !.items = [k \in 1..Len(queue.items) |->
                          IF k \in changed THEN [queue.items[k] EXCEPT !.delay = d]
                          ELSE queue.items[k]],
             !.deadline = @ \/ (1 \in changed /\ queue.state = "countdown" /\ First.hold = "none")])
  /\ UNCHANGED <<runs, registry, journal, worker, call, foreign, up, crashes>>

-----------------------------------------------------------------------------
(* The coordinator: one pass over the workspace (process_workspace).        *)

Copy(q) == [run |-> q.run, selected |-> q.selected, source |-> q.source,
            deadline |-> q.deadline, head |-> q.items[1]]

At(pc) == up /\ worker.pc = pc
GoTo(pc) == worker' = [worker EXCEPT !.pc = pc]
Rest == worker' = Resting /\ fresh' = FALSE
PauseFor(why) == worker' = [worker EXCEPT !.pc = "pause", !.why = why]
CompleteWith(r) == worker' = [worker EXCEPT !.pc = "complete", !.next = r]

Outside == <<call, foreign, up, edits, crashes>>

\* Copy the queue.  A paused head ends the pass before it starts.
Snapshot ==
  /\ up /\ worker = Resting
  /\ Pending /\ First.hold = "none"
  /\ worker' = [worker EXCEPT !.pc = "compare", !.snap = Copy(queue)]
  /\ fresh' = TRUE
  /\ UNCHANGED <<queue, runs, registry, journal, Outside>>

\* Compare the queue's run with the workspace's last run.
Compare ==
  /\ At("compare")
  /\ IF registry = worker.snap.run THEN GoTo("inspect")
     ELSE IF Matches(registry, worker.snap.run, worker.snap.head) THEN CompleteWith(registry)
     ELSE PauseFor("changed")
  /\ UNCHANGED <<queue, fresh, runs, registry, journal, Outside>>

\* The registry or the workspace is gone; or the run cannot be read just now.
ReadFails ==
  /\ \/ At("compare") /\ PauseFor("blocked") /\ UNCHANGED fresh
     \/ At("inspect") /\ Rest
  /\ UNCHANGED <<queue, runs, registry, journal, Outside>>

\* Decide on the run as it is read: wait for it, give up, send what was
\* claimed before, count down, or claim.
Inspect ==
  /\ At("inspect")
  /\ LET s == worker.snap
         a == SourceAgent(s, s.run)
         claimed == s.head.claim # None
         counted == s.source # "none" /\ s.selected = a /\ s.deadline
         choose(pc) == worker' = [worker EXCEPT !.pc = pc, !.agent = a] /\ UNCHANGED fresh
     IN \/ Busy(s.run) /\ claimed /\ Rest
        \/ Busy(s.run) /\ ~claimed /\ GoTo("wait") /\ UNCHANGED fresh
        \/ runs[s.run].status = "unsafe" /\ PauseFor("blocked") /\ UNCHANGED fresh
        \/ /\ runs[s.run].status \in {"settled", "finalized"}
           /\ \/ claimed /\ GoTo("execute") /\ UNCHANGED fresh
              \/ /\ ~claimed /\ a = 0
                 /\ IF runs[s.run].outcome.terminal
                    THEN PauseFor("blocked") /\ UNCHANGED fresh ELSE Rest
              \/ ~claimed /\ a # 0 /\ ~counted /\ choose("countdown")
              \/ ~claimed /\ a # 0 /\ counted /\ choose("claim")
  /\ UNCHANGED <<queue, runs, registry, journal, Outside>>

\* The countdown that is running is not over yet.
StillCounting ==
  /\ At("claim") /\ worker.snap.deadline /\ worker.snap.head.delay = "later"
  /\ Rest
  /\ UNCHANGED <<queue, runs, registry, journal, Outside>>

\* Mutant: only the message is compared, as when the queue is paused.
HeadMatchesById == Pending /\ First.id = worker.snap.head.id

\* _head_matches: the same generation, and the head is not paused.
HeadMatches == fresh /\ Pending /\ First.hold = "none"

\* The run is at work: drop the countdown and an early choice of agent.
Wait ==
  /\ At("wait")
  /\ queue' = IF HeadMatches THEN [Unselected(queue) EXCEPT !.state = "waiting"] ELSE queue
  /\ Rest
  /\ UNCHANGED <<runs, registry, journal, Outside>>

\* Mutant: the time at which the countdown ends is not stored, so that every
\* pass starts it anew.
CountdownWithoutDeadline ==
  /\ At("countdown")
  /\ queue' = IF HeadMatches
              THEN [queue EXCEPT !.selected = worker.agent, !.state = "countdown",
                                 !.source = IF @ = "manual" THEN "manual" ELSE "automatic"]
              ELSE queue
  /\ Rest
  /\ UNCHANGED <<runs, registry, journal, Outside>>

\* start_countdown.  The pass ends here unless the delay it copied is zero; it
\* then goes on with the queue as stored now, whose state is "countdown".
Countdown ==
  /\ At("countdown")
  /\ queue' = IF HeadMatches
              THEN [queue EXCEPT !.selected = worker.agent, !.state = "countdown",
                                 !.source = IF @ = "manual" THEN "manual" ELSE "automatic",
                                 !.deadline = TRUE]
              ELSE queue
  /\ IF queue'.state = "countdown" /\ worker.snap.head.delay = "now"
     THEN worker' = [worker EXCEPT !.pc = "claim", !.snap = [Copy(queue') EXCEPT !.deadline = FALSE]]
          /\ fresh' = TRUE
     ELSE Rest
  /\ UNCHANGED <<runs, registry, journal, Outside>>

\* Mutant: a claim leaves the queue's state as it was.
ClaimUnmarked ==
  /\ At("claim")
  /\ LET saved == Body(worker.snap.run, worker.agent, worker.snap.head)
     IN IF HeadMatches
        THEN /\ queue' = [queue EXCEPT !.items[1].claim = saved, !.deadline = FALSE]
             /\ worker' = [worker EXCEPT !.pc = "execute", !.snap.head.claim = saved]
             /\ UNCHANGED fresh
        ELSE Rest /\ UNCHANGED queue
  /\ UNCHANGED <<runs, registry, journal, Outside>>

\* claim: save the dispatch before anything is sent.
Claim ==
  /\ At("claim")
  /\ LET saved == Body(worker.snap.run, worker.agent, worker.snap.head)
     IN IF HeadMatches
        THEN /\ queue' = [queue EXCEPT !.items[1].claim = saved, !.state = "dispatching",
                                       !.deadline = FALSE]
             /\ worker' = [worker EXCEPT !.pc = "execute", !.snap.head.claim = saved]
             /\ UNCHANGED fresh
        ELSE Rest /\ UNCHANGED queue
  /\ UNCHANGED <<runs, registry, journal, Outside>>

\* _pause: only if this message still heads the queue of this run.
Pause ==
  /\ At("pause")
  /\ queue' = IF Pending /\ queue.run = worker.snap.run /\ First.id = worker.snap.head.id
              THEN Held(queue, worker.why) ELSE queue
  /\ Rest
  /\ UNCHANGED <<runs, registry, journal, Outside>>

\* The queue after its head was turned into run r.
Advanced(r) ==
  [Unselected(queue) EXCEPT
     !.items = Tail(queue.items), !.run = r, !.done = First.id,
     !.state = IF Len(queue.items) > 1 THEN "waiting" ELSE "idle"]

\* _complete: only if this message still heads the queue.
Complete ==
  /\ At("complete")
  /\ queue' = IF Pending /\ First.id = worker.snap.head.id THEN Advanced(worker.next) ELSE queue
  /\ Rest
  /\ UNCHANGED <<runs, registry, journal, Outside>>

-----------------------------------------------------------------------------
(* turns.continue of the claimed message, through the command journal.      *)

cmd == Command(worker.snap.head)
body == worker.snap.head.claim

Raise(why) == worker' = [worker EXCEPT !.pc = "raised", !.why = why]

\* The handler raised: the journal keeps the record that its error deserves.
\* An unforeseen error fails the record, and yet the queue retries it.
Fails(outcome, why) ==
  /\ journal' = [journal EXCEPT ![cmd] = [status |-> "failed", body |-> body,
                                          outcome |-> outcome]]
  /\ Raise(why)
FailsRetryably ==
  /\ journal' = [journal EXCEPT ![cmd].status = "retryable"]
  /\ Raise("retry")

\* Mutant: the command is sent whatever the journal knows of it.
ExecuteUnprotected ==
  /\ At("execute")
  /\ journal' = [journal EXCEPT ![cmd] = [status |-> "started", body |-> body,
                                          outcome |-> "unknown"]]
  /\ GoTo("admit")
  /\ UNCHANGED <<queue, fresh, runs, registry, Outside>>

\* CommandJournal.execute: recover, refuse or start.  The id may have been used
\* for another body, and what was started or failed before is not repeated.
Execute ==
  /\ At("execute")
  /\ LET record == journal[cmd]
         conflict == record.status # "none" /\ record.body # body
         done == Started(cmd, body)
         refused == conflict \/ (done = {} /\ record.status \in {"started", "failed"})
         keep(status) == journal' = [journal EXCEPT ![cmd] =
                                       [status |-> status, body |-> body, outcome |-> "unknown"]]
     IN \/ refused /\ Raise("final") /\ UNCHANGED journal
        \/ ~refused /\ done # {} /\ keep("completed") /\ \E r \in done : CompleteWith(r)
        \/ ~refused /\ done = {} /\ keep("started") /\ GoTo("admit")
  /\ UNCHANGED <<queue, fresh, runs, registry, Outside>>

\* Runs whose filesystem work, or whose open result, holds up a continuation of
\* a run that is not the workspace's last one.
Unsettled == {r \in Known : Busy(r) \/ runs[r].status = "unsafe"}
Undecided == runs[registry].status = "settled" /\ Eligible(registry) # {}

\* _prompt_admission, _ensure_continuation_context and the first part of
\* _continue_from_agent, up to the adoption of the source agent.
Admit ==
  /\ At("admit")
  /\ LET r == body.run
         status == runs[r].status
         others == IF registry = r THEN {} ELSE Unsettled
         undecided == registry # r /\ Undecided
         waits == foreign # 0 \/ (~undecided /\ \E b \in others : Busy(b))
         refused == foreign = 0 /\ (undecided \/ \E b \in others : ~Busy(b))
         open == foreign = 0 /\ others = {} /\ ~undecided
         able == body.agent \in runs[r].outcome.eligible
         changed == \/ status = "unsafe"
                    \/ status = "settled" /\ runs[r].saving # 0
                    \/ status = "finalizing" /\ runs[r].saving # body.agent
                    \/ status = "finalized" /\ runs[r].finalized # body.agent
     IN \/ waits /\ FailsRetryably /\ UNCHANGED runs
        \/ refused /\ Fails("not_applied", "final") /\ UNCHANGED runs
        \/ open /\ changed /\ Fails("not_applied", "final") /\ UNCHANGED runs
        \/ /\ open /\ ~changed /\ status \in {"active", "finalizing"}
           /\ FailsRetryably /\ UNCHANGED runs
        \/ /\ open /\ ~changed /\ status = "finalized"
           /\ GoTo("commit") /\ UNCHANGED <<runs, journal>>
        \/ /\ open /\ ~changed /\ status \in {"active", "settled"} /\ ~able
           /\ Fails("unknown", "final") /\ UNCHANGED runs
        \/ /\ open /\ ~changed /\ status \in {"active", "settled"} /\ able
           /\ runs' = [runs EXCEPT ![r].status = "finalizing", ![r].saving = body.agent]
           /\ GoTo("adopting") /\ UNCHANGED journal
  /\ UNCHANGED <<queue, fresh, registry, Outside>>

\* Mutant: an adoption that is still under way counts as done.
AdoptedEarly ==
  /\ At("adopting")
  /\ LET status == runs[body.run].status
     IN \/ status \in {"finalized", "finalizing"} /\ GoTo("commit") /\ UNCHANGED journal
        \/ status \in {"settled", "unsafe"} /\ Fails("unknown", "final")
  /\ UNCHANGED <<queue, fresh, runs, registry, Outside>>

\* accept_agent waits for the persistent worker, but not for ever.
Adopted ==
  /\ At("adopting")
  /\ LET status == runs[body.run].status
     IN \/ status = "finalized" /\ GoTo("commit") /\ UNCHANGED journal
        \/ status = "finalizing" /\ FailsRetryably
        \/ status \in {"settled", "unsafe"} /\ Fails("unknown", "final")
  /\ UNCHANGED <<queue, fresh, runs, registry, Outside>>

NewRun(from, agent, command, o) ==
  [from |-> from, agent |-> agent, status |-> "active", outcome |-> o, saving |-> 0,
   conv |-> IF from = 0 THEN Len(runs) + 1 ELSE runs[from].conv,
   finalized |-> 0, command |-> command]

\* start_run saves the run that carries the command identity, or refuses.
Commit ==
  /\ At("commit")
  /\ \/ /\ Len(runs) < MaxRuns
        /\ \E o \in Results :
             runs' = Append(runs, NewRun(body.run, body.agent, Submission(cmd, body), o))
        /\ worker' = [worker EXCEPT !.pc = "register", !.next = Len(runs) + 1]
        /\ UNCHANGED journal
     \/ Fails("unknown", "final") /\ UNCHANGED runs
  /\ UNCHANGED <<queue, fresh, registry, Outside>>

\* _update_workspace_run_context.  An error here, or in spawning the worker of
\* the saved run, is reported although the run exists.
Register ==
  /\ At("register")
  /\ registry' = worker.next /\ GoTo("finish")
  /\ UNCHANGED <<queue, fresh, runs, journal, Outside>>
RegisterFails ==
  /\ At("register")
  /\ \E why \in {"final", "retry"} : Fails("unknown", why)
  /\ UNCHANGED <<queue, fresh, runs, registry, Outside>>

\* The journal keeps the result, and the queue is told.
Finish ==
  /\ At("finish")
  /\ journal' = [journal EXCEPT ![cmd].status = "completed"]
  /\ GoTo("complete")
  /\ UNCHANGED <<queue, fresh, runs, registry, Outside>>

\* Mutant: a transient failure drops the claim and counts down again.
RaisedForgetsClaim ==
  /\ At("raised")
  /\ queue' = IF Pending /\ First.id = worker.snap.head.id
              THEN [queue EXCEPT !.items[1].claim = None, !.state = "waiting"] ELSE queue
  /\ Rest
  /\ UNCHANGED <<runs, registry, journal, Outside>>

\* _execute_claimed on an error: look whether the message was sent after all,
\* else keep the claim for a retry, or pause.
Raised ==
  /\ At("raised")
  /\ LET s == worker.snap
         here == Pending /\ First.id = s.head.id
         paused(why) == IF here /\ queue.run = s.run THEN Held(queue, why) ELSE queue
     IN queue' = IF registry # s.run
                 THEN IF ~Matches(registry, s.run, s.head) THEN paused("changed")
                      ELSE IF here THEN Advanced(registry) ELSE queue
                 ELSE IF worker.why # "retry" THEN paused("unsent")
                 ELSE IF here THEN [queue EXCEPT !.state = "dispatching", !.deadline = FALSE]
                 ELSE queue
  /\ Rest
  /\ UNCHANGED <<runs, registry, journal, Outside>>

-----------------------------------------------------------------------------
(* Runs, other clients, crashes.                                            *)

Others == <<queue, fresh, journal, worker, call>>

\* The run's operation lock is held while an adoption waits.
Lockable(r) == worker.pc = "adopting" => body.run # r

\* The agents of a run end.
Settle(r, o) ==
  /\ runs[r].status = "active"
  /\ runs' = [runs EXCEPT ![r].status = "settled", ![r].outcome = o]
  /\ UNCHANGED <<registry, foreign, up, edits, crashes, Others>>

Adopt(r) == [runs EXCEPT ![r].status = "finalized", ![r].finalized = runs[r].saving,
                         ![r].saving = 0]

\* A finalization ends: applied, not applied, or nobody can tell.  Unless it was
\* applied, finalizing_agent stays as it is.
FinalizeEnds(r, status) ==
  /\ runs[r].status = "finalizing"
  /\ runs' = IF status = "finalized" THEN Adopt(r) ELSE [runs EXCEPT ![r].status = status]
  /\ UNCHANGED <<registry, foreign, up, edits, crashes, Others>>

\* A client reviews or retries candidates, adopts one, or resolves an
\* interrupted finalization.
Review(r) ==
  /\ Request /\ Lockable(r)
  /\ \/ /\ runs[r].status = "settled"
        /\ \E o \in Results : runs' = [runs EXCEPT ![r].outcome = o]
     \/ /\ runs[r].status = "settled"
        /\ runs' = [runs EXCEPT ![r].status = "active"]
     \/ /\ runs[r].status = "settled"
        /\ \E a \in runs[r].outcome.eligible :
             runs' = [runs EXCEPT ![r].status = "finalizing", ![r].saving = a]
     \/ /\ runs[r].status = "unsafe"
        /\ \/ runs' = Adopt(r)
           \/ runs' = [runs EXCEPT ![r].status = "settled"]
  /\ UNCHANGED <<registry, foreign, up, crashes, Others>>

\* Another client starts a conversation, or continues one from its adopted
\* result, under the workspace's admission lock: the run is saved first...
ForeignStart(s) ==
  /\ Request /\ foreign = 0
  /\ worker.pc \notin {"adopting", "commit", "register"}
  /\ Len(runs) < MaxRuns
  /\ s # 0 => runs[s].status = "finalized"
  /\ s # registry => Unsettled = {}
  /\ s \notin {0, registry} => ~Undecided
  /\ \E o \in Results :
       runs' = Append(runs, NewRun(s, IF s = 0 THEN 0 ELSE runs[s].finalized, None, o))
  /\ foreign' = Len(runs) + 1
  /\ UNCHANGED <<registry, up, crashes, Others>>

\* ... and then it becomes the workspace's last run.
ForeignRegister ==
  /\ up /\ foreign # 0
  /\ registry' = foreign /\ foreign' = 0
  /\ UNCHANGED <<runs, up, edits, crashes, Others>>

Crash ==
  /\ up /\ crashes < MaxCrashes
  /\ up' = FALSE /\ crashes' = crashes + 1
  /\ worker' = Resting /\ fresh' = FALSE /\ call' = NoCall /\ foreign' = 0
  /\ UNCHANGED <<queue, runs, registry, journal, edits>>

Restart ==
  /\ ~up
  /\ up' = TRUE
  /\ UNCHANGED <<registry, runs, foreign, edits, crashes, Others>>

\* The lists a client may send: distinct ids.
Lists == {<<>>} \cup {<<x>> : x \in Messages}
         \cup {<<x, y>> : x \in Messages, y \in Messages}

Client ==
  \/ \E r \in Known :
       \/ RefusedRequest(r) \/ StopBegin(r)
       \/ \E list \in Lists, reset \in BOOLEAN : Distinct(list) /\ Replace(r, list, reset)
       \/ \E x \in Messages : x.attempt = 0 /\ EnqueueBegin(r, x)
       \/ \E a \in Agents : SelectBegin(r, a)
  \/ Enqueue \/ Select
  \/ \E o \in Results : Stop(o)
  \/ \E r \in {0} \cup Known : Clear(r)
  \/ \E d \in Delays : UpdateDelay(d)

Coordinator ==
  \/ Snapshot \/ Compare \/ Inspect \/ ReadFails \/ StillCounting \/ Wait \/ Countdown
  \/ Claim \/ Pause \/ Complete \/ Execute \/ Admit \/ Adopted \/ Commit
  \/ Register \/ RegisterFails \/ Finish \/ Raised

Environment ==
  \/ \E r \in Known :
       \/ \E o \in Results : Settle(r, o)
       \/ \E st \in {"finalized", "settled", "unsafe"} : FinalizeEnds(r, st)
       \/ Review(r)
  \/ \E s \in {0} \cup Known : ForeignStart(s)
  \/ ForeignRegister \/ Crash \/ Restart

Next == Client \/ Coordinator \/ Environment

Spec == Init /\ [][Next]_vars

\* The service manager restarts a dead daemon, requests under way are answered,
\* agents and finalizations end.  The coordinator polls: it reads a run in the
\* end however often a read fails, and a countdown runs out.  An adoption that
\* is tried again and again is not turned back for ever.
Fairness ==
  /\ WF_vars(Restart) /\ WF_vars(ForeignRegister)
  /\ WF_vars(Enqueue) /\ WF_vars(Select) /\ WF_vars(\E o \in Results : Stop(o))
  /\ WF_vars(\E r \in Known, o \in Results : Settle(r, o))
  /\ WF_vars(\E r \in Known, st \in {"finalized", "settled", "unsafe"} : FinalizeEnds(r, st))
  /\ SF_vars(\E r \in Known, st \in {"finalized", "unsafe"} : FinalizeEnds(r, st))
  /\ WF_vars(Coordinator) /\ SF_vars(Inspect) /\ SF_vars(Claim)

FairSpec == Spec /\ Fairness

-----------------------------------------------------------------------------
(* Properties.                                                              *)

Claimed == Pending /\ First.claim # None /\ First.hold = "none"

\* The queue is being sent exactly when its head is claimed and not paused; the
\* claim says what the head says ("a claimed command is immutable") and, as long
\* as an agent is selected, belongs to the queue's run; a claim further back
\* waits behind a pause, and so does whatever is not counted down.
ClaimsMatchQueue ==
  /\ queue.state = "dispatching" <=> Claimed
  /\ queue.state = "idle" <=> ~Pending
  /\ queue.state = "countdown" => First.hold = "none"
  /\ Claimed => /\ First.claim = Body(First.claim.run, First.claim.agent, First)
                /\ First.claim.run \in Known
                /\ queue.selected # 0 => First.claim.run = queue.run
  /\ \A k \in 2..Len(queue.items) : queue.items[k].claim # None => queue.items[k].hold # "none"

\* The messages of a queue have ids of their own, and a queue that has or had
\* messages is at a run that exists.
QueueFits ==
  /\ Distinct(queue.items)
  /\ queue.run \in {0} \cup Known
  /\ Pending \/ queue.done # None => queue.run # 0

\* The pass is about to send the message it copied, is sending it or has failed.
Sending == {"execute", "admit", "adopting", "commit", "register", "finish", "raised"}

\* Run r was started for the copied message: under the claim, when it has one.
ServesHead(r) ==
  LET head == worker.snap.head IN
  /\ r \in Known /\ runs[r].command # None
  /\ runs[r].command.id = Command(head)
  /\ head.claim # None => runs[r].command.body = head.claim

\* What a pass knows while clients change the queue under it: a copied claim is
\* still the head's claim, a copy that is called fresh still is the queue, and
\* the run that it will report was started for this message.
PassFits ==
  /\ worker.pc # "idle" =>
       /\ worker.snap.head # None /\ worker.snap.head.hold = "none"
       /\ worker.snap.run \in Known
       /\ worker.snap.head.claim # None <=> Claimed
       /\ Claimed => First = worker.snap.head
       /\ fresh => Pending /\ First = worker.snap.head /\ queue.run = worker.snap.run
  /\ worker.pc \in Sending => Claimed
  /\ worker.pc \in {"wait", "countdown", "claim"} => ~Claimed
  /\ worker.pc \in {"countdown", "claim"} => worker.agent # 0
  /\ worker.pc = "pause" => worker.why \in Holds \ {"none"}
  /\ worker.pc \in {"complete", "register", "finish"} => ServesHead(worker.next)

\* What the journal says of the turns: a turn has a record of its own body that
\* is not retried, a completed record has a turn, and while the pass is inside
\* the command its record is started and it has no turn before the commit.
JournalFits ==
  /\ \A r \in Known : runs[r].command # None =>
       LET record == journal[runs[r].command.id]
       IN record.status \in {"started", "completed", "failed"} /\ record.body = runs[r].command.body
  /\ \A c \in Commands : journal[c].status = "completed" =>
       \E r \in Known : runs[r].command = Submission(c, journal[c].body)
  /\ worker.pc \in {"admit", "adopting", "commit", "register", "finish"} =>
       journal[cmd].status = "started" /\ journal[cmd].body = body
  /\ worker.pc \in {"admit", "adopting", "commit"} =>
       \A r \in Known : runs[r].command # None => runs[r].command.id # cmd

\* While the pass waits for the adoption of the source agent nobody else can
\* decide about that run, and the turn is committed after the adoption only.
AdmissionFits ==
  /\ worker.pc = "adopting" =>
       LET source == runs[body.run]
       IN IF source.status = "finalized" THEN source.finalized = body.agent
          ELSE source.status # "active" /\ source.saving = body.agent
  /\ worker.pc = "commit" => runs[body.run].finalized = body.agent

\* One attempt at one message starts at most one turn, whatever is retried,
\* replayed, edited or lost.
OneTurnPerAttempt ==
  \A r, s \in Known : runs[r].command # None /\ runs[s].command # None =>
    (runs[r].command.id = runs[s].command.id => r = s)

\* A turn of the queue continues the very run and agent that were claimed, in
\* the same conversation, from a result that was adopted ("Never retarget the
\* message silently").
TurnsKeepLineage ==
  \A r \in Known : runs[r].command # None =>
    LET b == runs[r].command.body IN
    /\ runs[r].from = b.run /\ runs[r].agent = b.agent
    /\ runs[b.run].finalized = b.agent
    /\ runs[r].conv = runs[b.run].conv

\* What each pass, client and restart of follow_up_queue.py leaves behind: state,
\* claims, copies, journal and turns that belong together as above.
QueueInv ==
  /\ TypeOK /\ ClaimsMatchQueue /\ QueueFits /\ PassFits /\ JournalFits
  /\ OneTurnPerAttempt /\ TurnsKeepLineage /\ AdmissionFits

\* A claimed message "cannot be edited into a different command while its
\* outcome is uncertain" (qa/2026-10-18-client458): it stays at the head with the
\* claim it has, through retries, restarts and clients, until it is sent or held.
ClaimIsKept ==
  [][Claimed =>
       \/ queue'.done = First.id /\ queue'.items = Tail(queue.items)
       \/ queue'.items # <<>> /\ [queue'.items[1] EXCEPT !.hold = "none"] = First]_vars

\* A turn of the queue starts only for the head of the queue, as it stands and
\* as it was claimed: a stop, an edit or a pause that a client was told has
\* happened is never overtaken by a pass that had read the queue before.
StartsOnlyClaimedHead ==
  [][\A r \in DOMAIN runs' : r \notin Known /\ runs'[r].command # None =>
       /\ Claimed /\ First.claim = Body(First.claim.run, First.claim.agent, First)
       /\ queue.selected # 0 => First.claim.run = queue.run
       /\ runs'[r].command = Submission(Command(First), First.claim)]_vars

\* A message leaves the queue as sent only when a run was saved for it; the queue
\* then follows that run.  A claimed message left as it was claimed.
CompletedIsSent ==
  [][queue'.done # queue.done =>
       /\ Pending /\ queue'.done = First.id /\ queue'.items = Tail(queue.items)
       /\ queue'.run \in Known /\ runs[queue'.run].command # None
       /\ runs[queue'.run].command.id[1] = First.id
       /\ Claimed => runs[queue'.run].command = Submission(Command(First), First.claim)]_vars

\* A message leaves the queue as sent only as it stands ("Only this item's
\* original command and complete input prove it").
SentAsItStands ==
  [][queue'.done # queue.done => runs[queue'.run].command.body.text = First.text]_vars

\* A claimed message is about to continue the run that its queue is at.
ClaimBelongsToRun == Claimed => First.claim.run = queue.run

\* A selection that a client made is not replaced by an automatic one that
\* still calls itself manual ("Only the explicit selection action owns this").
ManualMeansChosen ==
  [][queue'.source = "manual" /\ queue'.selected # queue.selected => call.op = "select"]_vars

\* A message is held because "the conversation changed" only if it did: never
\* while the queue is at the newest turn of the workspace and started it itself.
ChangedMeansChanged ==
  [][Pending /\ First.hold = "none" /\ queue'.items # <<>> /\ queue'.items[1].hold = "changed"
       => queue.run # Len(runs) \/ runs[queue.run].command = None]_vars

\* The head is sent, removed or held for the user: it is never left waiting by
\* lost reads, retries, other clients, edits or a crash.
HeadSettles ==
  \A i \in Items : (Pending /\ First.id = i /\ First.hold = "none")
                     ~> ~(Pending /\ First.id = i /\ First.hold = "none")
=============================================================================

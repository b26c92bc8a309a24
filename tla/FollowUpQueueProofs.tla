------------------------- MODULE FollowUpQueueProofs -------------------------
(***************************************************************************)
(* The follow-up queue for any messages, agents, runs, clients and crashes. *)
(* QueueInv says what the stored queue, the pass of the coordinator, the    *)
(* journal and the saved turns have to do with each other; every request,   *)
(* every step of a pass, of the rest of the daemon and every crash keeps    *)
(* it, and the properties of the queue follow from it.  The last part proves *)
(* that the queue is a correct client of the command journal.               *)
(***************************************************************************)
EXTENDS FollowUpDelivery, FiniteSetTheorems, SequenceTheorems, WellFoundedInduction, TLAPS

-----------------------------------------------------------------------------
(* Numbers, sequences and selections.                                       *)

\* A set of numbers that is not empty has a smallest one.
LEMMA Least ==
  ASSUME NEW T \in SUBSET Nat, T # {}
  PROVE  \E x \in T : \A y \in T : x <= y
<1> DEFINE R == {ss \in Nat \X Nat : ss[1] < ss[2]}
<1>1. IsWellFoundedOn(R, Nat)
  BY NatLessThanWellFounded DEF OpToRel
<1> HIDE DEF R
<1>2. PICK x \in T : \A y \in T : ~ (<<y, x>> \in R)
  BY <1>1, WFMin
<1>3. \A y \in T : ~ (y < x)
  BY <1>2 DEF R
<1> QED  BY <1>3

\* The agents that a message can continue from are agents.
LEMMA EligibleAgents ==
  ASSUME TypeOK, NEW r \in Known
  PROVE  Eligible(r) \subseteq Agents
<1>1. runs[r] \in SavedRuns /\ RunFits(runs[r])
  BY ElementOfSeq DEF TypeOK, Known
<1>2. runs[r].outcome.eligible \subseteq Agents
  BY <1>1, QueueAssumption DEF SavedRuns
<1>3. runs[r].status = "finalized" => runs[r].finalized \in Agents
  BY <1>1 DEF SavedRuns, RunFits, AgentOrNone
<1> QED  BY <1>2, <1>3 DEF Eligible

\* The agent that a message continues from is an agent, if there is one.
LEMMA SourceAgentIsAgent ==
  ASSUME TypeOK, NEW r \in Known, NEW q
  PROVE  SourceAgent(q, r) \in AgentOrNone
<1> DEFINE able == Eligible(r)
           open == able \ runs[r].outcome.rejected
<1>1. able \subseteq Agents
  BY EligibleAgents
<1>2. open # {} => (CHOOSE a \in open : \A b \in open : a <= b) \in open
  <2>1. SUFFICES ASSUME open # {}
                 PROVE  \E a \in open : \A b \in open : a <= b
    OBVIOUS
  <2> QED  BY <2>1, <1>1, Least, QueueAssumption
<1>3. SourceAgent(q, r) \in able \cup {0}
  BY <1>2 DEF SourceAgent
<1> QED  BY <1>1, <1>3 DEF AgentOrNone

-----------------------------------------------------------------------------
(* What the steps have in common.                                           *)

\* No run is lost or changes its lineage, and what is adopted stays so.
RunsKeep ==
  /\ Known \subseteq Known'
  /\ \A r \in Known :
       /\ runs'[r].from = runs[r].from /\ runs'[r].agent = runs[r].agent
       /\ runs'[r].conv = runs[r].conv /\ runs'[r].command = runs[r].command
       /\ runs[r].finalized # 0 => runs'[r].finalized = runs[r].finalized

\* The runs that a step adds are not turns of the queue.
NoNewTurn == \A r \in Known' \ Known : runs'[r].command = None

\* The saved runs after a step, as TypeOK wants them.
RunsTyped ==
  /\ runs' \in Seq(SavedRuns) /\ Len(runs') \in Runs
  /\ \A r \in Known' : runs'[r].from < r /\ runs'[r].conv <= r /\ RunFits(runs'[r])

\* A step leaves the queue well formed, and the claim at its head alone; it does
\* not count a message as sent.
QueueKeeps ==
  /\ queue' \in Queues /\ ClaimsMatchQueue' /\ QueueFits'
  /\ queue'.done = queue.done
  /\ Claimed' <=> Claimed
  /\ Claimed => First' = First

\* Some facts of TypeOK in the form in which they are used.
LEMMA Types ==
  ASSUME TypeOK
  PROVE  /\ queue \in Queues /\ queue.items \in Seq(QueueItems) /\ Len(queue.items) \in Nat
         /\ runs \in Seq(SavedRuns) /\ Len(runs) \in Nat /\ Len(runs) \in 1..MaxRuns /\ MaxRuns \in Nat
         /\ \A r \in Known : r \in Runs /\ runs[r] \in SavedRuns
         /\ worker \in Passes
<1>1. queue \in Queues /\ runs \in Seq(SavedRuns) /\ Len(runs) \in Runs /\ worker \in Passes
  BY DEF TypeOK
<1>2. queue.items \in Seq(QueueItems)
  BY <1>1 DEF Queues
<1>3. Len(queue.items) \in Nat /\ Len(runs) \in Nat
  BY <1>1, <1>2, LenProperties
<1>4. MaxRuns \in Nat /\ Len(runs) \in 1..MaxRuns
  BY <1>1, QueueAssumption DEF Runs
<1>5. \A r \in Known : r \in Runs /\ runs[r] \in SavedRuns
  BY <1>1, <1>3, <1>4, ElementOfSeq DEF Known, Runs
<1> QED  BY <1>1, <1>2, <1>3, <1>4, <1>5

\* A turn of the queue continues a run, by one of its agents.
LEMMA TurnsStartFromRuns ==
  ASSUME QueueInv, NEW r \in Known, runs[r].command # None
  PROVE  runs[r].command.body.run \in Known /\ runs[r].command.body.agent # 0
<1> DEFINE b == runs[r].command.body
<1>1. runs[r].from = b.run
  BY DEF QueueInv, TurnsKeepLineage
<1>2. runs[r] \in SavedRuns
  BY Types DEF QueueInv
<1>3. b \in Bodies
  BY <1>2 DEF SavedRuns, Submissions
<1>4. b.run \in Runs /\ b.agent \in Agents
  BY <1>3 DEF Bodies
<1>5. runs[r].from < r
  BY DEF QueueInv, TypeOK, Known
<1> HIDE DEF b
<1>6. b.run < r /\ b.run >= 1 /\ b.run \in Nat
  BY <1>1, <1>4, <1>5, QueueAssumption DEF Runs
<1> QED  BY <1>4, <1>6, Types, QueueAssumption DEF QueueInv, Known, b

\* The parts about turns survive a step that neither adds a turn nor is a step
\* of the pass or its journal.
LEMMA TurnsStay ==
  ASSUME QueueInv, RunsKeep, NoNewTurn, worker' = worker, journal' = journal
  PROVE  JournalFits' /\ OneTurnPerAttempt' /\ TurnsKeepLineage'
<1>1. \A r \in Known' : runs'[r].command # None =>
        r \in Known /\ runs[r].command = runs'[r].command
  BY DEF RunsKeep, NoNewTurn
<1>2. JournalFits'
  <2>1. cmd' = cmd /\ body' = body
    BY DEF cmd, body
  <2>2. JournalFits
    BY DEF QueueInv
  <2>3. \A r \in Known' : runs'[r].command # None =>
          /\ journal'[runs'[r].command.id].status \in {"started", "completed", "failed"}
          /\ journal'[runs'[r].command.id].body = runs'[r].command.body
    BY <1>1, <2>2 DEF JournalFits
  <2>4. \A c \in Commands : journal'[c].status = "completed" =>
          \E r \in Known' : runs'[r].command = Submission(c, journal'[c].body)
    BY <2>2 DEF JournalFits, RunsKeep
  <2>5. worker'.pc \in {"admit", "adopting", "commit", "register", "finish"} =>
          journal'[cmd'].status = "started" /\ journal'[cmd'].body = body'
    BY <2>1, <2>2 DEF JournalFits
  <2>6. worker'.pc \in {"admit", "adopting", "commit"} =>
          \A r \in Known' : runs'[r].command # None => runs'[r].command.id # cmd'
    BY <1>1, <2>1, <2>2 DEF JournalFits
  <2> QED  BY <2>3, <2>4, <2>5, <2>6 DEF JournalFits, Submission
<1>3. OneTurnPerAttempt'
  BY <1>1 DEF QueueInv, OneTurnPerAttempt
<1>4. TurnsKeepLineage'
  <2> SUFFICES ASSUME NEW r \in Known', runs'[r].command # None
               PROVE  /\ runs'[r].from = runs'[r].command.body.run
                      /\ runs'[r].agent = runs'[r].command.body.agent
                      /\ runs'[runs'[r].command.body.run].finalized = runs'[r].command.body.agent
                      /\ runs'[r].conv = runs'[runs'[r].command.body.run].conv
    BY DEF TurnsKeepLineage
  <2> DEFINE b == runs[r].command.body
  <2>1. r \in Known /\ runs[r].command = runs'[r].command /\ runs[r].command # None
    BY <1>1
  <2>2. /\ runs[r].from = b.run /\ runs[r].agent = b.agent
        /\ runs[b.run].finalized = b.agent /\ runs[r].conv = runs[b.run].conv
    BY <2>1 DEF QueueInv, TurnsKeepLineage
  <2>3. b.run \in Known /\ b.agent # 0
    BY <2>1, TurnsStartFromRuns
  <2> QED  BY <2>1, <2>2, <2>3 DEF RunsKeep
<1> QED  BY <1>2, <1>3, <1>4

\* ... and so does what the pass knows, if the queue's head keeps its claim.
LEMMA PassStays ==
  ASSUME QueueInv, RunsKeep, QueueKeeps, worker' = worker, fresh' => fresh /\ queue' = queue
  PROVE  PassFits'
<1>1. \A r : ServesHead(r) => ServesHead(r)'
  BY DEF ServesHead, RunsKeep, Command
<1>2. PassFits
  BY DEF QueueInv
<1>3. Claimed => First' = First
  BY DEF QueueKeeps
<1>4. Claimed' <=> Claimed
  BY DEF QueueKeeps
<1>5. worker.pc # "idle" =>
       /\ worker.snap.run \in Known'
       /\ worker.snap.head.claim # None <=> Claimed'
       /\ Claimed' => First' = worker.snap.head
  BY <1>2, <1>3, <1>4 DEF PassFits, RunsKeep
<1>6. worker.pc # "idle" =>
        (fresh' => Pending' /\ First' = worker.snap.head /\ queue'.run = worker.snap.run)
  BY <1>2 DEF PassFits, Pending, First
<1>7. worker.pc \in {"complete", "register", "finish"} => ServesHead(worker.next)'
  BY <1>1, <1>2 DEF PassFits
<1> QED  BY <1>2, <1>4, <1>5, <1>6, <1>7 DEF PassFits

\* A step of a client or of the rest of the daemon.
LEMMA OutsideStep ==
  ASSUME QueueInv, RunsKeep, NoNewTurn, QueueKeeps, TypeOK',
         worker' = worker, journal' = journal, fresh' => fresh /\ queue' = queue,
         worker.pc = "adopting" =>
           IF runs'[body.run].status = "finalized" THEN runs'[body.run].finalized = body.agent
           ELSE runs'[body.run].status # "active" /\ runs'[body.run].saving = body.agent
  PROVE  QueueInv'
<1>1. JournalFits' /\ OneTurnPerAttempt' /\ TurnsKeepLineage'
  BY TurnsStay
<1>2. PassFits'
  BY PassStays
<1>3. worker.pc = "commit" => runs'[body.run].finalized = body.agent
  <2> SUFFICES ASSUME worker.pc = "commit"
               PROVE  runs'[body.run].finalized = body.agent
    OBVIOUS
  <2>1. runs[body.run].finalized = body.agent
    BY DEF QueueInv, AdmissionFits
  <2>2. body \in Bodies /\ body.run \in Known
    <3>1. Claimed /\ First = worker.snap.head
      BY DEF QueueInv, PassFits, Sending
    <3>2. First \in QueueItems /\ First.claim # None
      BY <3>1, Types, ElementOfSeq DEF QueueInv, Claimed, First, Pending
    <3> QED  BY <3>1, <3>2 DEF QueueInv, ClaimsMatchQueue, body, QueueItems
  <2>3. body.agent # 0
    BY <2>2, QueueAssumption DEF Bodies
  <2> QED  BY <2>1, <2>2, <2>3 DEF RunsKeep
<1>4. AdmissionFits'
  BY <1>3 DEF AdmissionFits, body
<1> QED  BY <1>1, <1>2, <1>4 DEF QueueInv, QueueKeeps

-----------------------------------------------------------------------------
(* Runs that move and runs that are added.                                  *)

\* One run changes, but not its lineage and not its adoption.
LEMMA OneRunMoves ==
  ASSUME TypeOK, NEW r \in Known, NEW new \in SavedRuns, RunFits(new),
         new.from = runs[r].from, new.agent = runs[r].agent,
         new.conv = runs[r].conv, new.command = runs[r].command,
         runs[r].finalized # 0 => new.finalized = runs[r].finalized,
         runs' = [runs EXCEPT ![r] = new]
  PROVE  /\ RunsKeep /\ NoNewTurn /\ RunsTyped /\ Known' = Known
         /\ runs'[r] = new /\ \A k \in Known \ {r} : runs'[k] = runs[k]
<1>1. /\ runs' \in Seq(SavedRuns) /\ Len(runs') = Len(runs)
      /\ \A k \in Known : runs'[k] = IF k = r THEN new ELSE runs[k]
  BY Types, ExceptSeq DEF Known
<1>2. Known' = Known
  BY <1>1 DEF Known
<1>3. RunsTyped
  BY <1>1, <1>2 DEF RunsTyped, TypeOK, Known
<1> QED  BY <1>1, <1>2, <1>3 DEF RunsKeep, NoNewTurn

\* The fields of a run.
LEMMA RunFacts ==
  ASSUME TypeOK, NEW r \in Known
  PROVE  /\ runs[r] \in SavedRuns /\ RunFits(runs[r])
         /\ runs[r].from \in 0..MaxRuns /\ runs[r].from < r /\ runs[r].agent \in AgentOrNone
         /\ runs[r].conv \in Runs /\ runs[r].conv <= r
         /\ runs[r].outcome \in Results /\ runs[r].saving \in AgentOrNone
         /\ runs[r].finalized \in AgentOrNone
         /\ runs[r].command \in Submissions \cup {None}
         /\ runs[r].status \in {"active", "settled", "finalizing", "finalized", "unsafe"}
<1>1. runs[r] \in SavedRuns
  BY Types
<1>2. RunFits(runs[r]) /\ runs[r].from < r /\ runs[r].conv <= r
  BY DEF TypeOK, Known
<1> QED  BY <1>1, <1>2 DEF SavedRuns

\* The runs when the status, the outcome or the saved agent of one changes.
Moved(r, st, o, a) ==
  [runs EXCEPT ![r] = [runs[r] EXCEPT !.status = st, !.outcome = o, !.saving = a]]

\* A run's status, outcome or saved agent changes: its lineage stays.
LEMMA StatusMoves ==
  ASSUME TypeOK, NEW r \in Known,
         NEW st \in {"active", "settled", "finalizing", "unsafe"}, NEW o \in Results,
         NEW a \in AgentOrNone, st \in {"finalizing", "unsafe"} => a # 0,
         runs[r].status # "finalized",
         runs' = Moved(r, st, o, a)
  PROVE  /\ RunsKeep /\ NoNewTurn /\ RunsTyped /\ Known' = Known
         /\ runs'[r].status = st /\ runs'[r].saving = a
         /\ \A k \in Known \ {r} : runs'[k] = runs[k]
<1> DEFINE new == [runs[r] EXCEPT !.status = st, !.outcome = o, !.saving = a]
<1>1. runs[r] \in SavedRuns /\ RunFits(runs[r])
  BY RunFacts
<1>2. /\ new \in SavedRuns /\ new.from = runs[r].from /\ new.agent = runs[r].agent
      /\ new.conv = runs[r].conv /\ new.command = runs[r].command
      /\ new.finalized = runs[r].finalized
      /\ new.status = st /\ new.saving = a
  BY <1>1 DEF SavedRuns
<1>3. RunFits(new)
  BY <1>1, <1>2 DEF RunFits
<1> HIDE DEF new
<1>4. runs' = [runs EXCEPT ![r] = new]
  BY DEF new, Moved
<1> QED  BY <1>2, <1>3, <1>4, OneRunMoves

\* A run's agent is adopted.
LEMMA AdoptMoves ==
  ASSUME TypeOK, NEW r \in Known, runs[r].status \in {"finalizing", "unsafe"}, runs' = Adopt(r)
  PROVE  /\ RunsKeep /\ NoNewTurn /\ RunsTyped /\ Known' = Known
         /\ runs'[r].status = "finalized" /\ runs'[r].finalized = runs[r].saving
         /\ \A k \in Known \ {r} : runs'[k] = runs[k]
<1> DEFINE new == [runs[r] EXCEPT !.status = "finalized", !.finalized = runs[r].saving, !.saving = 0]
<1>1. runs[r] \in SavedRuns /\ RunFits(runs[r])
  BY RunFacts
<1>2. /\ new \in SavedRuns /\ new.from = runs[r].from /\ new.agent = runs[r].agent
      /\ new.conv = runs[r].conv /\ new.command = runs[r].command
      /\ new.status = "finalized" /\ new.finalized = runs[r].saving
  BY <1>1 DEF SavedRuns, AgentOrNone
<1>3. RunFits(new) /\ runs[r].finalized = 0
  BY <1>1, <1>2 DEF RunFits
<1>4. runs' = [runs EXCEPT ![r] = new]
  BY <1>1 DEF Adopt, SavedRuns
<1> HIDE DEF new
<1> QED  BY <1>2, <1>3, <1>4, OneRunMoves

\* A run is added.
LEMMA OneRunMore ==
  ASSUME TypeOK, Len(runs) < MaxRuns, NEW new \in SavedRuns, RunFits(new),
         new.from <= Len(runs), new.conv <= Len(runs) + 1,
         runs' = Append(runs, new)
  PROVE  /\ RunsKeep /\ RunsTyped /\ Known' = Known \cup {Len(runs) + 1}
         /\ Len(runs) + 1 \notin Known
         /\ runs'[Len(runs) + 1] = new /\ \A k \in Known : runs'[k] = runs[k]
<1>1. /\ runs' \in Seq(SavedRuns) /\ Len(runs') = Len(runs) + 1
      /\ \A k \in Known : runs'[k] = runs[k]
      /\ runs'[Len(runs) + 1] = new
  BY Types, AppendProperties DEF Known
<1>2. Known' = Known \cup {Len(runs) + 1} /\ Len(runs) + 1 \notin Known
  BY <1>1, Types DEF Known
<1>3. Len(runs') \in Runs
  BY <1>1, Types DEF Runs
<1>4. new.from < Len(runs) + 1
  BY Types DEF SavedRuns
<1>5. RunsTyped
  BY <1>1, <1>2, <1>3, <1>4 DEF RunsTyped, TypeOK, Known
<1> QED  BY <1>1, <1>2, <1>5 DEF RunsKeep

-----------------------------------------------------------------------------
(* The rest of the daemon.                                                  *)

\* A step that leaves the queue alone keeps what the invariant says of it.
LEMMA QueueUntouched ==
  ASSUME QueueInv, RunsKeep, queue' = queue
  PROVE  QueueKeeps
<1>1. Claimed' = Claimed /\ First' = First /\ Pending' = Pending
  BY DEF Claimed, First, Pending
<1>2. ClaimsMatchQueue'
  BY <1>1 DEF QueueInv, ClaimsMatchQueue, RunsKeep
<1>3. QueueFits'
  BY <1>1 DEF QueueInv, QueueFits, RunsKeep
<1> QED  BY <1>1, <1>2, <1>3, Types DEF QueueKeeps, QueueInv

\* The state keeps its types when only the runs and the registry move.
LEMMA TypesOfRuns ==
  ASSUME TypeOK, RunsTyped, RunsKeep,
         UNCHANGED <<queue, fresh, journal, worker, call, up>>,
         registry' \in Known', foreign' \in {0} \cup Known', ~up => foreign' = 0
  PROVE  TypeOK'
<1>1. Len(runs') \in Nat /\ Known' = 1..Len(runs')
  BY LenProperties DEF RunsTyped, Known
<1>2. foreign' \in 0..Len(runs')
  BY <1>1
<1>3. call'.op # "none" => call'.run \in 1..Len(runs')
  BY <1>1 DEF TypeOK, RunsKeep, Known
<1>4. \A r \in 1..Len(runs') : runs'[r].from < r /\ runs'[r].conv <= r /\ RunFits(runs'[r])
  BY <1>1 DEF RunsTyped
<1> QED  BY <1>1, <1>2, <1>3, <1>4 DEF TypeOK, RunsTyped

\* The claim of the message that is being sent is the head's claim.
LEMMA SentClaim ==
  ASSUME QueueInv, worker.pc \in Sending
  PROVE  /\ body \in Bodies /\ body.run \in Known /\ body.agent \in Agents /\ body.agent # 0
         /\ cmd \in Commands /\ Claimed /\ First = worker.snap.head
         /\ Pending /\ First \in QueueItems
         /\ body = First.claim /\ cmd = Command(First)
<1>1. Claimed /\ First = worker.snap.head
  BY DEF QueueInv, PassFits, Sending
<1>2. First \in QueueItems /\ First.claim # None
  BY <1>1, Types, ElementOfSeq DEF QueueInv, Claimed, First, Pending
<1>3. First.claim \in Bodies /\ Command(First) \in Commands
  BY <1>2 DEF QueueItems, Command, Commands
<1>4. First.claim.run \in Known
  BY <1>1 DEF QueueInv, ClaimsMatchQueue
<1>5. First.claim.agent \in Agents
  BY <1>3 DEF Bodies
<1>6. First.claim.agent # 0
  BY <1>5, QueueAssumption
<1> QED  BY <1>1, <1>2, <1>3, <1>4, <1>5, <1>6 DEF body, cmd, Claimed

\* The runs move by themselves: nothing else changes.
LEMMA RunsMoveAlone ==
  ASSUME QueueInv, RunsKeep, RunsTyped, NoNewTurn, Known' = Known,
         UNCHANGED <<registry, foreign, up, Others>>,
         worker.pc = "adopting" =>
           IF runs'[body.run].status = "finalized" THEN runs'[body.run].finalized = body.agent
           ELSE runs'[body.run].status # "active" /\ runs'[body.run].saving = body.agent
  PROVE  QueueInv'
<1>1. registry' \in Known' /\ foreign' \in {0} \cup Known' /\ (~up => foreign' = 0)
  BY Types DEF QueueInv, TypeOK, Known
<1>2. TypeOK'
  BY <1>1, TypesOfRuns DEF Others, QueueInv
<1>3. QueueKeeps
  BY QueueUntouched DEF Others
<1> QED  BY <1>2, <1>3, OutsideStep DEF Others

\* Settle keeps the invariant: a run under adoption is not active.
LEMMA SettleStep ==
  ASSUME QueueInv, NEW r \in Known, NEW o \in Results, Settle(r, o)
  PROVE  QueueInv'
<1>1. TypeOK
  BY DEF QueueInv
<1>2. runs[r].status = "active" /\ UNCHANGED <<registry, foreign, up, Others>>
  BY DEF Settle
<1>3. runs[r] \in SavedRuns /\ runs[r].saving \in AgentOrNone
  BY <1>1, RunFacts
<1>4. runs' = Moved(r, "settled", o, runs[r].saving)
  BY <1>3 DEF Settle, SavedRuns, Moved
<1>5. /\ RunsKeep /\ NoNewTurn /\ RunsTyped /\ Known' = Known
      /\ \A k \in Known \ {r} : runs'[k] = runs[k]
  BY <1>1, <1>2, <1>3, <1>4, StatusMoves
<1>6. worker.pc = "adopting" => body.run \in Known \ {r} /\ runs'[body.run] = runs[body.run]
  <2> SUFFICES ASSUME worker.pc = "adopting" PROVE body.run \in Known /\ body.run # r
    BY <1>5
  <2>1. body.run \in Known
    BY SentClaim DEF Sending
  <2>2. runs[body.run].status # "active"
    BY DEF QueueInv, AdmissionFits
  <2> QED  BY <1>2, <2>1, <2>2
<1> QED  BY <1>2, <1>5, <1>6, RunsMoveAlone DEF QueueInv, AdmissionFits

\* FinalizeEnds keeps it: an adoption ends with the agent that was being saved.
LEMMA FinalizeEndsStep ==
  ASSUME QueueInv, NEW r \in Known, NEW st \in {"finalized", "settled", "unsafe"},
         FinalizeEnds(r, st)
  PROVE  QueueInv'
<1>1. TypeOK
  BY DEF QueueInv
<1>2. runs[r].status = "finalizing" /\ UNCHANGED <<registry, foreign, up, Others>>
  BY DEF FinalizeEnds
<1>3. /\ runs[r] \in SavedRuns /\ runs[r].saving \in AgentOrNone /\ runs[r].outcome \in Results
      /\ runs[r].saving # 0
  BY <1>1, <1>2, RunFacts DEF RunFits
<1>4. /\ RunsKeep /\ NoNewTurn /\ RunsTyped /\ Known' = Known
      /\ IF runs'[r].status = "finalized" THEN runs'[r].finalized = runs[r].saving
         ELSE runs'[r].status # "active" /\ runs'[r].saving = runs[r].saving
      /\ \A k \in Known \ {r} : runs'[k] = runs[k]
  <2>1. CASE st = "finalized"
    <3>1. runs' = Adopt(r)
      BY <2>1 DEF FinalizeEnds
    <3> QED  BY <1>1, <1>2, <3>1, AdoptMoves
  <2>2. CASE st # "finalized"
    <3>1. runs' = Moved(r, st, runs[r].outcome, runs[r].saving)
      BY <1>3, <2>2 DEF FinalizeEnds, SavedRuns, Moved
    <3> QED  BY <1>1, <1>2, <1>3, <2>2, <3>1, StatusMoves
  <2> QED  BY <2>1, <2>2
<1>5. worker.pc = "adopting" =>
           IF runs'[body.run].status = "finalized" THEN runs'[body.run].finalized = body.agent
           ELSE runs'[body.run].status # "active" /\ runs'[body.run].saving = body.agent
  <2> SUFFICES ASSUME worker.pc = "adopting"
               PROVE  IF runs'[body.run].status = "finalized"
                      THEN runs'[body.run].finalized = body.agent
                      ELSE runs'[body.run].status # "active" /\ runs'[body.run].saving = body.agent
    OBVIOUS
  <2>1. body.run \in Known
    BY SentClaim DEF Sending
  <2>2. IF runs[body.run].status = "finalized" THEN runs[body.run].finalized = body.agent
        ELSE runs[body.run].status # "active" /\ runs[body.run].saving = body.agent
    BY DEF QueueInv, AdmissionFits
  <2>3. CASE body.run = r
    BY <1>2, <1>4, <2>2, <2>3
  <2>4. CASE body.run # r
    BY <1>4, <2>1, <2>2, <2>4
  <2> QED  BY <2>3, <2>4
<1> QED  BY <1>2, <1>4, <1>5, RunsMoveAlone

\* Review keeps it: it cannot touch the run whose adoption is awaited.
LEMMA ReviewStep ==
  ASSUME QueueInv, NEW r \in Known, Review(r)
  PROVE  QueueInv'
<1>1. TypeOK
  BY DEF QueueInv
<1>2. UNCHANGED <<registry, foreign, up, Others>> /\ Lockable(r)
  BY DEF Review
<1>3. /\ runs[r] \in SavedRuns /\ runs[r].saving \in AgentOrNone /\ runs[r].outcome \in Results
      /\ RunFits(runs[r])
  BY <1>1, RunFacts
<1>4. /\ RunsKeep /\ NoNewTurn /\ RunsTyped /\ Known' = Known
      /\ \A k \in Known \ {r} : runs'[k] = runs[k]
  <2>1. ASSUME runs[r].status = "settled", NEW o \in Results, runs' = [runs EXCEPT ![r].outcome = o]
        PROVE  <1>4!:
    <3>1. runs' = Moved(r, "settled", o, runs[r].saving)
      BY <1>3, <2>1 DEF SavedRuns, Moved
    <3> QED  BY <1>1, <1>3, <2>1, <3>1, StatusMoves
  <2>2. ASSUME runs[r].status = "settled", runs' = [runs EXCEPT ![r].status = "active"]
        PROVE  <1>4!:
    <3>1. runs' = Moved(r, "active", runs[r].outcome, runs[r].saving)
      BY <1>3, <2>2 DEF SavedRuns, Moved
    <3> QED  BY <1>1, <1>3, <2>2, <3>1, StatusMoves
  <2>3. ASSUME runs[r].status = "settled", NEW a \in runs[r].outcome.eligible,
               runs' = [runs EXCEPT ![r].status = "finalizing", ![r].saving = a]
        PROVE  <1>4!:
    <3>1. runs' = Moved(r, "finalizing", runs[r].outcome, a)
      BY <1>3, <2>3 DEF SavedRuns, Moved
    <3>2. a \in AgentOrNone /\ a # 0
      BY <1>3, QueueAssumption DEF AgentOrNone
    <3> QED  BY <1>1, <1>3, <2>3, <3>1, <3>2, StatusMoves
  <2>4. ASSUME runs[r].status = "unsafe", runs' = Adopt(r)
        PROVE  <1>4!:
    BY <1>1, <2>4, AdoptMoves
  <2>5. ASSUME runs[r].status = "unsafe", runs' = [runs EXCEPT ![r].status = "settled"]
        PROVE  <1>4!:
    <3>1. runs' = Moved(r, "settled", runs[r].outcome, runs[r].saving)
      BY <1>3, <2>5 DEF SavedRuns, Moved
    <3> QED  BY <1>1, <1>3, <2>5, <3>1, StatusMoves
  <2> QED  BY <2>1, <2>2, <2>3, <2>4, <2>5 DEF Review
<1>5. worker.pc = "adopting" => body.run \in Known \ {r} /\ runs'[body.run] = runs[body.run]
  BY <1>2, <1>4, SentClaim DEF Sending, Lockable
<1> QED  BY <1>2, <1>4, <1>5, RunsMoveAlone DEF QueueInv, AdmissionFits

\* ForeignStart keeps it: the run that it saves is no turn of the queue.
LEMMA ForeignStartStep ==
  ASSUME QueueInv, NEW s \in {0} \cup Known, ForeignStart(s)
  PROVE  QueueInv'
<1>1. TypeOK /\ Len(runs) \in Nat /\ Len(runs) \in 1..MaxRuns /\ MaxRuns \in Nat
  BY Types DEF QueueInv
<1>2. /\ Len(runs) < MaxRuns /\ foreign' = Len(runs) + 1 /\ worker.pc # "adopting"
      /\ UNCHANGED <<registry, up, Others>> /\ up
  BY DEF ForeignStart, Request
<1>3. PICK o \in Results :
        runs' = Append(runs, NewRun(s, IF s = 0 THEN 0 ELSE runs[s].finalized, None, o))
  BY DEF ForeignStart
<1> DEFINE a == IF s = 0 THEN 0 ELSE runs[s].finalized
           new == NewRun(s, a, None, o)
<1>4. a \in AgentOrNone
  BY <1>1, RunFacts DEF AgentOrNone
<1>5. new = [from |-> s, agent |-> a, status |-> "active", outcome |-> o, saving |-> 0,
             conv |-> IF s = 0 THEN Len(runs) + 1 ELSE runs[s].conv,
             finalized |-> 0, command |-> None]
  BY DEF NewRun
<1> HIDE DEF a, new
<1>6. s \in 0..MaxRuns /\ s <= Len(runs)
  BY <1>1 DEF Known
<1>7. new.conv \in Runs /\ new.conv <= Len(runs) + 1
  <2>1. CASE s = 0
    BY <1>1, <1>2, <1>5, <2>1 DEF Runs
  <2>2. CASE s # 0
    <3>1. runs[s].conv \in Runs /\ runs[s].conv <= s
      BY <1>1, <2>2, RunFacts
    <3>2. runs[s].conv <= Len(runs) + 1
      BY <1>1, <1>6, <3>1 DEF Runs
    <3> QED  BY <1>5, <2>2, <3>1, <3>2
  <2> QED  BY <2>1, <2>2
<1>8. new \in SavedRuns /\ RunFits(new) /\ new.from <= Len(runs) /\ new.command = None
  BY <1>4, <1>5, <1>6, <1>7 DEF SavedRuns, AgentOrNone, RunFits
<1>9. runs' = Append(runs, new)
  BY <1>3 DEF a, new
<1>10. /\ RunsKeep /\ RunsTyped /\ Known' = Known \cup {Len(runs) + 1}
       /\ runs'[Len(runs) + 1] = new
  BY <1>1, <1>2, <1>7, <1>8, <1>9, OneRunMore
<1>11. NoNewTurn
  BY <1>8, <1>10 DEF NoNewTurn
<1>12. TypeOK'
  <2>1. registry' \in Known' /\ foreign' \in {0} \cup Known'
    BY <1>1, <1>2, <1>10 DEF TypeOK, Known
  <2> QED  BY <1>1, <1>2, <1>10, <2>1, TypesOfRuns DEF Others
<1>13. QueueKeeps
  BY <1>2, <1>10, QueueUntouched DEF Others
<1> QED  BY <1>2, <1>10, <1>11, <1>12, <1>13, OutsideStep DEF Others

\* Nothing that the invariant is about changes, but the registry and requests.
LEMMA RunsUntouched ==
  ASSUME QueueInv, runs' = runs
  PROVE  RunsKeep /\ NoNewTurn /\ RunsTyped /\ Known' = Known
  BY DEF QueueInv, TypeOK, RunsKeep, NoNewTurn, RunsTyped, Known

\* ForeignRegister keeps it: the registry then names a saved run.
LEMMA ForeignRegisterStep ==
  ASSUME QueueInv, ForeignRegister
  PROVE  QueueInv'
<1>1. RunsKeep /\ NoNewTurn /\ RunsTyped /\ Known' = Known
  BY RunsUntouched DEF ForeignRegister
<1>2. registry' \in Known' /\ foreign' = 0
  BY <1>1, Types DEF ForeignRegister, QueueInv, TypeOK, Known
<1>3. TypeOK'
  BY <1>1, <1>2, TypesOfRuns DEF ForeignRegister, Others, QueueInv
<1>4. QueueKeeps
  BY <1>1, QueueUntouched DEF ForeignRegister, Others
<1> QED  BY <1>1, <1>3, <1>4, OutsideStep DEF ForeignRegister, Others, QueueInv, AdmissionFits

\* Restart keeps it.
LEMMA RestartStep ==
  ASSUME QueueInv, Restart
  PROVE  QueueInv'
<1>1. RunsKeep /\ NoNewTurn /\ RunsTyped /\ Known' = Known
  BY RunsUntouched DEF Restart
<1>2. TypeOK'
  BY DEF Restart, Others, QueueInv, TypeOK
<1>3. QueueKeeps
  BY <1>1, QueueUntouched DEF Restart, Others
<1> QED  BY <1>1, <1>2, <1>3, OutsideStep DEF Restart, Others, QueueInv, AdmissionFits

\* A pass that ends, or dies, leaves the invariant to the queue.
LEMMA PassEnds ==
  ASSUME QueueInv, worker' = Resting, fresh' = FALSE, runs' = runs, journal' = journal,
         registry' = registry, up' \in BOOLEAN, foreign' \in {0, foreign},
         call' \in {call, NoCall}, ~up' => call' = NoCall /\ foreign' = 0,
         queue' \in Queues, ClaimsMatchQueue', QueueFits'
  PROVE  QueueInv'
<1>1. RunsKeep /\ NoNewTurn /\ RunsTyped /\ Known' = Known
  BY RunsUntouched
<1>2. Resting \in Passes /\ Resting.pc = "idle"
  BY QueueAssumption DEF Resting, Passes, NoSnap, PassPoints, AgentOrNone, Sources, Holds
<1>3. TypeOK'
  <2>1. foreign' \in 0..Len(runs')
    BY Types DEF QueueInv, TypeOK
  <2>2. /\ call'.op \in {"none", "enqueue", "select", "stop"}
        /\ call'.op # "none" => call'.run \in 1..Len(runs')
        /\ call'.op = "enqueue" => call'.item \in Messages
        /\ call'.op = "select" => call'.agent \in Agents
    BY DEF QueueInv, TypeOK, NoCall
  <2>3. worker' \in Passes /\ (worker'.pc = "idle" <=> worker' = Resting) /\ fresh' \in BOOLEAN
    BY <1>2
  <2>4. /\ runs' \in Seq(SavedRuns) /\ Len(runs') \in Runs
        /\ \A r \in 1..Len(runs') : runs'[r].from < r /\ runs'[r].conv <= r /\ RunFits(runs'[r])
        /\ registry' \in 1..Len(runs')
        /\ journal' \in [Commands -> JournalRecords]
        /\ \A c \in Commands : journal'[c].status # "none" <=> journal'[c].body # None
    BY DEF QueueInv, TypeOK
  <2>5. ~up' => worker' = Resting /\ call' = NoCall /\ foreign' = 0
    OBVIOUS
  <2> HIDE DEF Resting
  <2> QED  BY <2>1, <2>2, <2>3, <2>4, <2>5 DEF TypeOK
<1>4. worker'.pc = "idle"
  BY <1>2
<1>5. PassFits' /\ AdmissionFits'
  <2>1. worker'.pc \notin Sending
    BY <1>4 DEF Sending
  <2>2. PassFits'
    BY <1>4, <2>1, Zenon DEF PassFits
  <2>3. AdmissionFits'
    BY <1>4 DEF AdmissionFits
  <2> QED  BY <2>2, <2>3
<1>6. JournalFits'
  BY <1>1, <1>4 DEF QueueInv, JournalFits
<1>7. OneTurnPerAttempt' /\ TurnsKeepLineage'
  BY <1>1 DEF QueueInv, OneTurnPerAttempt, TurnsKeepLineage
<1> QED  BY <1>3, <1>5, <1>6, <1>7 DEF QueueInv

\* The queue does not change when the pass ends.
LEMMA PassEndsQuietly ==
  ASSUME QueueInv, Rest, UNCHANGED <<queue, runs, registry, journal, Outside>>
  PROVE  QueueInv'
<1>1. queue' \in Queues /\ ClaimsMatchQueue' /\ QueueFits'
  BY RunsUntouched, QueueUntouched DEF QueueKeeps
<1>2. up \in BOOLEAN /\ (~up => call = NoCall /\ foreign = 0)
  BY DEF QueueInv, TypeOK
<1> QED  BY <1>1, <1>2, PassEnds DEF Rest, Outside

\* Crash keeps it: what is stored does not depend on the pass that died.
LEMMA CrashStep ==
  ASSUME QueueInv, Crash
  PROVE  QueueInv'
<1>1. queue' \in Queues /\ ClaimsMatchQueue' /\ QueueFits'
  BY RunsUntouched, QueueUntouched DEF QueueKeeps, Crash
<1> QED  BY <1>1, PassEnds DEF Crash

-----------------------------------------------------------------------------
(* Client requests.                                                         *)

\* A request under way, as TypeOK wants it.
CallTyped ==
  /\ call'.op \in {"none", "enqueue", "select", "stop"}
  /\ call'.op # "none" => call'.run \in Known
  /\ call'.op = "enqueue" => call'.item \in Messages
  /\ call'.op = "select" => call'.agent \in Agents

\* A step of a client's request changes at most the queue.
LEMMA ClientStep ==
  ASSUME QueueInv, up, UNCHANGED <<runs, registry, journal, worker, foreign, up>>,
         QueueKeeps, CallTyped, fresh' \in BOOLEAN, fresh' => fresh /\ queue' = queue
  PROVE  QueueInv' /\ QueueKeeps
<1>1. RunsKeep /\ NoNewTurn /\ Known' = Known
  BY RunsUntouched
<1>2. TypeOK'
  BY <1>1 DEF QueueInv, TypeOK, QueueKeeps, CallTyped, Known
<1>3. runs'[body.run] = runs[body.run]
  OBVIOUS
<1> QED  BY <1>1, <1>2, <1>3, OutsideStep DEF QueueInv, AdmissionFits

\* A request that goes on or is answered keeps its type.
LEMMA CallStays ==
  ASSUME TypeOK, call' \in {call, NoCall}
  PROVE  CallTyped
  BY DEF TypeOK, CallTyped, Known, NoCall

\* The fields of the queue.
LEMMA QueueFacts ==
  ASSUME TypeOK
  PROVE  /\ queue \in Queues
         /\ queue.run \in 0..MaxRuns /\ queue.conv \in 0..MaxRuns
         /\ queue.items \in Seq(QueueItems) /\ queue.selected \in AgentOrNone
         /\ queue.source \in Sources /\ queue.deadline \in BOOLEAN
         /\ queue.state \in {"idle", "waiting", "countdown", "dispatching", "paused"}
         /\ queue.done \in Items \cup {None}
<1>1. queue \in Queues
  BY DEF TypeOK
<1> QED  BY <1>1 DEF Queues

\* The messages of the queue and its run stay, and so does what it is about; a
\* selection may be dropped, or changed while nothing is claimed.
LEMMA SameMessages ==
  ASSUME QueueInv, runs' = runs, queue' \in Queues, queue'.items = queue.items,
         queue'.run = queue.run, queue'.state = queue.state, queue'.done = queue.done,
         Claimed => queue'.selected \in {0, queue.selected}
  PROVE  QueueKeeps
<1>1. Claimed' = Claimed /\ First' = First /\ Pending' = Pending /\ Known' = Known
  BY DEF Claimed, First, Pending, Known
<1>2. ClaimsMatchQueue
  BY DEF QueueInv
<1>3. Claimed' => /\ First'.claim = Body(First'.claim.run, First'.claim.agent, First')
                  /\ First'.claim.run \in Known'
                  /\ queue'.selected # 0 => First'.claim.run = queue'.run
  BY <1>1, <1>2 DEF ClaimsMatchQueue
<1>4. ClaimsMatchQueue'
  BY <1>1, <1>2, <1>3 DEF ClaimsMatchQueue, Body
<1>5. QueueFits'
  BY <1>1 DEF QueueInv, QueueFits
<1> QED  BY <1>1, <1>4, <1>5 DEF QueueKeeps

\* What _follow_up_context leaves of the queue.
LEMMA AfterContextFacts ==
  ASSUME TypeOK, NEW r
  PROVE  LET q == AfterContext(r) IN
         /\ q \in Queues /\ q.items = queue.items /\ q.run = queue.run /\ q.conv = queue.conv
         /\ q.state = queue.state /\ q.done = queue.done
         /\ q.selected \in {0, queue.selected}
         /\ queue.state = "dispatching" => q = queue
<1> DEFINE u == Unselected(queue)
<1>1. queue \in Queues
  BY DEF TypeOK
<1>2. /\ u \in Queues /\ u.items = queue.items /\ u.run = queue.run /\ u.conv = queue.conv
      /\ u.state = queue.state /\ u.done = queue.done /\ u.selected = 0
  BY <1>1 DEF Unselected, Queues, Sources, AgentOrNone
<1>3. AfterContext(r) \in {u, queue} /\ (queue.state = "dispatching" => AfterContext(r) = queue)
  BY DEF AfterContext
<1> QED  BY <1>1, <1>2, <1>3

\* RefusedRequest keeps the invariant and the head's claim.
LEMMA RefusedRequestStep ==
  ASSUME QueueInv, NEW r \in Known, RefusedRequest(r)
  PROVE  QueueInv' /\ QueueKeeps
<1>1. /\ queue' = AfterContext(r) /\ fresh' = FALSE /\ up
      /\ UNCHANGED <<runs, registry, journal, worker, call, foreign, up>>
  BY DEF RefusedRequest, Request, Store
<1>2. QueueKeeps
  BY <1>1, AfterContextFacts, SameMessages DEF QueueInv
<1> QED  BY <1>1, <1>2, CallStays, ClientStep DEF QueueInv

\* EnqueueBegin keeps the invariant and the head's claim.
LEMMA EnqueueBeginStep ==
  ASSUME QueueInv, NEW r \in Known, NEW x \in Messages, EnqueueBegin(r, x)
  PROVE  QueueInv' /\ QueueKeeps
<1>1. /\ queue' = AfterContext(r) /\ fresh' = (fresh /\ queue' = queue) /\ up
      /\ UNCHANGED <<runs, registry, journal, worker, foreign, up>>
  BY DEF EnqueueBegin, Request
<1>2. call'.op = "enqueue" /\ call'.run = r /\ call'.item = x
  BY DEF EnqueueBegin, NoCall
<1>3. QueueKeeps
  BY <1>1, AfterContextFacts, SameMessages DEF QueueInv
<1>4. CallTyped
  BY <1>2 DEF CallTyped
<1>5. fresh' \in BOOLEAN /\ (fresh' => fresh /\ queue' = queue)
  BY <1>1
<1> QED  BY <1>1, <1>3, <1>4, <1>5, ClientStep

\* SelectBegin keeps the invariant and the head's claim.
LEMMA SelectBeginStep ==
  ASSUME QueueInv, NEW r \in Known, NEW a \in Agents, SelectBegin(r, a)
  PROVE  QueueInv' /\ QueueKeeps
<1>1. /\ queue' = queue /\ fresh' = fresh /\ up
      /\ UNCHANGED <<runs, registry, journal, worker, foreign, up>>
  BY DEF SelectBegin, Request
<1>2. call'.op = "select" /\ call'.run = r /\ call'.agent = a
  BY DEF SelectBegin, NoCall
<1>3. QueueKeeps
  BY <1>1, RunsUntouched, QueueUntouched
<1>4. CallTyped
  BY <1>2 DEF CallTyped
<1> QED  BY <1>1, <1>3, <1>4, ClientStep DEF QueueInv, TypeOK

\* Stop keeps the invariant and the head's claim.
LEMMA StopStep ==
  ASSUME QueueInv, NEW o \in Results, Stop(o)
  PROVE  QueueInv' /\ QueueKeeps
<1>1. TypeOK
  BY DEF QueueInv
<1> DEFINE r == call.run
<1>2. /\ up /\ call.op = "stop" /\ call' = NoCall
      /\ UNCHANGED <<queue, fresh, registry, journal, worker, foreign, up>>
  BY DEF Stop
<1>3. r \in Known
  BY <1>1, <1>2 DEF TypeOK, Known
<1>4. CASE runs[r].status # "active"
  <2>1. runs' = runs
    BY <1>4 DEF Stop
  <2>2. QueueKeeps
    BY <1>2, <2>1, RunsUntouched, QueueUntouched
  <2>3. CallTyped
    BY <1>1, <1>2, CallStays
  <2> QED  BY <1>1, <1>2, <2>1, <2>2, <2>3, ClientStep DEF TypeOK
<1>5. CASE runs[r].status = "active"
  <2>1. runs[r] \in SavedRuns /\ runs[r].saving \in AgentOrNone
    BY <1>1, <1>3, RunFacts
  <2>2. runs' = Moved(r, "settled", o, runs[r].saving)
    BY <1>5, <2>1 DEF Stop, SavedRuns, Moved
  <2>3. /\ RunsKeep /\ NoNewTurn /\ RunsTyped /\ Known' = Known
        /\ \A k \in Known \ {r} : runs'[k] = runs[k]
    BY <1>1, <1>3, <1>5, <2>1, <2>2, StatusMoves
  <2>4. worker.pc = "adopting" => body.run \in Known \ {r} /\ runs'[body.run] = runs[body.run]
    <3> SUFFICES ASSUME worker.pc = "adopting" PROVE body.run \in Known /\ body.run # r
      BY <2>3
    <3>1. body.run \in Known
      BY SentClaim DEF Sending
    <3>2. runs[body.run].status # "active"
      BY DEF QueueInv, AdmissionFits
    <3> QED  BY <1>5, <3>1, <3>2
  <2>5. QueueKeeps
    BY <1>2, <2>3, QueueUntouched
  <2>6. TypeOK'
    <3>1. Len(runs') \in Nat /\ Known' = 1..Len(runs') /\ Len(runs') = Len(runs)
      <4>1. Len(runs') = Len(runs)
        BY <1>1, <1>3, <2>1, <2>2, Types, ExceptSeq DEF Moved, Known
      <4> QED  BY <1>1, <4>1, Types DEF Known
    <3> QED  BY <1>1, <1>2, <2>3, <3>1 DEF TypeOK, RunsTyped, NoCall
  <2> QED  BY <1>2, <2>3, <2>4, <2>5, <2>6, OutsideStep DEF QueueInv, AdmissionFits
<1> QED  BY <1>4, <1>5

\* A queue whose messages change keeps the claim of its head, if it has one, and
\* gets no other.
LEMMA NewMessages ==
  ASSUME QueueInv, runs' = runs, queue' \in Queues, Distinct(queue'.items),
         queue'.done = queue.done,
         \A k \in 1..Len(queue'.items) :
           queue'.items[k].claim # None /\ queue'.items[k].hold = "none" => k = 1 /\ Claimed,
         Claimed => /\ queue'.items # <<>> /\ queue'.items[1] = First
                    /\ queue'.state = "dispatching"
                    /\ queue'.selected # 0 => queue.selected # 0 /\ queue'.run = queue.run,
         ~Claimed => queue'.state # "dispatching",
         queue'.state = "idle" <=> queue'.items = <<>>,
         queue'.state = "countdown" => queue'.items[1].hold = "none",
         queue'.run \in {0} \cup Known,
         queue'.items # <<>> \/ queue'.done # None => queue'.run # 0
  PROVE  QueueKeeps
<1>1. Known' = Known /\ First' = queue'.items[1] /\ (Pending' <=> queue'.items # <<>>)
  BY DEF Known, First, Pending
<1>2. queue'.items \in Seq(QueueItems) /\ Len(queue'.items) \in Nat
  BY LenProperties DEF Queues
<1>3. queue'.items # <<>> => 1 \in 1..Len(queue'.items)
  BY <1>2
<1>4. Claimed' <=> queue'.items # <<>> /\ queue'.items[1].claim # None /\ queue'.items[1].hold = "none"
  BY DEF Claimed, Pending, First
<1>5. Claimed' <=> Claimed
  <2>1. Claimed => First.claim # None /\ First.hold = "none"
    BY DEF Claimed
  <2> QED  BY <1>3, <1>4, <2>1
<1>6. ClaimsMatchQueue
  BY DEF QueueInv
<1>7. Claimed' => /\ First'.claim = Body(First'.claim.run, First'.claim.agent, First')
                  /\ First'.claim.run \in Known'
                  /\ queue'.selected # 0 => First'.claim.run = queue'.run
  BY <1>1, <1>5, <1>6 DEF ClaimsMatchQueue
<1>8. \A k \in 2..Len(queue'.items) : queue'.items[k].claim # None => queue'.items[k].hold # "none"
  BY <1>2
<1>9. ClaimsMatchQueue'
  BY <1>1, <1>5, <1>7, <1>8 DEF ClaimsMatchQueue, Body
<1>10. QueueFits'
  BY <1>1 DEF QueueFits, Distinct
<1> QED  BY <1>1, <1>5, <1>9, <1>10 DEF QueueKeeps

\* What the invariant says of the queue, in the form in which it is used.
LEMMA ClaimFacts ==
  ASSUME QueueInv
  PROVE  /\ queue.state = "dispatching" <=> Claimed
         /\ \A k \in 1..Len(queue.items) :
              queue.items[k].claim # None /\ queue.items[k].hold = "none" => k = 1 /\ Claimed
         /\ Claimed => queue.items # <<>> /\ queue.items[1] = First
         /\ Pending <=> queue.items # <<>>
         /\ Distinct(queue.items) /\ queue.run \in {0} \cup Known
         /\ queue.items # <<>> \/ queue.done # None => queue.run # 0
<1>1. Len(queue.items) \in Nat
  BY Types DEF QueueInv
<1>2. Claimed => queue.items # <<>> /\ queue.items[1] = First
  BY DEF Claimed, Pending, First
<1>3. \A k \in 1..Len(queue.items) :
        queue.items[k].claim # None /\ queue.items[k].hold = "none" => k = 1 /\ Claimed
  <2> SUFFICES ASSUME NEW k \in 1..Len(queue.items),
                      queue.items[k].claim # None, queue.items[k].hold = "none"
               PROVE  k = 1 /\ Claimed
    OBVIOUS
  <2>1. k \notin 2..Len(queue.items)
    BY DEF QueueInv, ClaimsMatchQueue
  <2>2. k = 1 /\ queue.items # <<>>
    BY <1>1, <2>1
  <2> QED  BY <2>2 DEF Claimed, Pending, First
<1> QED  BY <1>2, <1>3 DEF QueueInv, ClaimsMatchQueue, QueueFits, Pending

\* The queue whose head is held: it is not being sent any more.
LEMMA HeldFits ==
  ASSUME QueueInv, Pending, NEW why \in Holds \ {"none"}, runs' = runs,
         queue' = Held(queue, why)
  PROVE  /\ queue' \in Queues /\ ClaimsMatchQueue' /\ QueueFits'
         /\ queue'.done = queue.done
         /\ queue'.items # <<>> /\ queue'.items[1] = [First EXCEPT !.hold = why]
<1> DEFINE h == [queue.items[1] EXCEPT !.hold = why]
<1>1. queue \in Queues /\ queue.items \in Seq(QueueItems) /\ Len(queue.items) \in Nat
  BY Types DEF QueueInv
<1>2. 1 \in 1..Len(queue.items)
  BY <1>1 DEF Pending
<1>3. queue.items[1] \in QueueItems
  BY <1>1, <1>2, ElementOfSeq
<1>4. h \in QueueItems /\ h.id = queue.items[1].id /\ h.hold = why
  BY <1>3 DEF QueueItems
<1>5. queue' = [queue EXCEPT !.items = [queue.items EXCEPT ![1] = h], !.state = "paused",
                              !.deadline = FALSE]
  BY <1>1, <1>2, <1>3 DEF Held, Queues, QueueItems
<1> HIDE DEF h
<1>6. /\ [queue.items EXCEPT ![1] = h] \in Seq(QueueItems)
      /\ Len([queue.items EXCEPT ![1] = h]) = Len(queue.items)
      /\ \A j \in 1..Len(queue.items) :
           [queue.items EXCEPT ![1] = h][j] = IF j = 1 THEN h ELSE queue.items[j]
  BY <1>1, <1>2, <1>4, ExceptSeq
<1>7. /\ queue' \in Queues /\ queue'.items = [queue.items EXCEPT ![1] = h]
      /\ queue'.state = "paused" /\ queue'.run = queue.run /\ queue'.done = queue.done
  BY <1>1, <1>5, <1>6 DEF Queues
<1>8. /\ Len(queue'.items) = Len(queue.items) /\ queue'.items # <<>> /\ queue'.items[1] = h
      /\ \A j \in 2..Len(queue.items) : queue'.items[j] = queue.items[j]
      /\ \A j \in 1..Len(queue.items) : queue'.items[j].id = queue.items[j].id
  BY <1>1, <1>2, <1>4, <1>6, <1>7
<1>9. ~Claimed' /\ Pending' /\ Known' = Known
  BY <1>4, <1>8 DEF Claimed, Pending, First, Known
<1>10. ClaimsMatchQueue'
  BY <1>7, <1>8, <1>9 DEF QueueInv, ClaimsMatchQueue
<1>11. QueueFits'
  BY <1>7, <1>8, <1>9 DEF QueueInv, QueueFits, Distinct, Pending
<1> QED  BY <1>7, <1>8, <1>10, <1>11 DEF h, First

\* StopBegin keeps them: a claimed head makes it refuse the stop.
LEMMA StopBeginStep ==
  ASSUME QueueInv, NEW r \in Known, StopBegin(r)
  PROVE  QueueInv' /\ QueueKeeps
<1>1. up /\ UNCHANGED <<runs, registry, journal, worker, foreign, up>>
  BY DEF StopBegin, Request
<1>2. CallTyped
  <2>1. call'.op = "stop" /\ call'.run = r
    BY DEF StopBegin, NoCall
  <2> QED  BY <2>1 DEF CallTyped
<1>3. CASE queue.run = r /\ Pending
  <2>1. queue.state # "dispatching" /\ queue' = Held(queue, "stopped") /\ fresh' = FALSE
    BY <1>3 DEF StopBegin, Store
  <2>2. /\ queue' \in Queues /\ ClaimsMatchQueue' /\ QueueFits' /\ queue'.done = queue.done
        /\ queue'.items[1] = [First EXCEPT !.hold = "stopped"]
    BY <1>1, <1>3, <2>1, HeldFits DEF Holds
  <2>3. ~Claimed
    BY <2>1, ClaimFacts
  <2>4. First \in QueueItems
    BY <1>3, Types, ElementOfSeq DEF QueueInv, First, Pending
  <2>5. ~Claimed'
    BY <2>2, <2>4 DEF Claimed, First, QueueItems
  <2>6. QueueKeeps
    BY <2>2, <2>3, <2>5 DEF QueueKeeps
  <2> QED  BY <1>1, <1>2, <2>1, <2>6, ClientStep
<1>4. CASE ~(queue.run = r /\ Pending)
  <2>1. queue' = queue /\ fresh' = fresh
    BY <1>4 DEF StopBegin
  <2>2. QueueKeeps
    BY <1>1, <2>1, RunsUntouched, QueueUntouched
  <2> QED  BY <1>1, <1>2, <2>1, <2>2, ClientStep DEF QueueInv, TypeOK
<1> QED  BY <1>3, <1>4

\* The conversation that an update stores is a number of a run, or 0.
LEMMA ConversationTyped ==
  ASSUME TypeOK, NEW conv \in 0..MaxRuns
  PROVE  ConversationFor(conv) \in 0..MaxRuns
  BY QueueFacts DEF ConversationFor

\* A saved run has a number and a conversation.
LEMMA ConvTyped ==
  ASSUME TypeOK, NEW r \in Known
  PROVE  runs[r].conv \in 0..MaxRuns /\ r \in 0..MaxRuns /\ r # 0
<1>1. MaxRuns \in Nat /\ Len(runs) \in 1..MaxRuns /\ runs[r].conv \in Runs
  BY Types, RunFacts
<1> QED  BY <1>1 DEF Runs, Known

\* What is left of a queue that was cleared.
LEMMA ClearedFacts ==
  ASSUME TypeOK, NEW q \in Queues, NEW r \in {0} \cup Known, NEW conv \in 0..MaxRuns
  PROVE  LET c == Cleared(q, r, conv) IN
         /\ c \in Queues /\ c.items = <<>> /\ c.state = "idle" /\ c.done = q.done
         /\ c.run = IF r = 0 THEN q.run ELSE r
<1> DEFINE keep == r = 0 \/ q.run = r
           base == IF keep THEN q ELSE Unselected(q)
<1>1. base \in Queues /\ base.done = q.done /\ base.run = q.run
  BY DEF Unselected, Queues, Sources, AgentOrNone
<1>2. r \in 0..MaxRuns
  BY Types, ConvTyped
<1>3. Cleared(q, r, conv) =
        [base EXCEPT !.run = IF r = 0 THEN q.run ELSE r, !.conv = conv, !.items = <<>>,
                     !.selected = IF base.source = "none" THEN 0 ELSE base.selected,
                     !.state = "idle", !.deadline = FALSE]
  BY DEF Cleared
<1> HIDE DEF base
<1>4. base.selected \in AgentOrNone /\ 0 \in AgentOrNone /\ q.run \in 0..MaxRuns /\ <<>> \in Seq(QueueItems)
  BY <1>1, EmptySeq DEF Queues, AgentOrNone
<1>5. Cleared(q, r, conv) \in Queues
  BY <1>1, <1>2, <1>3, <1>4 DEF Queues
<1>6. /\ Cleared(q, r, conv).items = <<>> /\ Cleared(q, r, conv).state = "idle"
      /\ Cleared(q, r, conv).done = q.done
      /\ Cleared(q, r, conv).run = IF r = 0 THEN q.run ELSE r
  BY <1>1, <1>3 DEF Queues
<1> QED  BY <1>5, <1>6

\* Clear keeps the invariant: it is refused while the head is claimed.
LEMMA ClearStep ==
  ASSUME QueueInv, NEW r \in {0} \cup Known, Clear(r)
  PROVE  QueueInv' /\ QueueKeeps
<1>1. TypeOK
  BY DEF QueueInv
<1> DEFINE conv == IF r = 0 THEN 0 ELSE runs[r].conv
           q == IF r = 0 THEN queue ELSE AfterContext(r)
<1>2. /\ up /\ UNCHANGED <<runs, registry, journal, worker, call, foreign, up>>
      /\ queue.state # "dispatching" /\ fresh' = FALSE
      /\ queue' = Cleared(q, r, ConversationFor(conv))
  BY DEF Clear, Request, Store
<1>3. conv \in 0..MaxRuns
  BY <1>1, Types, ConvTyped
<1>4. q \in Queues /\ q.run = queue.run /\ q.done = queue.done
  BY <1>1, QueueFacts, AfterContextFacts
<1> HIDE DEF conv, q
<1>5. /\ queue' \in Queues /\ queue'.items = <<>> /\ queue'.state = "idle"
      /\ queue'.done = queue.done /\ queue'.run = IF r = 0 THEN queue.run ELSE r
  <2>1. ConversationFor(conv) \in 0..MaxRuns
    BY <1>1, <1>3, ConversationTyped
  <2> DEFINE c == Cleared(q, r, ConversationFor(conv))
  <2>2. /\ c \in Queues /\ c.items = <<>> /\ c.state = "idle" /\ c.done = q.done
        /\ c.run = IF r = 0 THEN q.run ELSE r
    BY <1>1, <1>4, <2>1, ClearedFacts
  <2>3. queue' = c
    BY <1>2
  <2> HIDE DEF c
  <2> QED  BY <1>4, <2>2, <2>3
<1>6. ~Claimed
  BY <1>2, ClaimFacts
<1>7. Len(queue'.items) = 0 /\ Distinct(queue'.items)
  BY <1>5, EmptySeq DEF Distinct
<1>8. queue'.run \in {0} \cup Known /\ (queue'.done # None => queue'.run # 0)
  BY <1>1, <1>5, ClaimFacts, ConvTyped
<1>9. QueueKeeps
  BY <1>2, <1>5, <1>6, <1>7, <1>8, NewMessages
<1> QED  BY <1>1, <1>2, <1>9, CallStays, ClientStep

\* Select keeps it: it is refused while the head is claimed.
LEMMA SelectStep ==
  ASSUME QueueInv, Select
  PROVE  QueueInv' /\ QueueKeeps
<1>1. TypeOK
  BY DEF QueueInv
<1>2. up /\ call.op = "select" /\ call' = NoCall /\ UNCHANGED <<runs, registry, journal, worker, foreign, up>>
  BY DEF Select
<1>3. call.run \in Known /\ call.agent \in Agents
  BY <1>1, <1>2 DEF TypeOK, Known
<1>4. CallTyped
  BY <1>1, <1>2, CallStays
<1>5. CASE queue' = queue /\ fresh' = fresh
  BY <1>1, <1>2, <1>4, <1>5, RunsUntouched, QueueUntouched, ClientStep DEF TypeOK
<1> DEFINE conv == runs[call.run].conv
           q == IF queue.run = call.run THEN queue ELSE Cleared(queue, call.run, conv)
<1>6. CASE /\ ~(Pending /\ queue.run # call.run) /\ queue.state # "dispatching" /\ fresh' = FALSE
           /\ queue' = [q EXCEPT !.selected = call.agent, !.source = "manual", !.deadline = FALSE,
                                 !.state = IF q.items = <<>> THEN q.state ELSE "waiting"]
  <2>1. conv \in 0..MaxRuns /\ call.run # 0
    BY <1>1, <1>3, ConvTyped
  <2>2. /\ q \in Queues /\ q.items = queue.items /\ q.done = queue.done /\ q.run = call.run
        /\ q.items = <<>> => q.state = "idle"
    <3>1. queue \in Queues /\ (queue.items = <<>> => queue.state = "idle")
      BY <1>1, QueueFacts DEF QueueInv, ClaimsMatchQueue, Pending
    <3> HIDE DEF conv
    <3>2. CASE queue.run = call.run
      BY <3>1, <3>2
    <3>3. CASE queue.run # call.run
      <4>1. queue.items = <<>>
        BY <1>6, <3>3 DEF Pending
      <4> QED  BY <1>1, <1>3, <2>1, <3>1, <3>3, <4>1, ClearedFacts
    <3> QED  BY <3>2, <3>3
  <2> HIDE DEF q
  <2>3. /\ queue' \in Queues /\ queue'.items = queue.items /\ queue'.done = queue.done
        /\ queue'.run = call.run
        /\ queue'.state = IF queue.items = <<>> THEN "idle" ELSE "waiting"
    <3>1. call.agent \in AgentOrNone
      BY <1>3 DEF AgentOrNone
    <3> QED  BY <1>6, <2>2, <3>1 DEF Queues, Sources
  <2>4. ~Claimed
    BY <1>6, ClaimFacts
  <2>5. QueueKeeps
    BY <1>2, <1>3, <2>1, <2>3, <2>4, ClaimFacts, NewMessages
  <2> QED  BY <1>2, <1>4, <1>6, <2>5, ClientStep
<1> QED  BY <1>5, <1>6 DEF Select, Store

\* A list written position by position.
LEMMA ListOf ==
  ASSUME NEW S, NEW n \in Nat, NEW f \in [1..n -> S]
  PROVE  f \in Seq(S) /\ Len(f) = n
<1>1. f \in Seq(S)
  BY SeqDef
<1>2. DOMAIN f = 1..n /\ DOMAIN f = 1..Len(f) /\ Len(f) \in Nat
  BY <1>1, LenProperties
<1> QED  BY <1>1, <1>2

\* UpdateDelay keeps it: a claimed head keeps the delay it was claimed with.
LEMMA UpdateDelayStep ==
  ASSUME QueueInv, NEW d \in Delays, UpdateDelay(d)
  PROVE  QueueInv' /\ QueueKeeps
<1>1. TypeOK /\ queue \in Queues /\ queue.items \in Seq(QueueItems) /\ Len(queue.items) \in Nat
  BY Types DEF QueueInv
<1> DEFINE free(k) == ~(k = 1 /\ (queue.state = "dispatching" \/ First.claim # None))
           changed == {k \in 1..Len(queue.items) : free(k) /\ queue.items[k].delay # d}
           items == [k \in 1..Len(queue.items) |->
                       IF k \in changed THEN [queue.items[k] EXCEPT !.delay = d]
                       ELSE queue.items[k]]
           late == queue.deadline \/ (1 \in changed /\ queue.state = "countdown" /\ First.hold = "none")
<1>2. /\ up /\ UNCHANGED <<runs, registry, journal, worker, call, foreign, up>> /\ fresh' = FALSE
      /\ queue' = [queue EXCEPT !.items = items, !.deadline = late]
  BY <1>1 DEF UpdateDelay, Request, Store, Queues
<1>3. \A k \in 1..Len(queue.items) : queue.items[k] \in QueueItems
  BY <1>1, ElementOfSeq
<1>4. \A k \in 1..Len(queue.items) :
        /\ items[k] \in QueueItems /\ items[k].id = queue.items[k].id
        /\ items[k].hold = queue.items[k].hold /\ items[k].claim = queue.items[k].claim
  <2>1. \A k \in 1..Len(queue.items) :
          /\ [queue.items[k] EXCEPT !.delay = d] \in QueueItems
          /\ [queue.items[k] EXCEPT !.delay = d].id = queue.items[k].id
          /\ [queue.items[k] EXCEPT !.delay = d].hold = queue.items[k].hold
          /\ [queue.items[k] EXCEPT !.delay = d].claim = queue.items[k].claim
    BY <1>3 DEF QueueItems
  <2> HIDE DEF changed
  <2> QED  BY <1>3, <2>1
<1>5. late \in BOOLEAN
  BY <1>1 DEF Queues
<1>6. Claimed => 1 \notin changed
  BY ClaimFacts
<1> HIDE DEF late, changed
<1>7. Claimed => queue.items # <<>> /\ items[1] = First
  BY <1>1, <1>6, ClaimFacts
<1>8. items \in Seq(QueueItems) /\ Len(items) = Len(queue.items)
  <2>1. items \in [1..Len(queue.items) -> QueueItems]
    BY <1>4
  <2> HIDE DEF items
  <2> QED  BY <1>1, <2>1, ListOf
<1>9. items = <<>> <=> queue.items = <<>>
  BY <1>1, <1>8
<1> HIDE DEF items
<1>10. /\ queue' \in Queues /\ queue'.items = items /\ queue'.state = queue.state
       /\ queue'.run = queue.run /\ queue'.done = queue.done /\ queue'.selected = queue.selected
  BY <1>1, <1>2, <1>5, <1>8 DEF Queues
<1>11. Distinct(items)
  BY <1>4, <1>8, ClaimFacts DEF Distinct
<1>12. \A k \in 1..Len(items) : items[k].claim # None /\ items[k].hold = "none" => k = 1 /\ Claimed
  BY <1>4, <1>8, ClaimFacts
<1>13. queue.state = "countdown" => items[1].hold = "none"
  <2> SUFFICES ASSUME queue.state = "countdown" PROVE items[1].hold = "none"
    OBVIOUS
  <2>1. queue.items # <<>> /\ queue.items[1].hold = "none"
    BY DEF QueueInv, ClaimsMatchQueue, Pending, First
  <2> QED  BY <1>1, <1>4, <2>1
<1>14. queue.state = "idle" <=> items = <<>>
  BY <1>9 DEF QueueInv, ClaimsMatchQueue, Pending
<1>15. QueueKeeps
  BY <1>2, <1>7, <1>9, <1>10, <1>11, <1>12, <1>13, <1>14, ClaimFacts, NewMessages
<1> QED  BY <1>1, <1>2, <1>15, CallStays, ClientStep

\* What clients send are messages without a claim.
LEMMA MessageFacts ==
  ASSUME NEW x \in Messages
  PROVE  x \in QueueItems /\ x.hold = "none" /\ x.claim = None
<1>1. PICK i \in Items, t \in Texts, d \in Delays, n \in Attempts : x = NewItem(i, t, d, n)
  BY DEF Messages
<1>2. x = [id |-> i, text |-> t, delay |-> d, attempt |-> n, hold |-> "none", claim |-> None]
  BY <1>1 DEF NewItem
<1> QED  BY <1>2 DEF QueueItems, Holds

\* Enqueue keeps it: the new message is not stored yet, and is the last one.
LEMMA EnqueueStep ==
  ASSUME QueueInv, Enqueue
  PROVE  QueueInv' /\ QueueKeeps
<1>1. TypeOK /\ queue \in Queues /\ queue.items \in Seq(QueueItems) /\ Len(queue.items) \in Nat
  BY Types DEF QueueInv
<1>2. up /\ call.op = "enqueue" /\ call' = NoCall /\ UNCHANGED <<runs, registry, journal, worker, foreign, up>>
  BY DEF Enqueue
<1>3. call.run \in Known /\ call.item \in Messages
  BY <1>1, <1>2 DEF TypeOK, Known
<1>4. CallTyped
  BY <1>1, <1>2, CallStays
<1>5. CASE queue' = queue /\ fresh' = fresh
  BY <1>1, <1>2, <1>4, <1>5, RunsUntouched, QueueUntouched, ClientStep DEF TypeOK
<1> DEFINE conv == runs[call.run].conv
           known == {queue.items[k].id : k \in 1..Len(queue.items)} \cup {queue.done}
           advanced == /\ queue.done # None /\ queue.conv = conv
                       /\ queue.run \notin call.ancestors
           anchored == Pending \/ advanced
           keep == anchored \/ queue.run = call.run
           items == Append(queue.items, call.item)
           run == IF anchored /\ queue.run # 0 THEN queue.run ELSE call.run
           selected == IF keep /\ queue.source # "none" THEN queue.selected ELSE 0
           source == IF keep THEN queue.source ELSE "none"
           state == IF queue.state = "dispatching" THEN "dispatching" ELSE "waiting"
           deadline == Pending /\ queue.deadline
<1>6. CASE /\ call.item.id \notin known /\ fresh' = FALSE
           /\ queue' = [queue EXCEPT !.run = run, !.conv = ConversationFor(conv), !.items = items,
                          !.selected = selected, !.source = source, !.state = state,
                          !.deadline = deadline]
  <2>1. call.item \in QueueItems /\ call.item.hold = "none" /\ call.item.claim = None
    BY <1>3, MessageFacts
  <2>2. /\ items \in Seq(QueueItems) /\ items # <<>> /\ Len(items) = Len(queue.items) + 1
        /\ \A k \in 1..Len(queue.items) : items[k] = queue.items[k]
        /\ items[Len(queue.items) + 1] = call.item
    BY <1>1, <2>1, AppendProperties
  <2>3. run \in Known /\ run \in 0..MaxRuns /\ (Pending => run = queue.run)
    <3>1. queue.run \in {0} \cup Known /\ (Pending => queue.run # 0)
      BY ClaimFacts
    <3>2. run \in Known /\ (Pending => run = queue.run)
      BY <1>3, <3>1
    <3> QED  BY <1>1, <3>2, ConvTyped
  <2>4. selected \in AgentOrNone /\ (selected # 0 => queue.selected # 0)
    BY <1>1 DEF Queues, AgentOrNone
  <2>5. source \in Sources /\ deadline \in BOOLEAN
    BY <1>1 DEF Queues, Sources
  <2>6. ConversationFor(conv) \in 0..MaxRuns
    <3>1. conv \in 0..MaxRuns
      BY <1>1, <1>3, ConvTyped
    <3> QED  BY <1>1, <3>1, ConversationTyped
  <2>7. Distinct(items)
    <3>1. \A k \in 1..Len(queue.items) : queue.items[k].id # call.item.id
      BY <1>6
    <3>2. \A j, k \in 1..Len(queue.items) : queue.items[j].id = queue.items[k].id => j = k
      BY ClaimFacts DEF Distinct
    <3> HIDE DEF items
    <3> SUFFICES ASSUME NEW j \in 1..Len(items), NEW k \in 1..Len(items),
                        items[j].id = items[k].id
                 PROVE  j = k
      BY DEF Distinct
    <3>3. /\ j \in 1..Len(queue.items) \/ j = Len(queue.items) + 1
          /\ k \in 1..Len(queue.items) \/ k = Len(queue.items) + 1
      BY <1>1, <2>2
    <3> QED  BY <2>2, <3>1, <3>2, <3>3
  <2>8. \A k \in 1..Len(items) : items[k].claim # None /\ items[k].hold = "none" => k = 1 /\ Claimed
    <3> HIDE DEF items
    <3> QED  BY <1>1, <2>1, <2>2, ClaimFacts
  <2>9. Claimed => items[1] = First
    <3> HIDE DEF items
    <3> QED  BY <1>1, <2>2, ClaimFacts
  <2> HIDE DEF items, run, selected, source, deadline, conv
  <2>10. /\ queue' \in Queues /\ queue'.items = items /\ queue'.run = run
         /\ queue'.selected = selected /\ queue'.state = state /\ queue'.done = queue.done
    BY <1>1, <1>6, <2>2, <2>3, <2>4, <2>5, <2>6 DEF Queues
  <2>11. run # 0
    BY <1>1, <2>3, ConvTyped
  <2>12. QueueKeeps
    BY <1>2, <2>2, <2>3, <2>4, <2>7, <2>8, <2>9, <2>10, <2>11, ClaimFacts, NewMessages
  <2> QED  BY <1>2, <1>4, <1>6, <2>12, ClientStep
<1>7. \/ queue' = queue /\ fresh' = fresh
      \/ /\ call.item.id \notin known /\ fresh' = FALSE
         /\ queue' = [queue EXCEPT !.run = run, !.conv = ConversationFor(conv), !.items = items,
                          !.selected = selected, !.source = source, !.state = state,
                          !.deadline = deadline]
  BY DEF Enqueue, Store
<1> QED  BY <1>5, <1>6, <1>7

\* The lists that clients send are sequences of messages.
LEMMA ListFacts ==
  ASSUME NEW list \in Lists
  PROVE  list \in Seq(Messages) /\ Len(list) \in Nat
         /\ \A k \in 1..Len(list) : list[k] \in Messages
<1>1. list \in Seq(Messages)
  <2>1. CASE list = <<>>
    BY <2>1, EmptySeq
  <2>2. CASE list \in {<<x>> : x \in Messages}
    <3>1. PICK x \in Messages : list = <<x>>
      BY <2>2
    <3> QED  BY <3>1
  <2>3. CASE list \in {<<x, y>> : x \in Messages, y \in Messages}
    <3>1. PICK x \in Messages, y \in Messages : list = <<x, y>>
      BY <2>3
    <3> QED  BY <3>1
  <2> QED  BY <2>1, <2>2, <2>3 DEF Lists
<1> QED  BY <1>1, LenProperties, ElementOfSeq

\* The rest of a list of distinct messages is one.
LEMMA RestFacts ==
  ASSUME NEW list \in Seq(Messages), Distinct(list), NEW k \in 1..Len(list)
  PROVE  LET rest == SubSeq(list, 1 + k, Len(list)) IN
         rest \in Seq(Messages) /\ Len(rest) \in Nat /\ Distinct(rest)
<1> DEFINE n == Len(list)
           m == 1 + k
           rest == SubSeq(list, m, n)
<1>1. n \in Nat /\ m \in Int /\ n \in Int /\ m >= 1
  BY LenProperties
<1>2. \A i \in m..n : list[i] \in Messages
  BY <1>1, ElementOfSeq
<1> HIDE DEF m, n
<1>3. /\ rest \in Seq(Messages) /\ Len(rest) = IF m <= n THEN n - m + 1 ELSE 0
      /\ \A i \in 1..(n - m + 1) : rest[i] = list[m + i - 1]
  BY <1>1, <1>2, SubSeqProperties
<1>4. Distinct(rest)
  <2> SUFFICES ASSUME NEW i \in 1..Len(rest), NEW j \in 1..Len(rest), rest[i].id = rest[j].id
               PROVE  i = j
    BY DEF Distinct
  <2>1. i \in 1..(n - m + 1) /\ j \in 1..(n - m + 1)
    BY <1>1, <1>3
  <2>2. m + i - 1 \in 1..n /\ m + j - 1 \in 1..n
    BY <1>1, <2>1
  <2>3. list[m + i - 1].id = list[m + j - 1].id
    BY <1>3, <2>1
  <2>4. m + i - 1 = m + j - 1
    BY <2>2, <2>3 DEF Distinct, n
  <2> QED  BY <1>1, <2>1, <2>4
<1>5. rest = SubSeq(list, 1 + k, Len(list))
  BY DEF m, n
<1> HIDE DEF rest
<1> QED  BY <1>3, <1>4, <1>5, LenProperties

\* Replace keeps it: a claimed head can only be replaced by itself.
LEMMA ReplaceStep ==
  ASSUME QueueInv, NEW r \in Known, NEW list \in Lists, NEW reset \in BOOLEAN,
         Distinct(list), Replace(r, list, reset)
  PROVE  QueueInv' /\ QueueKeeps
<1>1. TypeOK /\ queue \in Queues /\ queue.items \in Seq(QueueItems) /\ Len(queue.items) \in Nat
  BY Types DEF QueueInv
<1> DEFINE q == AfterContext(r)
           done == {k \in 1..Len(list) : list[k].id = q.done}
           rest == IF done = {} THEN list
                   ELSE SubSeq(list, 1 + CHOOSE k \in done : TRUE, Len(list))
           run == IF done = {} THEN r ELSE q.run
           source == IF q.run = run THEN q.source ELSE "none"
           selected == IF source = "none" THEN 0 ELSE q.selected
           same(x, y) == /\ x.id = y.id /\ x.text = y.text
                         /\ x.delay = y.delay /\ x.attempt = y.attempt
           old(x) == {k \in 1..Len(q.items) : same(q.items[k], x)}
           kept(x) == IF old(x) = {} THEN x ELSE q.items[CHOOSE k \in old(x) : TRUE]
           sending == q.state = "dispatching"
           items == [k \in 1..Len(rest) |-> kept(rest[k])]
           state == IF sending THEN "dispatching" ELSE IF rest = <<>> THEN "idle" ELSE "waiting"
           deadline == q.deadline /\ ~sending /\ ~reset /\ q.selected = selected
<1>2. /\ up /\ UNCHANGED <<runs, registry, journal, worker, call, foreign, up>> /\ fresh' = FALSE
      /\ sending => rest # <<>> /\ same(q.items[1], rest[1]) /\ q.selected = selected
      /\ queue' = [q EXCEPT !.run = run, !.conv = ConversationFor(runs[r].conv), !.items = items,
                            !.selected = selected, !.source = source, !.state = state,
                            !.deadline = deadline]
  BY DEF Replace, Request, Store
<1>3. /\ q \in Queues /\ q.items = queue.items /\ q.run = queue.run /\ q.state = queue.state
      /\ q.done = queue.done /\ (queue.state = "dispatching" => q = queue)
  BY <1>1, AfterContextFacts
<1> HIDE DEF q
<1>4. rest \in Seq(Messages) /\ Len(rest) \in Nat /\ Distinct(rest)
  <2>1. list \in Seq(Messages) /\ Len(list) \in Nat
    BY ListFacts
  <2>2. CASE done = {}
    BY <2>1, <2>2
  <2>3. CASE done # {}
    <3>1. (CHOOSE k \in done : TRUE) \in 1..Len(list)
      BY <2>3
    <3> QED  BY <2>1, <2>3, <3>1, RestFacts
  <2> QED  BY <2>2, <2>3
<1>5. run \in Known /\ run \in 0..MaxRuns /\ run # 0
  <2>1. CASE done = {}
    BY <1>1, <2>1, ConvTyped
  <2>2. CASE done # {}
    <3>1. PICK k \in 1..Len(list) : list[k].id = q.done
      BY <2>2
    <3>2. list[k].id \in Items
      BY ListFacts, MessageFacts DEF QueueItems
    <3>3. queue.done # None
      BY <1>3, <3>1, <3>2, NoneAssumption
    <3>4. queue.run \in Known
      BY <3>3, ClaimFacts
    <3> QED  BY <1>1, <1>3, <2>2, <3>4, ConvTyped
  <2> QED  BY <2>1, <2>2
<1> HIDE DEF done, rest, run
<1>6. source \in Sources /\ selected \in AgentOrNone
  BY <1>3 DEF Queues, Sources, AgentOrNone
<1>7. Claimed /\ selected # 0 => queue.selected # 0 /\ run = queue.run
  BY <1>3, ClaimFacts
<1>8. deadline \in BOOLEAN
  BY <1>3 DEF Queues
<1>9. \A x \in Messages :
        /\ kept(x) \in QueueItems /\ kept(x).id = x.id
        /\ kept(x).claim # None /\ kept(x).hold = "none" => Claimed /\ x.id = First.id
        /\ Claimed /\ same(First, x) => kept(x) = First
  <2> SUFFICES ASSUME NEW x \in Messages
               PROVE  /\ kept(x) \in QueueItems /\ kept(x).id = x.id
                      /\ kept(x).claim # None /\ kept(x).hold = "none" => Claimed /\ x.id = First.id
                      /\ Claimed /\ same(First, x) => kept(x) = First
    OBVIOUS
  <2>1. x \in QueueItems /\ x.claim = None
    BY MessageFacts
  <2>2. Claimed => 1 \in 1..Len(q.items) /\ q.items[1] = First
    BY <1>1, <1>3, ClaimFacts
  <2>3. CASE old(x) = {}
    <3>1. ~(Claimed /\ same(First, x))
      BY <2>2, <2>3
    <3> QED  BY <2>1, <2>3, <3>1
  <2>4. CASE old(x) # {}
    <3> DEFINE k == CHOOSE k \in old(x) : TRUE
    <3>1. k \in 1..Len(queue.items) /\ same(queue.items[k], x)
      BY <1>3, <2>4
    <3>2. kept(x) = queue.items[k]
      BY <1>3, <2>4
    <3> HIDE DEF k, kept
    <3>3. kept(x) \in QueueItems /\ kept(x).id = x.id
      BY <1>1, <3>1, <3>2, ElementOfSeq
    <3>4. kept(x).claim # None /\ kept(x).hold = "none" => Claimed /\ x.id = First.id
      BY <3>1, <3>2, ClaimFacts
    <3>5. Claimed /\ same(First, x) => kept(x) = First
      <4> SUFFICES ASSUME Claimed, same(First, x) PROVE kept(x) = First
        OBVIOUS
      <4>1. queue.items[1] = First /\ queue.items[1].id = queue.items[k].id
        BY <3>1, ClaimFacts
      <4>2. 1 \in 1..Len(queue.items)
        BY <1>3, <2>2
      <4>3. k = 1
        BY <3>1, <4>1, <4>2, ClaimFacts DEF Distinct
      <4> QED  BY <3>2, <4>1, <4>3
    <3> QED  BY <3>3, <3>4, <3>5
  <2> QED  BY <2>3, <2>4
<1>10. \A k \in 1..Len(rest) : rest[k] \in Messages
  BY <1>4, ElementOfSeq
<1> HIDE DEF kept
<1>11. items \in Seq(QueueItems) /\ Len(items) = Len(rest)
  <2>1. items \in [1..Len(rest) -> QueueItems]
    BY <1>9, <1>10
  <2> HIDE DEF items
  <2> QED  BY <1>4, <2>1, ListOf
<1>12. \A k \in 1..Len(rest) :
         /\ items[k].id = rest[k].id
         /\ items[k].claim # None /\ items[k].hold = "none" => Claimed /\ rest[k].id = First.id
         /\ Claimed /\ same(First, rest[k]) => items[k] = First
  BY <1>9, <1>10
<1> HIDE DEF items
<1>13. Distinct(items)
  BY <1>4, <1>11, <1>12 DEF Distinct
<1>14. items = <<>> <=> rest = <<>>
  BY <1>4, <1>11
<1>15. Claimed => /\ rest # <<>> /\ 1 \in 1..Len(rest) /\ same(First, rest[1]) /\ items[1] = First
  <2> SUFFICES ASSUME Claimed
               PROVE  rest # <<>> /\ 1 \in 1..Len(rest) /\ same(First, rest[1]) /\ items[1] = First
    OBVIOUS
  <2>1. rest # <<>> /\ same(First, rest[1])
    BY <1>2, <1>3, ClaimFacts
  <2>2. 1 \in 1..Len(rest)
    BY <1>4, <2>1
  <2> QED  BY <1>12, <2>1, <2>2
<1>16. \A k \in 1..Len(items) : items[k].claim # None /\ items[k].hold = "none" => k = 1 /\ Claimed
  <2> SUFFICES ASSUME NEW k \in 1..Len(rest), items[k].claim # None, items[k].hold = "none"
               PROVE  k = 1 /\ Claimed
    BY <1>11
  <2>1. Claimed /\ rest[k].id = First.id
    BY <1>12
  <2>2. 1 \in 1..Len(rest) /\ rest[1].id = First.id
    BY <1>15, <2>1
  <2> QED  BY <1>4, <2>1, <2>2 DEF Distinct
<1>17. ConversationFor(runs[r].conv) \in 0..MaxRuns
  BY <1>1, ConvTyped, ConversationTyped
<1>18. /\ state \in {"idle", "waiting", "dispatching"}
       /\ state = "dispatching" <=> Claimed
       /\ state = "idle" <=> items = <<>>
  BY <1>2, <1>3, <1>14, ClaimFacts
<1> HIDE DEF selected, source, deadline, state
<1>19. /\ queue' \in Queues /\ queue'.items = items /\ queue'.run = run
       /\ queue'.selected = selected /\ queue'.state = state /\ queue'.done = queue.done
  BY <1>2, <1>3, <1>5, <1>6, <1>8, <1>11, <1>17, <1>18 DEF Queues
<1>20. QueueKeeps
  BY <1>2, <1>5, <1>7, <1>13, <1>14, <1>15, <1>16, <1>18, <1>19, NewMessages
<1> QED  BY <1>1, <1>2, <1>20, CallStays, ClientStep

-----------------------------------------------------------------------------
(* The coordinator's pass goes on: the queue stays as it is.                *)

Whys == Holds \cup {"final", "retry"}

\* The pass goes to the next point with the message that it copied.
LEMMA GoToFacts ==
  ASSUME worker \in Passes, NEW p \in PassPoints, GoTo(p)
  PROVE  /\ worker' \in Passes /\ worker'.pc = p /\ worker'.snap = worker.snap
         /\ worker'.agent = worker.agent /\ worker'.next = worker.next /\ worker'.why = worker.why
  BY DEF GoTo, Passes

\* The pass when it fails or is about to pause.
LEMMA GoToWhyFacts ==
  ASSUME worker \in Passes, NEW why \in Whys, PauseFor(why) \/ Raise(why)
  PROVE  /\ worker' \in Passes /\ worker'.snap = worker.snap /\ worker'.why = why
         /\ PauseFor(why) => worker'.pc = "pause"
         /\ Raise(why) => worker'.pc = "raised"
  BY DEF PauseFor, Raise, Passes, PassPoints, Whys

\* The pass when it is about to tell the queue that run r was started.
LEMMA CompleteFacts ==
  ASSUME worker \in Passes, NEW r \in 0..MaxRuns, CompleteWith(r)
  PROVE  /\ worker' \in Passes /\ worker'.snap = worker.snap
         /\ worker'.pc = "complete" /\ worker'.next = r
  BY DEF CompleteWith, Passes, PassPoints

\* What is the same wherever the pass goes.
PassGoes ==
  /\ up /\ worker.pc # "idle"
  /\ UNCHANGED <<queue, fresh, call, foreign, up>>
  /\ worker' \in Passes /\ worker'.snap = worker.snap /\ worker'.pc # "idle"
  /\ RunsKeep /\ RunsTyped /\ registry' \in Known'

\* The state keeps its types wherever the pass goes.
LEMMA TypesOfPass ==
  ASSUME TypeOK, PassGoes, journal' \in [Commands -> JournalRecords],
         \A c \in Commands : journal'[c].status # "none" <=> journal'[c].body # None
  PROVE  TypeOK'
<1>1. Len(runs') \in Nat /\ Known' = 1..Len(runs') /\ Len(runs) <= Len(runs')
  BY LenProperties, Types DEF PassGoes, RunsTyped, RunsKeep, Known
<1>2. foreign' \in 0..Len(runs')
  BY <1>1, Types DEF TypeOK, PassGoes
<1>3. call'.op # "none" => call'.run \in 1..Len(runs')
  BY <1>1 DEF TypeOK, PassGoes, RunsKeep, Known
<1>4. worker' # Resting
  BY DEF PassGoes, Resting
<1>5. \A r \in 1..Len(runs') : runs'[r].from < r /\ runs'[r].conv <= r /\ RunFits(runs'[r])
  BY <1>1 DEF PassGoes, RunsTyped
<1>6. runs' \in Seq(SavedRuns) /\ Len(runs') \in Runs /\ registry' \in 1..Len(runs')
  BY <1>1 DEF PassGoes, RunsTyped
<1> QED  BY <1>2, <1>3, <1>4, <1>5, <1>6 DEF TypeOK, PassGoes

\* What the pass knows stays true when it goes on with the same copy.
LEMMA PassFitsGoing ==
  ASSUME QueueInv, PassGoes,
         worker'.pc \in Sending => Claimed,
         worker'.pc \in {"wait", "countdown", "claim"} => ~Claimed,
         worker'.pc \in {"countdown", "claim"} => worker'.agent # 0,
         worker'.pc = "pause" => worker'.why \in Holds \ {"none"},
         worker'.pc \in {"complete", "register", "finish"} => ServesHead(worker.next)'
  PROVE  PassFits' /\ QueueKeeps
<1>1. QueueKeeps
  BY QueueUntouched DEF PassGoes
<1>2. Claimed' = Claimed /\ First' = First /\ Pending' = Pending
  BY DEF Claimed, First, Pending, PassGoes
<1>3. /\ worker'.snap = worker.snap /\ worker.snap.run \in Known' /\ fresh' = fresh
      /\ queue' = queue
  BY DEF QueueInv, PassFits, PassGoes, RunsKeep
<1>4. /\ worker'.snap.head # None /\ worker'.snap.head.hold = "none"
      /\ worker'.snap.run \in Known'
      /\ worker'.snap.head.claim # None <=> Claimed'
      /\ Claimed' => First' = worker'.snap.head
      /\ fresh' => Pending' /\ First' = worker'.snap.head /\ queue'.run = worker'.snap.run
  BY <1>2, <1>3 DEF QueueInv, PassFits, PassGoes
<1>5. PassFits'
  BY <1>2, <1>4, Zenon DEF PassFits
<1> QED  BY <1>1, <1>5

\* The pass goes on, and neither the runs nor the journal change.
LEMMA PassReads ==
  ASSUME QueueInv, up, worker.pc # "idle",
         UNCHANGED <<queue, fresh, runs, registry, journal, call, foreign, up>>,
         worker' \in Passes, worker'.snap = worker.snap, worker'.pc # "idle",
         worker'.pc \in Sending => Claimed,
         worker'.pc \in {"wait", "countdown", "claim"} => ~Claimed,
         worker'.pc \in {"countdown", "claim"} => worker'.agent # 0,
         worker'.pc = "pause" => worker'.why \in Holds \ {"none"},
         worker'.pc = "complete" => ServesHead(worker'.next),
         worker'.pc \notin {"admit", "adopting", "commit", "register", "finish"}
  PROVE  QueueInv'
<1>1. RunsKeep /\ NoNewTurn /\ RunsTyped /\ Known' = Known
  BY RunsUntouched
<1>2. PassGoes
  BY <1>1 DEF PassGoes, QueueInv, TypeOK, Known
<1>3. TypeOK'
  BY <1>2, TypesOfPass DEF QueueInv, TypeOK
<1>4. worker'.pc \in {"complete", "register", "finish"} => ServesHead(worker.next)'
  BY <1>1 DEF ServesHead
<1>5. PassFits' /\ QueueKeeps
  BY <1>2, <1>4, PassFitsGoing
<1>6. JournalFits'
  BY <1>1 DEF QueueInv, JournalFits
<1>7. OneTurnPerAttempt' /\ TurnsKeepLineage'
  BY <1>1 DEF QueueInv, OneTurnPerAttempt, TurnsKeepLineage
<1>8. AdmissionFits'
  BY DEF AdmissionFits
<1> QED  BY <1>3, <1>5, <1>6, <1>7, <1>8 DEF QueueInv, QueueKeeps

\* Snapshot keeps the invariant: the copy is the head of the queue.
LEMMA SnapshotStep ==
  ASSUME QueueInv, Snapshot
  PROVE  QueueInv'
<1>1. TypeOK /\ queue \in Queues /\ queue.items \in Seq(QueueItems) /\ Len(queue.items) \in Nat
  BY Types DEF QueueInv
<1>2. /\ up /\ Pending /\ First.hold = "none" /\ fresh' = TRUE /\ worker = Resting
      /\ UNCHANGED <<queue, runs, registry, journal, call, foreign, up>>
  BY DEF Snapshot, Outside
<1>3. First \in QueueItems
  BY <1>1, <1>2, ElementOfSeq DEF Pending, First
<1>4. worker' = [worker EXCEPT !.pc = "compare", !.snap = Copy(queue)]
  BY DEF Snapshot
<1>5. Copy(queue) \in [run : 0..MaxRuns, selected : AgentOrNone, source : Sources,
                       deadline : BOOLEAN, head : QueueItems \cup {None}]
  BY <1>1, <1>3, QueueFacts DEF Copy, First
<1>6. worker' \in Passes /\ worker'.pc = "compare" /\ worker'.snap = Copy(queue)
  <2> DEFINE c == Copy(queue)
  <2>1. worker \in Passes /\ worker' = [worker EXCEPT !.pc = "compare", !.snap = c]
    BY <1>4, Types DEF QueueInv
  <2> HIDE DEF c
  <2>2. worker' \in Passes /\ worker'.pc = "compare" /\ worker'.snap = c
    BY <1>5, <2>1 DEF Passes, PassPoints, c
  <2> QED  BY <2>2 DEF c
<1>7. Copy(queue).head = First /\ Copy(queue).run = queue.run
  BY DEF Copy, First
<1>8. RunsKeep /\ NoNewTurn /\ RunsTyped /\ Known' = Known
  BY <1>2, RunsUntouched
<1>9. QueueKeeps
  BY <1>2, <1>8, QueueUntouched
<1>10. TypeOK'
  <2>1. worker' # Resting
    BY <1>6 DEF Resting
  <2> QED  BY <1>1, <1>2, <1>6, <2>1 DEF TypeOK
<1>11. PassFits'
  <2>1. queue.run \in Known /\ First # None
    BY <1>2, <1>3, ClaimFacts, NoneAssumption
  <2>2. Claimed' = Claimed /\ First' = First /\ Pending' = Pending
    BY <1>2 DEF Claimed, First, Pending
  <2>3. Claimed <=> First.claim # None
    BY <1>2 DEF Claimed
  <2>4. /\ worker'.snap.head # None /\ worker'.snap.head.hold = "none"
        /\ worker'.snap.run \in Known'
        /\ worker'.snap.head.claim # None <=> Claimed'
        /\ Claimed' => First' = worker'.snap.head
        /\ fresh' => Pending' /\ First' = worker'.snap.head /\ queue'.run = worker'.snap.run
    BY <1>2, <1>6, <1>7, <1>8, <2>1, <2>2, <2>3
  <2>5. worker'.pc \notin Sending
    BY <1>6 DEF Sending
  <2> QED  BY <1>6, <2>4, <2>5, Zenon DEF PassFits
<1>12. JournalFits'
  BY <1>2, <1>6, <1>8 DEF QueueInv, JournalFits
<1>13. OneTurnPerAttempt' /\ TurnsKeepLineage'
  BY <1>2, <1>8 DEF QueueInv, OneTurnPerAttempt, TurnsKeepLineage
<1>14. AdmissionFits'
  BY <1>6 DEF AdmissionFits
<1> QED  BY <1>9, <1>10, <1>11, <1>12, <1>13, <1>14 DEF QueueInv, QueueKeeps

\* The copied message, while there is a pass.
LEMMA HeadFacts ==
  ASSUME QueueInv, worker.pc # "idle"
  PROVE  /\ worker.snap.head \in QueueItems /\ worker.snap.head.hold = "none"
         /\ worker.snap.run \in Known /\ worker.snap.run \in Runs
         /\ worker.snap.head.claim # None <=> Claimed
         /\ worker.snap.head.claim \in Bodies \cup {None}
         /\ Command(worker.snap.head) \in Commands
<1>1. worker \in Passes
  BY Types DEF QueueInv
<1>2. worker.snap.head \in QueueItems \cup {None}
  BY <1>1 DEF Passes
<1>3. /\ worker.snap.head # None /\ worker.snap.head.hold = "none" /\ worker.snap.run \in Known
      /\ worker.snap.head.claim # None <=> Claimed
  BY DEF QueueInv, PassFits
<1>4. worker.snap.head \in QueueItems /\ worker.snap.run \in Runs
  BY <1>2, <1>3, Types DEF QueueInv
<1> QED  BY <1>3, <1>4 DEF QueueItems, Command, Commands

\* A run that is taken for the message's own was started for it.
LEMMA MatchesServes ==
  ASSUME QueueInv, worker.pc # "idle", NEW r \in Known,
         Matches(r, worker.snap.run, worker.snap.head)
  PROVE  ServesHead(r)
<1> DEFINE head == worker.snap.head
           b == IF head.claim # None THEN head.claim ELSE Body(worker.snap.run, runs[r].agent, head)
<1>1. /\ head \in QueueItems /\ head.claim \in Bodies \cup {None} /\ worker.snap.run \in Runs
      /\ Command(head) \in Commands
  BY HeadFacts
<1>2. /\ runs[r].command = Submission(Command(head), b)
      /\ head.claim = None => runs[r].agent # 0
  BY DEF Matches
<1>3. runs[r].agent \in AgentOrNone
  BY RunFacts DEF QueueInv
<1>4. head.claim = None => Body(worker.snap.run, runs[r].agent, head) \in Bodies
  BY <1>1, <1>2, <1>3 DEF Body, Bodies, QueueItems, AgentOrNone
<1>5. b \in Bodies
  BY <1>1, <1>4
<1> HIDE DEF b
<1>6. runs[r].command \in Submissions
  BY <1>1, <1>2, <1>5 DEF Submission, Submissions
<1>7. /\ runs[r].command # None /\ runs[r].command.id = Command(head)
      /\ runs[r].command.body = b
  BY <1>2, <1>6, NoneAssumption DEF Submission
<1> QED  BY <1>7 DEF ServesHead, b

\* Compare keeps it: a run that is taken for the message's turn was started for it.
LEMMA CompareStep ==
  ASSUME QueueInv, Compare
  PROVE  QueueInv'
<1>1. /\ up /\ worker.pc = "compare"
      /\ UNCHANGED <<queue, fresh, runs, registry, journal, call, foreign, up>>
  BY DEF Compare, At, Outside
<1>2. worker \in Passes /\ registry \in Known /\ registry \in 0..MaxRuns
  BY Types, ConvTyped DEF QueueInv, TypeOK, Known
<1>3. /\ worker' \in Passes /\ worker'.snap = worker.snap
      /\ worker'.pc \in {"inspect", "complete", "pause"}
      /\ worker'.pc = "complete" => ServesHead(worker'.next)
      /\ worker'.pc = "pause" => worker'.why \in Holds \ {"none"}
  <2>1. CASE GoTo("inspect")
    BY <1>2, <2>1, GoToFacts DEF PassPoints
  <2>2. CASE CompleteWith(registry) /\ Matches(registry, worker.snap.run, worker.snap.head)
    BY <1>1, <1>2, <2>2, CompleteFacts, MatchesServes
  <2>3. CASE PauseFor("changed")
    BY <1>2, <2>3, GoToWhyFacts DEF Holds, Whys
  <2> QED  BY <2>1, <2>2, <2>3 DEF Compare
<1>4. worker'.pc \notin Sending
  BY <1>3 DEF Sending
<1> QED  BY <1>1, <1>3, <1>4, PassReads

\* The pass decides to pause.
LEMMA PauseForGoes ==
  ASSUME QueueInv, up, worker.pc # "idle", NEW why \in Holds \ {"none"}, PauseFor(why),
         UNCHANGED <<queue, fresh, runs, registry, journal, call, foreign, up>>
  PROVE  QueueInv'
<1>1. /\ worker' \in Passes /\ worker'.snap = worker.snap /\ worker'.pc = "pause"
      /\ worker'.why \in Holds \ {"none"}
  BY Types, GoToWhyFacts DEF QueueInv, Whys
<1> QED  BY <1>1, PassReads DEF Sending

\* ReadFails keeps the invariant.
LEMMA ReadFailsStep ==
  ASSUME QueueInv, ReadFails
  PROVE  QueueInv'
<1>1. UNCHANGED <<queue, runs, registry, journal, call, foreign, up>>
  BY DEF ReadFails, Outside
<1>2. CASE At("compare") /\ PauseFor("blocked") /\ UNCHANGED fresh
  BY <1>1, <1>2, PauseForGoes DEF At, Holds
<1>3. CASE At("inspect") /\ Rest
  BY <1>3, PassEndsQuietly DEF ReadFails
<1> QED  BY <1>2, <1>3 DEF ReadFails

\* StillCounting keeps the invariant.
LEMMA StillCountingStep ==
  ASSUME QueueInv, StillCounting
  PROVE  QueueInv'
  BY PassEndsQuietly DEF StillCounting

\* Inspect keeps it: only a claimed message goes on to be sent.
LEMMA InspectStep ==
  ASSUME QueueInv, Inspect
  PROVE  QueueInv'
<1> DEFINE s == worker.snap
           a == SourceAgent(s, s.run)
           claimed == s.head.claim # None
           counted == s.source # "none" /\ s.selected = a /\ s.deadline
           choose(pc) == worker' = [worker EXCEPT !.pc = pc, !.agent = a] /\ UNCHANGED fresh
<1>1. up /\ worker.pc = "inspect" /\ UNCHANGED <<queue, runs, registry, journal, call, foreign, up>>
  BY DEF Inspect, At, Outside
<1>2. worker \in Passes /\ TypeOK
  BY Types DEF QueueInv
<1>3. claimed <=> Claimed
  BY <1>1, HeadFacts
<1>4. a \in AgentOrNone
  BY <1>1, <1>2, HeadFacts, SourceAgentIsAgent
<1>5. CASE Rest
  BY <1>5, PassEndsQuietly DEF Inspect
<1>6. CASE PauseFor("blocked") /\ UNCHANGED fresh
  BY <1>1, <1>6, PauseForGoes DEF Holds
<1>7. CASE ~claimed /\ GoTo("wait") /\ UNCHANGED fresh
  <2>1. worker' \in Passes /\ worker'.snap = worker.snap /\ worker'.pc = "wait"
    BY <1>2, <1>7, GoToFacts DEF PassPoints
  <2> QED  BY <1>1, <1>3, <1>7, <2>1, PassReads DEF Sending
<1>8. CASE claimed /\ GoTo("execute") /\ UNCHANGED fresh
  <2>1. worker' \in Passes /\ worker'.snap = worker.snap /\ worker'.pc = "execute"
    BY <1>2, <1>8, GoToFacts DEF PassPoints
  <2> QED  BY <1>1, <1>3, <1>8, <2>1, PassReads DEF Sending
<1>9. ASSUME NEW pc \in {"countdown", "claim"}, ~claimed, a # 0, choose(pc)
      PROVE  QueueInv'
  <2>1. worker' = [worker EXCEPT !.pc = pc, !.agent = a]
    BY <1>9
  <2> HIDE DEF a
  <2>2. worker' \in Passes /\ worker'.snap = worker.snap /\ worker'.pc = pc /\ worker'.agent = a
    BY <1>2, <1>4, <2>1 DEF Passes, PassPoints
  <2>3. fresh' = fresh
    BY <1>9
  <2> QED  BY <1>1, <1>3, <1>9, <2>2, <2>3, PassReads DEF Sending
<1>10. \/ Rest
       \/ PauseFor("blocked") /\ UNCHANGED fresh
       \/ ~claimed /\ GoTo("wait") /\ UNCHANGED fresh
       \/ claimed /\ GoTo("execute") /\ UNCHANGED fresh
       \/ ~claimed /\ a # 0 /\ choose("countdown")
       \/ ~claimed /\ a # 0 /\ choose("claim")
  BY DEF Inspect
<1> HIDE DEF choose, claimed, a
<1> QED  BY <1>5, <1>6, <1>7, <1>8, <1>9, <1>10

-----------------------------------------------------------------------------
(* The pass changes the queue.                                              *)

\* The messages stay as they are, and nothing is claimed.
LEMMA NothingClaimed ==
  ASSUME QueueInv, ~Claimed, Pending, First.hold = "none", runs' = runs, queue' \in Queues,
         queue'.items = queue.items, queue'.run = queue.run, queue'.done = queue.done,
         queue'.state \in {"waiting", "countdown"}
  PROVE  ClaimsMatchQueue' /\ QueueFits' /\ ~Claimed'
<1>1. Claimed' = Claimed /\ First' = First /\ Pending' = Pending /\ Known' = Known
  BY DEF Claimed, First, Pending, Known
<1>2. ClaimsMatchQueue'
  BY <1>1 DEF QueueInv, ClaimsMatchQueue
<1>3. QueueFits'
  BY <1>1 DEF QueueInv, QueueFits
<1> QED  BY <1>1, <1>2, <1>3

\* A step that leaves the queue and the runs alone leaves the head's claim alone.
LEMMA QuietQueue ==
  ASSUME QueueInv, runs' = runs, queue' = queue
  PROVE  queue' \in Queues /\ ClaimsMatchQueue' /\ QueueFits' /\ (Claimed' <=> Claimed)
  BY RunsUntouched, QueueUntouched DEF QueueKeeps

\* A pass that ends with a change of the queue.
LEMMA PassEndsWriting ==
  ASSUME QueueInv, Rest, UNCHANGED <<runs, registry, journal, Outside>>,
         queue' \in Queues, ClaimsMatchQueue', QueueFits'
  PROVE  QueueInv'
<1>1. up \in BOOLEAN /\ (~up => call = NoCall /\ foreign = 0)
  BY DEF QueueInv, TypeOK
<1> QED  BY <1>1, PassEnds DEF Rest, Outside

\* Wait keeps the invariant.
LEMMA WaitStep ==
  ASSUME QueueInv, Wait
  PROVE  QueueInv'
<1>1. Rest /\ UNCHANGED <<runs, registry, journal, Outside>> /\ worker.pc = "wait"
  BY DEF Wait, At
<1>2. CASE ~HeadMatches
  BY <1>1, <1>2, PassEndsQuietly DEF Wait
<1>3. CASE HeadMatches
  <2>1. queue' = [Unselected(queue) EXCEPT !.state = "waiting"]
    BY <1>3 DEF Wait
  <2>2. /\ queue' \in Queues /\ queue'.items = queue.items /\ queue'.run = queue.run
        /\ queue'.done = queue.done /\ queue'.state = "waiting"
    BY <2>1, QueueFacts DEF QueueInv, Unselected, Queues, Sources, AgentOrNone
  <2>3. ~Claimed
    BY <1>1 DEF QueueInv, PassFits
  <2> QED  BY <1>1, <1>3, <2>2, <2>3, NothingClaimed, PassEndsWriting DEF HeadMatches
<1> QED  BY <1>2, <1>3

\* Countdown keeps it, and the pass that goes on copies the queue again.
LEMMA CountdownStep ==
  ASSUME QueueInv, Countdown
  PROVE  QueueInv'
<1>1. UNCHANGED <<runs, registry, journal, Outside>> /\ worker.pc = "countdown" /\ up
  BY DEF Countdown, At
<1>2. worker.agent \in AgentOrNone /\ worker.agent # 0 /\ ~Claimed /\ worker \in Passes
  BY <1>1, Types DEF QueueInv, PassFits, Passes
<1>3. queue' \in Queues /\ ClaimsMatchQueue' /\ QueueFits' /\ ~Claimed'
  <2>1. CASE HeadMatches
    <3>1. queue' = [queue EXCEPT !.selected = worker.agent, !.state = "countdown",
                                 !.source = IF queue.source = "manual" THEN "manual" ELSE "automatic",
                                 !.deadline = TRUE]
      BY <2>1, QueueFacts DEF Countdown, QueueInv, Queues
    <3>2. /\ queue' \in Queues /\ queue'.items = queue.items /\ queue'.run = queue.run
          /\ queue'.done = queue.done /\ queue'.state = "countdown"
      BY <1>2, <3>1, QueueFacts DEF QueueInv, Queues, Sources
    <3> QED  BY <1>1, <1>2, <2>1, <3>2, NothingClaimed DEF HeadMatches
  <2>2. CASE ~HeadMatches
    BY <1>1, <1>2, <2>2, QuietQueue DEF Countdown
  <2> QED  BY <2>1, <2>2
<1>4. CASE Rest
  BY <1>1, <1>3, <1>4, PassEndsWriting
<1>5. CASE /\ queue'.state = "countdown" /\ fresh' = TRUE
           /\ worker' = [worker EXCEPT !.pc = "claim",
                                       !.snap = [Copy(queue') EXCEPT !.deadline = FALSE]]
  <2>1. Pending' /\ First'.hold = "none"
    BY <1>3, <1>5 DEF ClaimsMatchQueue
  <2>2. queue'.items \in Seq(QueueItems) /\ First' \in QueueItems
    <3>1. queue'.items \in Seq(QueueItems) /\ Len(queue'.items) \in Nat
      BY <1>3, LenProperties DEF Queues
    <3>2. 1 \in 1..Len(queue'.items)
      BY <2>1, <3>1 DEF Pending
    <3> QED  BY <3>1, <3>2, ElementOfSeq DEF First
  <2> DEFINE copy == Copy(queue')
             c == [copy EXCEPT !.deadline = FALSE]
             copies == [run : 0..MaxRuns, selected : AgentOrNone, source : Sources,
                        deadline : BOOLEAN, head : QueueItems \cup {None}]
  <2>3. copy \in copies /\ copy.head = First' /\ copy.run = queue'.run
    BY <1>3, <2>2 DEF Copy, First, Queues
  <2>4. c \in copies /\ c.head = First' /\ c.run = queue'.run
    <3> HIDE DEF copy
    <3> QED  BY <2>3
  <2>5. worker' = [worker EXCEPT !.pc = "claim", !.snap = c]
    BY <1>5
  <2> HIDE DEF c
  <2>6. worker' \in Passes /\ worker'.pc = "claim" /\ worker'.snap = c /\ worker'.agent = worker.agent
    BY <1>2, <2>4, <2>5 DEF Passes, PassPoints
  <2>7. RunsKeep /\ NoNewTurn /\ RunsTyped /\ Known' = Known
    BY <1>1, RunsUntouched
  <2>8. TypeOK'
    <3>1. worker' # Resting
      BY <2>6 DEF Resting
    <3> QED  BY <1>1, <1>3, <1>5, <2>6, <3>1 DEF QueueInv, TypeOK, Outside
  <2>9. PassFits'
    <3>1. queue'.run \in Known' /\ First' # None
      BY <1>3, <2>1, <2>2, NoneAssumption DEF QueueFits
    <3>2. Claimed' <=> First'.claim # None
      BY <2>1 DEF Claimed
    <3>3. /\ worker'.snap.head # None /\ worker'.snap.head.hold = "none"
          /\ worker'.snap.run \in Known'
          /\ worker'.snap.head.claim # None <=> Claimed'
          /\ Claimed' => First' = worker'.snap.head
          /\ fresh' => Pending' /\ First' = worker'.snap.head /\ queue'.run = worker'.snap.run
      BY <2>1, <2>4, <2>6, <3>1, <3>2
    <3>4. worker'.pc \notin Sending /\ worker'.agent # 0 /\ ~Claimed'
      BY <1>2, <1>3, <2>6 DEF Sending
    <3> QED  BY <2>6, <3>3, <3>4, Zenon DEF PassFits
  <2>10. JournalFits'
    BY <1>1, <2>6, <2>7 DEF QueueInv, JournalFits
  <2>11. OneTurnPerAttempt' /\ TurnsKeepLineage'
    BY <1>1, <2>7 DEF QueueInv, OneTurnPerAttempt, TurnsKeepLineage
  <2>12. AdmissionFits'
    BY <2>6 DEF AdmissionFits
  <2> QED  BY <1>3, <2>8, <2>9, <2>10, <2>11, <2>12 DEF QueueInv
<1> QED  BY <1>4, <1>5 DEF Countdown

\* Claim keeps it: what is stored is what the pass is about to send.
LEMMA ClaimStep ==
  ASSUME QueueInv, Claim
  PROVE  QueueInv'
<1>1. UNCHANGED <<runs, registry, journal, Outside>> /\ worker.pc = "claim" /\ up
  BY DEF Claim, At
<1>2. worker.agent \in AgentOrNone /\ worker.agent # 0 /\ ~Claimed /\ worker \in Passes
  BY <1>1, Types DEF QueueInv, PassFits, Passes
<1>3. CASE ~HeadMatches
  BY <1>1, <1>3, PassEndsQuietly DEF Claim
<1>4. CASE HeadMatches
  <2> DEFINE saved == Body(worker.snap.run, worker.agent, worker.snap.head)
             head == [worker.snap.head EXCEPT !.claim = saved]
  <2>1. /\ fresh /\ Pending /\ First = worker.snap.head /\ queue.run = worker.snap.run
        /\ First.hold = "none" /\ First \in QueueItems
    BY <1>1, <1>4, HeadFacts DEF HeadMatches, QueueInv, PassFits
  <2>2. worker.snap.run \in Runs /\ worker.snap.run \in Known /\ worker.agent \in Agents
    BY <1>1, <1>2, HeadFacts DEF AgentOrNone
  <2>3. /\ saved \in Bodies /\ saved.run = worker.snap.run
        /\ saved = Body(saved.run, saved.agent, First)
    BY <2>1, <2>2 DEF Body, Bodies, QueueItems
  <2>4. saved # None
    BY <2>3, NoneAssumption
  <2>5. /\ queue' = [queue EXCEPT !.items[1].claim = saved, !.state = "dispatching",
                                  !.deadline = FALSE]
        /\ worker' = [worker EXCEPT !.pc = "execute", !.snap.head.claim = saved]
        /\ fresh' = fresh
    BY <1>4 DEF Claim
  <2> HIDE DEF saved
  <2>6. /\ head \in QueueItems /\ head.id = First.id /\ head.hold = "none" /\ head.claim = saved
        /\ head.text = First.text /\ head.delay = First.delay /\ head.attempt = First.attempt
    BY <2>1, <2>3 DEF QueueItems
  <2>7. queue \in Queues /\ queue.items \in Seq(QueueItems) /\ Len(queue.items) \in Nat
    BY Types DEF QueueInv
  <2>8. 1 \in 1..Len(queue.items)
    BY <2>1, <2>7 DEF Pending
  <2>9. queue' = [queue EXCEPT !.items = [queue.items EXCEPT ![1] = head],
                               !.state = "dispatching", !.deadline = FALSE]
    BY <2>1, <2>5, <2>7, <2>8 DEF First, Queues, QueueItems
  <2>10. worker' = [worker EXCEPT !.pc = "execute", !.snap = [worker.snap EXCEPT !.head = head]]
    BY <1>2, <2>1, <2>5 DEF Passes, QueueItems
  <2> HIDE DEF head
  <2>11. /\ [queue.items EXCEPT ![1] = head] \in Seq(QueueItems)
         /\ Len([queue.items EXCEPT ![1] = head]) = Len(queue.items)
         /\ \A j \in 1..Len(queue.items) :
              [queue.items EXCEPT ![1] = head][j] = IF j = 1 THEN head ELSE queue.items[j]
    BY <2>6, <2>7, <2>8, ExceptSeq
  <2>12. /\ queue' \in Queues /\ queue'.items = [queue.items EXCEPT ![1] = head]
         /\ queue'.state = "dispatching" /\ queue'.run = queue.run /\ queue'.done = queue.done
         /\ queue'.selected = queue.selected
    BY <2>7, <2>9, <2>11 DEF Queues
  <2>13. /\ Len(queue'.items) = Len(queue.items) /\ queue'.items # <<>> /\ queue'.items[1] = head
         /\ \A j \in 2..Len(queue.items) : queue'.items[j] = queue.items[j]
         /\ \A j \in 1..Len(queue.items) : queue'.items[j].id = queue.items[j].id
    BY <2>6, <2>7, <2>8, <2>11, <2>12 DEF First
  <2>14. Pending' /\ First' = head /\ Claimed' /\ Known' = Known
    BY <1>1, <2>4, <2>6, <2>13 DEF Claimed, Pending, First, Known
  <2>15. saved = Body(saved.run, saved.agent, head)
    BY <2>3, <2>6 DEF Body
  <2>16. ClaimsMatchQueue'
    <3>1. /\ First'.claim = Body(First'.claim.run, First'.claim.agent, First')
          /\ First'.claim.run \in Known'
          /\ queue'.selected # 0 => First'.claim.run = queue'.run
      BY <2>1, <2>2, <2>3, <2>6, <2>12, <2>14, <2>15
    <3>2. \A k \in 2..Len(queue'.items) :
            queue'.items[k].claim # None => queue'.items[k].hold # "none"
      BY <2>13 DEF QueueInv, ClaimsMatchQueue
    <3> QED  BY <2>12, <2>14, <3>1, <3>2 DEF ClaimsMatchQueue, Body
  <2>17. QueueFits'
    BY <1>1, <2>12, <2>13, <2>14 DEF QueueInv, QueueFits, Distinct, Pending
  <2> DEFINE snap == [worker.snap EXCEPT !.head = head]
  <2>18. /\ snap \in [run : 0..MaxRuns, selected : AgentOrNone, source : Sources,
                      deadline : BOOLEAN, head : QueueItems \cup {None}]
         /\ snap.head = head /\ snap.run = worker.snap.run
    BY <1>2, <2>6 DEF Passes
  <2> HIDE DEF snap
  <2>19. worker' \in Passes /\ worker'.pc = "execute" /\ worker'.snap = snap
    <3>1. worker' = [worker EXCEPT !.pc = "execute", !.snap = snap]
      BY <2>10 DEF snap
    <3> QED  BY <1>2, <2>18, <3>1 DEF Passes, PassPoints
  <2>20. RunsKeep /\ NoNewTurn /\ RunsTyped
    BY <1>1, RunsUntouched
  <2>21. TypeOK'
    <3>1. worker' # Resting
      BY <2>19 DEF Resting
    <3> QED  BY <1>1, <2>5, <2>12, <2>19, <3>1 DEF QueueInv, TypeOK, Outside
  <2>22. PassFits'
    <3>1. head # None
      BY <2>6, NoneAssumption
    <3>2. /\ worker'.snap.head # None /\ worker'.snap.head.hold = "none"
          /\ worker'.snap.run \in Known'
          /\ worker'.snap.head.claim # None <=> Claimed'
          /\ Claimed' => First' = worker'.snap.head
          /\ fresh' => Pending' /\ First' = worker'.snap.head /\ queue'.run = worker'.snap.run
      BY <2>1, <2>2, <2>4, <2>6, <2>12, <2>14, <2>18, <2>19, <3>1
    <3> QED  BY <2>14, <2>19, <3>2, Zenon DEF PassFits
  <2>23. JournalFits'
    BY <1>1, <2>14, <2>19 DEF QueueInv, JournalFits
  <2>24. OneTurnPerAttempt' /\ TurnsKeepLineage'
    BY <1>1, <2>14 DEF QueueInv, OneTurnPerAttempt, TurnsKeepLineage
  <2>25. AdmissionFits'
    BY <2>19 DEF AdmissionFits
  <2> QED  BY <2>16, <2>17, <2>21, <2>22, <2>23, <2>24, <2>25 DEF QueueInv
<1> QED  BY <1>3, <1>4

\* The queue after its head was sent.
LEMMA AdvancedFits ==
  ASSUME QueueInv, Pending, NEW r \in Known, runs' = runs, queue' = Advanced(r)
  PROVE  /\ queue' \in Queues /\ ClaimsMatchQueue' /\ QueueFits'
         /\ queue'.done = First.id /\ queue'.items = Tail(queue.items) /\ queue'.run = r
<1>1. TypeOK /\ queue \in Queues /\ queue.items \in Seq(QueueItems) /\ Len(queue.items) \in Nat
  BY Types DEF QueueInv
<1>2. queue.items # <<>> /\ 1 \in 1..Len(queue.items) /\ First \in QueueItems
  BY <1>1, ElementOfSeq DEF Pending, First
<1> DEFINE tail == Tail(queue.items)
           state == IF Len(queue.items) > 1 THEN "waiting" ELSE "idle"
           u == Unselected(queue)
<1>3. /\ tail \in Seq(QueueItems) /\ Len(tail) = Len(queue.items) - 1
      /\ \A i \in 1..Len(tail) : tail[i] = queue.items[i + 1]
  BY <1>1, <1>2, HeadTailProperties
<1>4. u \in Queues
  BY <1>1 DEF Unselected, Queues, Sources, AgentOrNone
<1>5. queue' = [u EXCEPT !.items = tail, !.run = r, !.done = First.id, !.state = state]
  BY DEF Advanced
<1>6. r \in 0..MaxRuns /\ r # 0 /\ First.id \in Items
  BY <1>1, <1>2, ConvTyped DEF QueueItems
<1>7. state \in {"waiting", "idle"} /\ (state = "idle" <=> tail = <<>>)
  <2> HIDE DEF tail
  <2>1. tail = <<>> <=> Len(tail) = 0
    BY <1>3, EmptySeq
  <2>2. Len(queue.items) >= 1
    BY <1>1, <1>2
  <2> QED  BY <1>1, <1>3, <2>1, <2>2
<1> HIDE DEF u, tail, state
<1>8. /\ queue' \in Queues /\ queue'.items = tail /\ queue'.run = r /\ queue'.done = First.id
      /\ queue'.state = state
  BY <1>3, <1>4, <1>5, <1>6, <1>7 DEF Queues
<1>9. \A k \in 1..Len(tail) : tail[k].claim # None => tail[k].hold # "none"
  <2> SUFFICES ASSUME NEW k \in 1..Len(tail) PROVE tail[k].claim # None => tail[k].hold # "none"
    OBVIOUS
  <2>1. k + 1 \in 2..Len(queue.items) /\ tail[k] = queue.items[k + 1]
    BY <1>1, <1>3
  <2> QED  BY <2>1 DEF QueueInv, ClaimsMatchQueue
<1>10. tail # <<>> => 1 \in 1..Len(tail)
  BY <1>3
<1>11. ~Claimed' /\ (Pending' <=> tail # <<>>) /\ Known' = Known
  BY <1>8, <1>9, <1>10 DEF Claimed, Pending, First, Known
<1>12. ClaimsMatchQueue'
  <2>1. \A k \in 2..Len(tail) : tail[k].claim # None => tail[k].hold # "none"
    BY <1>1, <1>3, <1>9
  <2> QED  BY <1>7, <1>8, <1>11, <2>1 DEF ClaimsMatchQueue
<1>13. Distinct(tail)
  <2> SUFFICES ASSUME NEW j \in 1..Len(tail), NEW k \in 1..Len(tail), tail[j].id = tail[k].id
               PROVE  j = k
    BY DEF Distinct
  <2>1. j + 1 \in 1..Len(queue.items) /\ k + 1 \in 1..Len(queue.items)
    BY <1>1, <1>3
  <2>2. j + 1 = k + 1
    BY <1>3, <2>1, ClaimFacts DEF Distinct
  <2> QED  BY <1>1, <1>3, <2>2
<1>14. QueueFits'
  BY <1>6, <1>8, <1>11, <1>13 DEF QueueFits, Distinct
<1> QED  BY <1>8, <1>12, <1>14 DEF tail

\* Pause keeps the invariant.
LEMMA PauseStep ==
  ASSUME QueueInv, Pause
  PROVE  QueueInv'
<1>1. Rest /\ UNCHANGED <<runs, registry, journal, Outside>> /\ worker.pc = "pause"
  BY DEF Pause, At
<1>2. worker.why \in Holds \ {"none"}
  BY <1>1 DEF QueueInv, PassFits
<1>3. CASE queue' = queue
  BY <1>1, <1>3, PassEndsQuietly
<1>4. CASE Pending /\ queue' = Held(queue, worker.why)
  BY <1>1, <1>2, <1>4, HeldFits, PassEndsWriting
<1> QED  BY <1>3, <1>4 DEF Pause

\* Complete keeps the invariant.
LEMMA CompleteStep ==
  ASSUME QueueInv, Complete
  PROVE  QueueInv'
<1>1. Rest /\ UNCHANGED <<runs, registry, journal, Outside>> /\ worker.pc = "complete"
  BY DEF Complete, At
<1>2. worker.next \in Known
  BY <1>1 DEF QueueInv, PassFits, ServesHead
<1>3. CASE queue' = queue
  BY <1>1, <1>3, PassEndsQuietly
<1>4. CASE Pending /\ queue' = Advanced(worker.next)
  BY <1>1, <1>2, <1>4, AdvancedFits, PassEndsWriting
<1> QED  BY <1>3, <1>4 DEF Complete

\* What becomes of the queue when sending has failed.
LEMMA RaisedWrites ==
  ASSUME QueueInv, Raised
  PROVE  LET s == worker.snap
             here == Pending /\ First.id = s.head.id
         IN \/ queue' = queue
            \/ \E why \in {"changed", "unsent"} : here /\ queue' = Held(queue, why)
            \/ /\ here /\ registry # s.run /\ Matches(registry, s.run, s.head)
               /\ queue' = Advanced(registry)
            \/ queue' = [queue EXCEPT !.state = "dispatching", !.deadline = FALSE]
  BY DEF Raised

\* Raised keeps the invariant.
LEMMA RaisedStep ==
  ASSUME QueueInv, Raised
  PROVE  QueueInv'
<1>1. Rest /\ UNCHANGED <<runs, registry, journal, Outside>> /\ worker.pc = "raised"
  BY DEF Raised, At
<1>2. Claimed
  BY <1>1, SentClaim DEF Sending
<1>3. CASE queue' = queue
  BY <1>1, <1>3, PassEndsQuietly
<1>4. ASSUME NEW why \in {"changed", "unsent"}, Pending, queue' = Held(queue, why)
      PROVE  QueueInv'
  BY <1>1, <1>4, HeldFits, PassEndsWriting DEF Holds
<1>5. CASE Pending /\ queue' = Advanced(registry)
  <2>1. registry \in Known
    BY DEF QueueInv, TypeOK, Known
  <2> QED  BY <1>1, <1>5, <2>1, AdvancedFits, PassEndsWriting
<1>6. CASE queue' = [queue EXCEPT !.state = "dispatching", !.deadline = FALSE]
  <2>1. queue \in Queues /\ queue.state = "dispatching"
    BY <1>2, QueueFacts, ClaimFacts DEF QueueInv
  <2>2. /\ queue' \in Queues /\ queue'.items = queue.items /\ queue'.run = queue.run
        /\ queue'.state = queue.state /\ queue'.done = queue.done
        /\ queue'.selected = queue.selected
    BY <1>6, <2>1 DEF Queues
  <2>3. QueueKeeps
    BY <1>1, <2>2, SameMessages
  <2> QED  BY <1>1, <2>3, PassEndsWriting DEF QueueKeeps
<1> QED  BY <1>3, <1>4, <1>5, <1>6, RaisedWrites

-----------------------------------------------------------------------------
(* The pass sends the message.                                              *)

\* The message's command may be executed: nothing but its record and the point
\* of the pass change, and the record is what the point requires.
LEMMA RecordMoves ==
  ASSUME QueueInv, worker.pc \in Sending, PassGoes, runs' = runs, registry' = registry,
         NEW new \in JournalRecords, new.status # "none", new.body = body,
         journal' = [journal EXCEPT ![cmd] = new],
         \A r \in Known : runs[r].command # None /\ runs[r].command.id = cmd =>
           /\ new.status \in {"started", "completed", "failed"}
           /\ runs[r].command.body = body,
         new.status = "completed" => \E r \in Known : runs[r].command = Submission(cmd, body),
         worker'.pc \in {"admit", "complete", "raised"},
         worker'.pc = "complete" => ServesHead(worker'.next),
         worker'.pc = "admit" =>
           /\ new.status = "started"
           /\ \A r \in Known : runs[r].command # None => runs[r].command.id # cmd
  PROVE  QueueInv'
<1>1. Known' = Known /\ cmd' = cmd /\ body' = body
  BY DEF Known, cmd, body, PassGoes
<1>2. cmd \in Commands /\ body \in Bodies /\ body # None /\ Claimed
  BY SentClaim, NoneAssumption
<1>3. journal \in [Commands -> JournalRecords]
  BY DEF QueueInv, TypeOK
<1>4. /\ journal' \in [Commands -> JournalRecords] /\ journal'[cmd] = new
      /\ \A c \in Commands \ {cmd} : journal'[c] = journal[c]
  BY <1>2, <1>3
<1>5. TypeOK'
  <2>1. \A c \in Commands : journal'[c].status # "none" <=> journal'[c].body # None
    BY <1>2, <1>4 DEF QueueInv, TypeOK
  <2> QED  BY <1>4, <2>1, TypesOfPass DEF QueueInv
<1>6. PassFits' /\ QueueKeeps
  <2>1. \A r : ServesHead(r)' <=> ServesHead(r)
    BY <1>1 DEF ServesHead, PassGoes
  <2>2. ServesHead(worker'.next) => ServesHead(worker.next)'
    BY <1>1 DEF ServesHead, PassGoes
  <2> QED  BY <1>2, <2>2, PassFitsGoing
<1>7. JournalFits'
  <2>1. \A r \in Known : runs[r].command # None => runs[r].command.id \in Commands
    BY Types DEF QueueInv, SavedRuns, Submissions
  <2>2. \A r \in Known : runs[r].command # None =>
          /\ journal'[runs[r].command.id].status \in {"started", "completed", "failed"}
          /\ journal'[runs[r].command.id].body = runs[r].command.body
    BY <1>4, <2>1 DEF QueueInv, JournalFits
  <2>3. \A c \in Commands : journal'[c].status = "completed" =>
          \E r \in Known : runs[r].command = Submission(c, journal'[c].body)
    BY <1>4 DEF QueueInv, JournalFits
  <2>4. worker'.pc = "admit" =>
          /\ journal'[cmd].status = "started" /\ journal'[cmd].body = body
          /\ \A r \in Known : runs[r].command # None => runs[r].command.id # cmd
    BY <1>4
  <2> QED  BY <1>1, <2>2, <2>3, <2>4 DEF JournalFits, Submission
<1>8. OneTurnPerAttempt' /\ TurnsKeepLineage'
  BY <1>1 DEF QueueInv, OneTurnPerAttempt, TurnsKeepLineage
<1>9. AdmissionFits'
  BY DEF AdmissionFits
<1> QED  BY <1>5, <1>6, <1>7, <1>8, <1>9 DEF QueueInv, QueueKeeps

\* The pass fails: the record stays, or is closed or left for a retry.
LEMMA Raises ==
  ASSUME QueueInv, up, worker.pc \in Sending, NEW why \in {"final", "retry"}, Raise(why),
         UNCHANGED <<queue, fresh, runs, registry, journal, Outside>>
  PROVE  QueueInv'
<1>1. worker' \in Passes /\ worker'.snap = worker.snap /\ worker'.pc = "raised"
  BY Types, GoToWhyFacts DEF QueueInv, Whys
<1>2. worker.pc # "idle" /\ Claimed
  BY SentClaim DEF Sending
<1> QED  BY <1>1, <1>2, PassReads DEF Outside

\* A pass that is sending goes on without touching queue, runs and registry.
LEMMA SendingGoes ==
  ASSUME QueueInv, up, worker.pc \in Sending, runs' = runs, registry' = registry,
         UNCHANGED <<queue, fresh, Outside>>,
         worker' \in Passes, worker'.snap = worker.snap, worker'.pc # "idle"
  PROVE  PassGoes
<1>1. worker.pc # "idle"
  BY DEF Sending
<1>2. RunsKeep /\ RunsTyped /\ Known' = Known
  BY RunsUntouched
<1> QED  BY <1>1, <1>2 DEF PassGoes, QueueInv, TypeOK, Known, Outside

\* Execute keeps the invariant: a turn that exists is found under its command.
LEMMA ExecuteStep ==
  ASSUME QueueInv, Execute
  PROVE  QueueInv'
<1> DEFINE record == journal[cmd]
           conflict == record.status # "none" /\ record.body # body
           done == Started(cmd, body)
           refused == conflict \/ (done = {} /\ record.status \in {"started", "failed"})
           new(status) == [status |-> status, body |-> body, outcome |-> "unknown"]
           keep(status) == journal' = [journal EXCEPT ![cmd] = new(status)]
<1>1. /\ up /\ worker.pc = "execute" /\ worker.pc \in Sending
      /\ UNCHANGED <<queue, fresh, runs, registry, Outside>>
  BY DEF Execute, At, Sending
<1>2. cmd \in Commands /\ body \in Bodies /\ body # None /\ Claimed
  BY <1>1, SentClaim, NoneAssumption
<1>3. worker \in Passes
  BY Types DEF QueueInv
<1>4. \A r \in Known : runs[r].command # None /\ runs[r].command.id = cmd =>
        /\ record.status \in {"started", "completed", "failed"}
        /\ record.body = runs[r].command.body
        /\ runs[r].command = Submission(cmd, record.body)
  <2> SUFFICES ASSUME NEW r \in Known, runs[r].command # None, runs[r].command.id = cmd
               PROVE  /\ record.status \in {"started", "completed", "failed"}
                      /\ record.body = runs[r].command.body
                      /\ runs[r].command = Submission(cmd, record.body)
    OBVIOUS
  <2>1. record.status \in {"started", "completed", "failed"} /\ record.body = runs[r].command.body
    BY DEF QueueInv, JournalFits
  <2>2. runs[r].command \in Submissions
    BY RunFacts DEF QueueInv
  <2>3. runs[r].command = [id |-> runs[r].command.id, body |-> runs[r].command.body]
    BY <2>2 DEF Submissions
  <2> QED  BY <2>1, <2>3 DEF Submission
<1>5. new("completed") \in JournalRecords /\ new("started") \in JournalRecords
  BY <1>2 DEF JournalRecords
<1>6. CASE Raise("final") /\ UNCHANGED journal
  BY <1>1, <1>6, Raises
<1>7. CASE ~refused /\ done # {} /\ keep("completed") /\ \E r \in done : CompleteWith(r)
  <2>1. PICK r \in Known : CompleteWith(r) /\ runs[r].command = Submission(cmd, body)
    BY <1>7 DEF Started
  <2>2. r \in 0..MaxRuns
    BY ConvTyped DEF QueueInv
  <2>3. /\ worker' \in Passes /\ worker'.snap = worker.snap
        /\ worker'.pc = "complete" /\ worker'.next = r
    BY <1>3, <2>1, <2>2, CompleteFacts
  <2>4. PassGoes
    BY <1>1, <2>3, SendingGoes
  <2>5. runs[r].command # None
    <3>1. Submission(cmd, body) \in Submissions
      BY <1>2 DEF Submission, Submissions
    <3> QED  BY <2>1, <3>1, NoneAssumption
  <2>6. ServesHead(r)
    BY <2>1, <2>5 DEF ServesHead, Submission, cmd, body
  <2>7. record.body = body
    BY <1>4, <2>1, <2>5 DEF Submission
  <2> DEFINE rec == new("completed")
  <2>8. /\ rec \in JournalRecords /\ rec.status = "completed" /\ rec.body = body
        /\ journal' = [journal EXCEPT ![cmd] = rec]
    BY <1>5, <1>7
  <2> HIDE DEF rec, new
  <2> QED  BY <1>1, <1>4, <2>1, <2>3, <2>4, <2>6, <2>7, <2>8, RecordMoves
<1>8. CASE ~refused /\ done = {} /\ keep("started") /\ GoTo("admit")
  <2>1. worker' \in Passes /\ worker'.snap = worker.snap /\ worker'.pc = "admit"
    BY <1>3, <1>8, GoToFacts DEF PassPoints
  <2>2. PassGoes
    BY <1>1, <2>1, SendingGoes
  <2>3. \A r \in Known : runs[r].command # None => runs[r].command.id # cmd
    <3> SUFFICES ASSUME NEW r \in Known, runs[r].command # None, runs[r].command.id = cmd
                 PROVE  FALSE
      OBVIOUS
    <3>1. /\ record.status # "none" /\ record.status \in {"started", "completed", "failed"}
          /\ runs[r].command = Submission(cmd, record.body)
      BY <1>4
    <3>2. record.body = body
      BY <1>8, <3>1
    <3> QED  BY <1>8, <3>1, <3>2 DEF Started
  <2> DEFINE rec == new("started")
  <2>4. /\ rec \in JournalRecords /\ rec.status = "started" /\ rec.body = body
        /\ journal' = [journal EXCEPT ![cmd] = rec]
    BY <1>5, <1>8
  <2> HIDE DEF rec, new
  <2> QED  BY <1>1, <2>1, <2>2, <2>3, <2>4, RecordMoves
<1>9. \/ Raise("final") /\ UNCHANGED journal
      \/ ~refused /\ done # {} /\ keep("completed") /\ \E r \in done : CompleteWith(r)
      \/ ~refused /\ done = {} /\ keep("started") /\ GoTo("admit")
  BY DEF Execute
<1> QED  BY <1>6, <1>7, <1>8, <1>9

\* The points at which the command's record is started.
Inside == {"admit", "adopting", "commit", "register", "finish"}

\* What the journal says while the pass is inside its command.
LEMMA InsideFacts ==
  ASSUME QueueInv, worker.pc \in Inside
  PROVE  /\ worker.pc \in Sending /\ journal[cmd] \in JournalRecords
         /\ journal[cmd].status = "started" /\ journal[cmd].body = body
         /\ \A r \in Known : runs[r].command # None /\ runs[r].command.id = cmd =>
              runs[r].command.body = body
         /\ worker.pc \in {"admit", "adopting", "commit"} =>
              \A r \in Known : runs[r].command # None => runs[r].command.id # cmd
<1>1. worker.pc \in Sending
  BY DEF Inside, Sending
<1>2. journal[cmd] \in JournalRecords
  BY <1>1, SentClaim DEF QueueInv, TypeOK
<1> QED  BY <1>1, <1>2 DEF QueueInv, JournalFits, Inside

\* A command that fails for good keeps the invariant.
LEMMA FailsStep ==
  ASSUME QueueInv, up, worker.pc \in Inside, NEW outcome \in {"unknown", "not_applied"},
         NEW why \in {"final", "retry"}, Fails(outcome, why),
         UNCHANGED <<queue, fresh, runs, registry, Outside>>
  PROVE  QueueInv'
<1> DEFINE rec == [status |-> "failed", body |-> body, outcome |-> outcome]
<1>1. worker' \in Passes /\ worker'.snap = worker.snap /\ worker'.pc = "raised"
  BY Types, GoToWhyFacts DEF QueueInv, Whys, Fails
<1>2. PassGoes
  BY <1>1, InsideFacts, SendingGoes
<1>3. body \in Bodies
  BY InsideFacts, SentClaim
<1>4. /\ rec \in JournalRecords /\ rec.status = "failed" /\ rec.body = body
      /\ journal' = [journal EXCEPT ![cmd] = rec]
  BY <1>3 DEF JournalRecords, Fails
<1> HIDE DEF rec
<1> QED  BY <1>1, <1>2, <1>4, InsideFacts, RecordMoves

\* A command that may be retried keeps it: it has no turn yet.
LEMMA FailsRetryablyStep ==
  ASSUME QueueInv, up, worker.pc \in {"admit", "adopting"}, FailsRetryably,
         UNCHANGED <<queue, fresh, runs, registry, Outside>>
  PROVE  QueueInv'
<1> DEFINE rec == [journal[cmd] EXCEPT !.status = "retryable"]
<1>1. worker' \in Passes /\ worker'.snap = worker.snap /\ worker'.pc = "raised"
  BY Types, GoToWhyFacts DEF QueueInv, Whys, FailsRetryably
<1>2. worker.pc \in Inside /\ cmd \in Commands
  <2>1. worker.pc \in Inside
    BY DEF Inside
  <2> QED  BY <2>1, InsideFacts, SentClaim
<1>3. PassGoes
  BY <1>1, <1>2, InsideFacts, SendingGoes
<1>4. journal[cmd] \in JournalRecords /\ journal[cmd].body = body
  BY <1>2, InsideFacts
<1>5. rec \in JournalRecords /\ rec.status = "retryable" /\ rec.body = body
  BY <1>4 DEF JournalRecords
<1>6. journal' = [journal EXCEPT ![cmd] = rec]
  BY <1>2, <1>4 DEF FailsRetryably, QueueInv, TypeOK, JournalRecords
<1> HIDE DEF rec
<1> QED  BY <1>1, <1>2, <1>3, <1>5, <1>6, InsideFacts, RecordMoves

\* The admission goes on to the adoption or to the commit.
LEMMA AdmissionGoes ==
  ASSUME QueueInv, up, worker.pc \in {"admit", "adopting"}, NEW p \in {"adopting", "commit"},
         GoTo(p), UNCHANGED <<queue, fresh, registry, journal, Outside>>,
         RunsKeep, RunsTyped, NoNewTurn, Known' = Known,
         p = "adopting" => runs'[body.run].status = "finalizing" /\ runs'[body.run].saving = body.agent,
         p = "commit" => runs'[body.run].finalized = body.agent
  PROVE  QueueInv'
<1>1. worker' \in Passes /\ worker'.snap = worker.snap /\ worker'.pc = p
  BY Types, GoToFacts DEF QueueInv, PassPoints
<1>2. worker.pc \in Inside /\ worker.pc \in Sending /\ worker.pc # "idle" /\ Claimed
  <2>1. worker.pc \in Inside /\ worker.pc # "idle"
    BY DEF Inside
  <2> QED  BY <2>1, InsideFacts, SentClaim
<1>3. PassGoes
  BY <1>1, <1>2 DEF PassGoes, Outside, QueueInv, TypeOK, Known
<1>4. TypeOK'
  BY <1>3, TypesOfPass DEF QueueInv, TypeOK
<1>5. PassFits' /\ QueueKeeps
  BY <1>1, <1>2, <1>3, PassFitsGoing
<1>6. cmd' = cmd /\ body' = body
  BY <1>1 DEF cmd, body
<1>7. \A r \in Known' : r \in Known /\ runs'[r].command = runs[r].command
  BY DEF RunsKeep
<1>8. JournalFits'
  <2>1. /\ journal'[cmd'].status = "started" /\ journal'[cmd'].body = body'
        /\ \A r \in Known' : runs'[r].command # None => runs'[r].command.id # cmd'
    BY <1>2, <1>6, <1>7, InsideFacts
  <2>2. \A r \in Known' : runs'[r].command # None =>
          /\ journal'[runs'[r].command.id].status \in {"started", "completed", "failed"}
          /\ journal'[runs'[r].command.id].body = runs'[r].command.body
    BY <1>7 DEF QueueInv, JournalFits
  <2>3. \A c \in Commands : journal'[c].status = "completed" =>
          \E r \in Known' : runs'[r].command = Submission(c, journal'[c].body)
    BY <1>7 DEF QueueInv, JournalFits
  <2> QED  BY <2>1, <2>2, <2>3 DEF JournalFits, Submission
<1>9. OneTurnPerAttempt'
  BY <1>7 DEF QueueInv, OneTurnPerAttempt
<1>10. TurnsKeepLineage'
  <2>1. \A r \in Known : runs[r].command # None => runs[r].command.body.run \in Known /\ runs[r].command.body.agent # 0
    BY TurnsStartFromRuns
  <2> QED  BY <1>7, <2>1 DEF QueueInv, TurnsKeepLineage, RunsKeep
<1>11. AdmissionFits'
  BY <1>1, <1>6 DEF AdmissionFits
<1> QED  BY <1>4, <1>5, <1>8, <1>9, <1>10, <1>11 DEF QueueInv, QueueKeeps

\* Admit keeps the invariant.
LEMMA AdmitStep ==
  ASSUME QueueInv, Admit
  PROVE  QueueInv'
<1> DEFINE r == body.run
           status == runs[r].status
<1>1. /\ up /\ worker.pc = "admit" /\ worker.pc \in Inside /\ worker.pc \in Sending
      /\ UNCHANGED <<queue, fresh, registry, Outside>>
  BY DEF Admit, At, Inside, Sending
<1>2. r \in Known /\ body.agent \in Agents /\ body.agent # 0
  BY <1>1, SentClaim DEF Bodies
<1>3. CASE FailsRetryably /\ UNCHANGED runs
  BY <1>1, <1>3, FailsRetryablyStep
<1>4. CASE Fails("not_applied", "final") /\ UNCHANGED runs
  BY <1>1, <1>4, FailsStep
<1>5. CASE Fails("unknown", "final") /\ UNCHANGED runs
  BY <1>1, <1>5, FailsStep
<1>6. ASSUME runs[r].finalized = body.agent, GoTo("commit"), UNCHANGED <<runs, journal>>
      PROVE  QueueInv'
  <2>1. RunsKeep /\ RunsTyped /\ NoNewTurn /\ Known' = Known
    BY <1>6, RunsUntouched
  <2> QED  BY <1>1, <1>6, <2>1, AdmissionGoes
<1>7. ASSUME status \in {"active", "settled"}, GoTo("adopting"), UNCHANGED journal,
             runs' = [runs EXCEPT ![r].status = "finalizing", ![r].saving = body.agent]
      PROVE  QueueInv'
  <2>1. runs[r] \in SavedRuns /\ runs[r].outcome \in Results
    BY <1>2, RunFacts DEF QueueInv
  <2>2. runs' = Moved(r, "finalizing", runs[r].outcome, body.agent)
    BY <1>7, <2>1 DEF SavedRuns, Moved
  <2>3. /\ RunsKeep /\ RunsTyped /\ NoNewTurn /\ Known' = Known
        /\ runs'[r].status = "finalizing" /\ runs'[r].saving = body.agent
    <3>1. body.agent \in AgentOrNone /\ TypeOK /\ runs[r].status # "finalized"
      BY <1>2, <1>7 DEF AgentOrNone, QueueInv
    <3> HIDE DEF r
    <3> QED  BY <1>2, <2>1, <2>2, <3>1, StatusMoves
  <2> QED  BY <1>1, <1>7, <2>3, AdmissionGoes
<1>8. \/ FailsRetryably /\ UNCHANGED runs
      \/ Fails("not_applied", "final") /\ UNCHANGED runs
      \/ Fails("unknown", "final") /\ UNCHANGED runs
      \/ runs[r].finalized = body.agent /\ GoTo("commit") /\ UNCHANGED <<runs, journal>>
      \/ /\ status \in {"active", "settled"} /\ GoTo("adopting") /\ UNCHANGED journal
         /\ runs' = [runs EXCEPT ![r].status = "finalizing", ![r].saving = body.agent]
  BY DEF Admit
<1> QED  BY <1>3, <1>4, <1>5, <1>6, <1>7, <1>8

\* Adopted keeps it: the commit comes after the adoption.
LEMMA AdoptedStep ==
  ASSUME QueueInv, Adopted
  PROVE  QueueInv'
<1>1. /\ up /\ worker.pc = "adopting" /\ worker.pc \in Inside
      /\ UNCHANGED <<queue, fresh, runs, registry, Outside>>
  BY DEF Adopted, At, Inside
<1>2. CASE runs[body.run].status = "finalized" /\ GoTo("commit") /\ UNCHANGED journal
  <2>1. RunsKeep /\ RunsTyped /\ NoNewTurn /\ Known' = Known
    BY <1>1, RunsUntouched
  <2>2. runs'[body.run].finalized = body.agent
    BY <1>1, <1>2 DEF QueueInv, AdmissionFits
  <2> QED  BY <1>1, <1>2, <2>1, <2>2, AdmissionGoes
<1>3. CASE FailsRetryably
  BY <1>1, <1>3, FailsRetryablyStep
<1>4. CASE Fails("unknown", "final")
  BY <1>1, <1>4, FailsStep
<1> QED  BY <1>2, <1>3, <1>4 DEF Adopted

\* A turn is saved for the claimed message: the first one of its attempt.
LEMMA CommitStep ==
  ASSUME QueueInv, Commit
  PROVE  QueueInv'
<1>1. /\ up /\ worker.pc = "commit" /\ worker.pc \in Inside /\ worker.pc \in Sending
      /\ UNCHANGED <<queue, fresh, registry, Outside>>
  BY DEF Commit, At, Inside, Sending
<1>2. CASE Fails("unknown", "final") /\ UNCHANGED runs
  BY <1>1, <1>2, FailsStep
<1>3. ASSUME Len(runs) < MaxRuns, NEW o \in Results, UNCHANGED journal,
             runs' = Append(runs, NewRun(body.run, body.agent, Submission(cmd, body), o)),
             worker' = [worker EXCEPT !.pc = "register", !.next = Len(runs) + 1]
      PROVE  QueueInv'
  <2> DEFINE turn == Submission(cmd, body)
             new == NewRun(body.run, body.agent, turn, o)
             last == Len(runs) + 1
  <2>1. /\ body \in Bodies /\ body.run \in Known /\ body.agent \in Agents /\ body.agent # 0
        /\ cmd \in Commands /\ Claimed /\ body # None
    BY <1>1, SentClaim, NoneAssumption DEF Bodies
  <2>2. turn \in Submissions /\ turn # None /\ turn.id = cmd /\ turn.body = body
    BY <2>1, NoneAssumption DEF Submission, Submissions
  <2> HIDE DEF turn
  <2>3. /\ TypeOK /\ Len(runs) \in Nat /\ MaxRuns \in Nat /\ Len(runs) \in 1..MaxRuns
        /\ worker \in Passes
    BY Types DEF QueueInv
  <2>4. body.run # 0 /\ body.run \in 0..MaxRuns /\ body.run <= Len(runs)
    BY <2>1, <2>3 DEF Known
  <2>5. new = [from |-> body.run, agent |-> body.agent, status |-> "active", outcome |-> o,
               saving |-> 0, conv |-> runs[body.run].conv, finalized |-> 0, command |-> turn]
    BY <2>4 DEF NewRun
  <2> HIDE DEF new
  <2>6. runs[body.run].conv \in Runs /\ runs[body.run].conv <= Len(runs) + 1
    <3>1. runs[body.run].conv \in Runs /\ runs[body.run].conv <= body.run
      BY <2>1, <2>3, RunFacts
    <3> QED  BY <2>3, <2>4, <3>1 DEF Runs
  <2>7. /\ new \in SavedRuns /\ RunFits(new) /\ new.from = body.run /\ new.agent = body.agent
        /\ new.conv = runs[body.run].conv /\ new.command = turn
    BY <2>1, <2>2, <2>4, <2>5, <2>6 DEF SavedRuns, AgentOrNone, RunFits
  <2>8. /\ RunsKeep /\ RunsTyped /\ Known' = Known \cup {last} /\ last \notin Known
        /\ runs'[last] = new /\ \A k \in Known : runs'[k] = runs[k]
    BY <1>3, <2>3, <2>4, <2>6, <2>7, OneRunMore DEF new, turn
  <2>9. worker' \in Passes /\ worker'.snap = worker.snap /\ worker'.pc = "register" /\ worker'.next = last
    <3>1. last \in 0..MaxRuns /\ worker' = [worker EXCEPT !.pc = "register", !.next = last]
      BY <1>3, <2>3
    <3> HIDE DEF last
    <3> QED  BY <2>3, <3>1 DEF Passes, PassPoints
  <2> HIDE DEF last
  <2>0. journal' = journal
    BY <1>3
  <2>10. cmd' = cmd /\ body' = body
    BY <2>9 DEF cmd, body
  <2>11. PassGoes
    BY <1>1, <2>8, <2>9 DEF PassGoes, Outside, QueueInv, TypeOK, Known, Sending
  <2>12. TypeOK'
    BY <1>3, <2>3, <2>11, TypesOfPass DEF TypeOK
  <2>13. PassFits' /\ QueueKeeps
    <3>1. ServesHead(worker.next)'
      BY <2>2, <2>7, <2>8, <2>9 DEF ServesHead, cmd, body
    <3> QED  BY <2>1, <2>9, <2>11, <3>1, PassFitsGoing
  <2>14. journal[cmd].status = "started" /\ journal[cmd].body = body
         /\ \A r \in Known : runs[r].command # None => runs[r].command.id # cmd
    BY <1>1, InsideFacts
  <2>15. JournalFits'
    <3>1. \A r \in Known' : runs'[r].command # None =>
            /\ journal'[runs'[r].command.id].status \in {"started", "completed", "failed"}
            /\ journal'[runs'[r].command.id].body = runs'[r].command.body
      BY <2>0, <2>2, <2>7, <2>8, <2>14 DEF QueueInv, JournalFits
    <3>2. \A c \in Commands : journal'[c].status = "completed" =>
            \E r \in Known' : runs'[r].command = Submission(c, journal'[c].body)
      BY <2>0, <2>8 DEF QueueInv, JournalFits
    <3> QED  BY <2>0, <2>9, <2>10, <2>14, <3>1, <3>2 DEF JournalFits, Submission
  <2>16. OneTurnPerAttempt'
    BY <2>2, <2>7, <2>8, <2>14 DEF QueueInv, OneTurnPerAttempt
  <2>17. TurnsKeepLineage'
    <3> SUFFICES ASSUME NEW r \in Known', runs'[r].command # None
                 PROVE  /\ runs'[r].from = runs'[r].command.body.run
                        /\ runs'[r].agent = runs'[r].command.body.agent
                        /\ runs'[runs'[r].command.body.run].finalized = runs'[r].command.body.agent
                        /\ runs'[r].conv = runs'[runs'[r].command.body.run].conv
      BY DEF TurnsKeepLineage
    <3>1. CASE r = last
      <4>1. runs[body.run].finalized = body.agent
        BY <1>1 DEF QueueInv, AdmissionFits
      <4> QED  BY <2>1, <2>2, <2>7, <2>8, <3>1, <4>1
    <3>2. CASE r # last
      <4>1. r \in Known /\ runs'[r] = runs[r]
        BY <2>8, <3>2
      <4>2. runs[r].command.body.run \in Known
        BY <4>1, TurnsStartFromRuns
      <4> QED  BY <2>8, <4>1, <4>2 DEF QueueInv, TurnsKeepLineage
    <3> QED  BY <3>1, <3>2
  <2>18. AdmissionFits'
    BY <2>9 DEF AdmissionFits
  <2> QED  BY <2>12, <2>13, <2>15, <2>16, <2>17, <2>18 DEF QueueInv, QueueKeeps
<1> QED  BY <1>2, <1>3 DEF Commit

\* Register keeps the invariant.
LEMMA RegisterStep ==
  ASSUME QueueInv, Register
  PROVE  QueueInv'
<1>1. /\ up /\ worker.pc = "register" /\ worker.pc \in Inside /\ worker.pc \in Sending
      /\ UNCHANGED <<queue, fresh, runs, journal, Outside>>
      /\ registry' = worker.next /\ GoTo("finish")
  BY DEF Register, At, Inside, Sending
<1>2. ServesHead(worker.next) /\ worker.next \in Known /\ Claimed
  BY <1>1, SentClaim DEF QueueInv, PassFits, ServesHead
<1>3. /\ worker \in Passes /\ worker' \in Passes /\ worker'.snap = worker.snap /\ worker'.pc = "finish"
      /\ worker'.next = worker.next
  BY <1>1, Types DEF QueueInv, GoTo, Passes, PassPoints
<1>4. RunsKeep /\ RunsTyped /\ NoNewTurn /\ Known' = Known
  BY <1>1, RunsUntouched
<1>5. PassGoes
  BY <1>1, <1>2, <1>3, <1>4 DEF PassGoes, Outside, Sending
<1>6. TypeOK'
  BY <1>1, <1>5, TypesOfPass DEF QueueInv, TypeOK
<1>7. cmd' = cmd /\ body' = body
  BY <1>3 DEF cmd, body
<1>8. PassFits' /\ QueueKeeps
  <2>1. ServesHead(worker.next)'
    BY <1>1, <1>2, <1>3, <1>4 DEF ServesHead
  <2> QED  BY <1>2, <1>3, <1>5, <2>1, PassFitsGoing
<1>9. JournalFits'
  BY <1>1, <1>3, <1>4, <1>7 DEF QueueInv, JournalFits
<1>10. OneTurnPerAttempt' /\ TurnsKeepLineage'
  BY <1>1, <1>4 DEF QueueInv, OneTurnPerAttempt, TurnsKeepLineage
<1>11. AdmissionFits'
  BY <1>3 DEF AdmissionFits
<1> QED  BY <1>6, <1>8, <1>9, <1>10, <1>11 DEF QueueInv, QueueKeeps

\* RegisterFails keeps the invariant: the turn and its failed record stay.
LEMMA RegisterFailsStep ==
  ASSUME QueueInv, RegisterFails
  PROVE  QueueInv'
<1>1. up /\ worker.pc \in Inside /\ UNCHANGED <<queue, fresh, runs, registry, Outside>>
  BY DEF RegisterFails, At, Inside
<1>2. PICK why \in {"final", "retry"} : Fails("unknown", why)
  BY DEF RegisterFails
<1> QED  BY <1>1, <1>2, FailsStep

\* Finish keeps it: the completed record has its turn.
LEMMA FinishStep ==
  ASSUME QueueInv, Finish
  PROVE  QueueInv'
<1> DEFINE rec == [journal[cmd] EXCEPT !.status = "completed"]
<1>1. /\ up /\ worker.pc = "finish" /\ worker.pc \in Inside /\ worker.pc \in Sending
      /\ UNCHANGED <<queue, fresh, runs, registry, Outside>> /\ GoTo("complete")
  BY DEF Finish, At, Inside, Sending
<1>2. /\ worker' \in Passes /\ worker'.snap = worker.snap /\ worker'.pc = "complete"
      /\ worker'.next = worker.next
  BY <1>1, Types DEF QueueInv, GoTo, Passes, PassPoints
<1>3. PassGoes
  BY <1>1, <1>2, SendingGoes
<1>4. journal[cmd] \in JournalRecords /\ journal[cmd].body = body /\ cmd \in Commands
  BY <1>1, InsideFacts, SentClaim
<1>5. rec \in JournalRecords /\ rec.status = "completed" /\ rec.body = body
  BY <1>4 DEF JournalRecords
<1>6. journal' = [journal EXCEPT ![cmd] = rec]
  BY <1>4 DEF Finish, QueueInv, TypeOK, JournalRecords
<1> HIDE DEF rec
<1>7. ServesHead(worker.next)
  BY <1>1 DEF QueueInv, PassFits
<1>8. \E r \in Known : runs[r].command = Submission(cmd, body)
  <2>1. worker.next \in Known /\ runs[worker.next].command # None
        /\ runs[worker.next].command.id = cmd /\ runs[worker.next].command.body = body
    BY <1>1, <1>7, InsideFacts DEF ServesHead, cmd
  <2>2. runs[worker.next].command \in Submissions
    BY <2>1, RunFacts DEF QueueInv
  <2>3. runs[worker.next].command = Submission(cmd, body)
    BY <2>1, <2>2 DEF Submission, Submissions
  <2> QED  BY <2>1, <2>3
<1> QED  BY <1>1, <1>2, <1>3, <1>5, <1>6, <1>7, <1>8, InsideFacts, RecordMoves

-----------------------------------------------------------------------------
(* The invariant and what follows from it.                                  *)

\* The invariant holds at the start.
LEMMA InitFits ==
  ASSUME Init
  PROVE  QueueInv
<1>1. PICK o \in Results :
        runs = <<[from |-> 0, agent |-> 0, conv |-> 1, status |-> "active", outcome |-> o,
                  saving |-> 0, finalized |-> 0, command |-> None]>>
  BY DEF Init
<1> DEFINE first == [from |-> 0, agent |-> 0, conv |-> 1, status |-> "active", outcome |-> o,
                     saving |-> 0, finalized |-> 0, command |-> None]
<1>2. MaxRuns \in Nat /\ 1 \in Runs /\ 0 \in 0..MaxRuns
  BY QueueAssumption DEF Runs
<1>3. first \in SavedRuns /\ RunFits(first) /\ first.from = 0 /\ first.conv = 1 /\ first.command = None
  BY <1>2 DEF SavedRuns, AgentOrNone, RunFits
<1> HIDE DEF first
<1>4. runs = <<first>> /\ runs \in Seq(SavedRuns) /\ Len(runs) = 1 /\ runs[1] = first
  BY <1>1, <1>3 DEF first
<1>5. Known = {1}
  BY <1>4 DEF Known
<1>6. /\ queue \in Queues /\ queue.items = <<>> /\ queue.state = "idle" /\ queue.run = 0
      /\ queue.done = None
  <2> DEFINE empty == <<>>
  <2>1. empty \in Seq(QueueItems)
    OBVIOUS
  <2>2. queue = [run |-> 0, conv |-> 0, items |-> empty, selected |-> 0, source |-> "none",
                 state |-> "idle", deadline |-> FALSE, done |-> None]
    BY DEF Init
  <2>3. 0 \in AgentOrNone /\ "none" \in Sources
    BY DEF AgentOrNone, Sources
  <2>4. queue.items = empty
    BY <2>2
  <2> HIDE DEF empty
  <2>5. queue.state = "idle" /\ queue.run = 0 /\ queue.done = None
    BY <2>2
  <2>6. /\ 0 \in 0..MaxRuns /\ None \in Items \cup {None} /\ FALSE \in BOOLEAN
        /\ "idle" \in {"idle", "waiting", "countdown", "dispatching", "paused"}
    BY <1>2
  <2>7. queue \in Queues
    BY <2>1, <2>2, <2>3, <2>6, Zenon DEF Queues
  <2> QED  BY <2>4, <2>5, <2>7 DEF empty
<1>7. ~Pending /\ ~Claimed /\ Len(queue.items) = 0
  BY <1>6 DEF Pending, Claimed
<1>8. worker = Resting /\ Resting \in Passes /\ Resting.pc = "idle"
  BY <1>2 DEF Init, Resting, Passes, NoSnap, PassPoints, AgentOrNone, Sources, Holds
<1>9. /\ journal \in [Commands -> JournalRecords]
      /\ \A c \in Commands : journal[c].status = "none" /\ journal[c].body = None
  <2>1. NoRecord \in JournalRecords /\ NoRecord.status = "none" /\ NoRecord.body = None
    BY DEF NoRecord, JournalRecords
  <2> HIDE DEF NoRecord
  <2> QED  BY <2>1 DEF Init
<1>10. TypeOK
  <2>1. \A r \in 1..Len(runs) : runs[r].from < r /\ runs[r].conv <= r /\ RunFits(runs[r])
    BY <1>3, <1>4
  <2>2. registry \in 1..Len(runs) /\ foreign \in 0..Len(runs) /\ fresh \in BOOLEAN /\ up = TRUE
    <3>1. registry = 1 /\ foreign = 0
      BY DEF Init
    <3>2. fresh \in BOOLEAN /\ up = TRUE
      BY Zenon DEF Init
    <3>3. registry \in 1..Len(runs) /\ foreign \in 0..Len(runs)
      BY <1>4, <3>1
    <3> QED  BY <3>2, <3>3
  <2>3. call.op = "none"
    BY DEF Init, NoCall
  <2>4. Len(runs) \in Runs
    BY <1>2, <1>4
  <2> HIDE DEF Resting
  <2> QED  BY <1>4, <1>6, <1>8, <1>9, <2>1, <2>2, <2>3, <2>4 DEF TypeOK
<1>11. ClaimsMatchQueue /\ QueueFits
  BY <1>6, <1>7 DEF ClaimsMatchQueue, QueueFits, Distinct
<1>12. PassFits /\ AdmissionFits
  <2>1. worker.pc = "idle" /\ worker.pc \notin Sending
    BY <1>8 DEF Sending
  <2> QED  BY <2>1, Zenon DEF PassFits, AdmissionFits
<1>13. JournalFits /\ OneTurnPerAttempt /\ TurnsKeepLineage
  BY <1>3, <1>4, <1>5, <1>8, <1>9 DEF JournalFits, OneTurnPerAttempt, TurnsKeepLineage
<1> QED  BY <1>10, <1>11, <1>12, <1>13 DEF QueueInv

\* Every step of a client keeps the invariant and the head's claim.
LEMMA ClientFits ==
  ASSUME QueueInv, Client
  PROVE  QueueInv' /\ QueueKeeps
<1>1. ASSUME NEW r \in Known, RefusedRequest(r)  PROVE QueueInv' /\ QueueKeeps
  BY <1>1, RefusedRequestStep
<1>2. ASSUME NEW r \in Known, StopBegin(r)  PROVE QueueInv' /\ QueueKeeps
  BY <1>2, StopBeginStep
<1>3. ASSUME NEW r \in Known, NEW list \in Lists, NEW reset \in BOOLEAN, Distinct(list),
             Replace(r, list, reset)
      PROVE  QueueInv' /\ QueueKeeps
  BY <1>3, ReplaceStep
<1>4. ASSUME NEW r \in Known, NEW x \in Messages, EnqueueBegin(r, x)  PROVE QueueInv' /\ QueueKeeps
  BY <1>4, EnqueueBeginStep
<1>5. ASSUME NEW r \in Known, NEW a \in Agents, SelectBegin(r, a)  PROVE QueueInv' /\ QueueKeeps
  BY <1>5, SelectBeginStep
<1>6. CASE Enqueue
  BY <1>6, EnqueueStep
<1>7. CASE Select
  BY <1>7, SelectStep
<1>8. ASSUME NEW o \in Results, Stop(o)  PROVE QueueInv' /\ QueueKeeps
  BY <1>8, StopStep
<1>9. ASSUME NEW r \in {0} \cup Known, Clear(r)  PROVE QueueInv' /\ QueueKeeps
  BY <1>9, ClearStep
<1>10. ASSUME NEW d \in Delays, UpdateDelay(d)  PROVE QueueInv' /\ QueueKeeps
  BY <1>10, UpdateDelayStep
<1> QED  BY <1>1, <1>2, <1>3, <1>4, <1>5, <1>6, <1>7, <1>8, <1>9, <1>10 DEF Client

\* Every step of the coordinator keeps the invariant.
LEMMA CoordinatorFits ==
  ASSUME QueueInv, Coordinator
  PROVE  QueueInv'
<1>1. CASE Snapshot  BY <1>1, SnapshotStep
<1>2. CASE Compare  BY <1>2, CompareStep
<1>3. CASE Inspect  BY <1>3, InspectStep
<1>4. CASE ReadFails  BY <1>4, ReadFailsStep
<1>5. CASE StillCounting  BY <1>5, StillCountingStep
<1>6. CASE Wait  BY <1>6, WaitStep
<1>7. CASE Countdown  BY <1>7, CountdownStep
<1>8. CASE Claim  BY <1>8, ClaimStep
<1>9. CASE Pause  BY <1>9, PauseStep
<1>10. CASE Complete  BY <1>10, CompleteStep
<1>11. CASE Execute  BY <1>11, ExecuteStep
<1>12. CASE Admit  BY <1>12, AdmitStep
<1>13. CASE Adopted  BY <1>13, AdoptedStep
<1>14. CASE Commit  BY <1>14, CommitStep
<1>15. CASE Register  BY <1>15, RegisterStep
<1>16. CASE RegisterFails  BY <1>16, RegisterFailsStep
<1>17. CASE Finish  BY <1>17, FinishStep
<1>18. CASE Raised  BY <1>18, RaisedStep
<1> QED
  BY <1>1, <1>2, <1>3, <1>4, <1>5, <1>6, <1>7, <1>8, <1>9, <1>10, <1>11, <1>12, <1>13, <1>14,
     <1>15, <1>16, <1>17, <1>18 DEF Coordinator

\* Every step of the rest of the daemon keeps the invariant.
LEMMA EnvironmentFits ==
  ASSUME QueueInv, Environment
  PROVE  QueueInv'
<1>1. ASSUME NEW r \in Known, NEW o \in Results, Settle(r, o)  PROVE QueueInv'
  BY <1>1, SettleStep
<1>2. ASSUME NEW r \in Known, NEW st \in {"finalized", "settled", "unsafe"}, FinalizeEnds(r, st)
      PROVE  QueueInv'
  BY <1>2, FinalizeEndsStep
<1>3. ASSUME NEW r \in Known, Review(r)  PROVE QueueInv'
  BY <1>3, ReviewStep
<1>4. ASSUME NEW s \in {0} \cup Known, ForeignStart(s)  PROVE QueueInv'
  BY <1>4, ForeignStartStep
<1>5. CASE ForeignRegister
  BY <1>5, ForeignRegisterStep
<1>6. CASE Crash
  BY <1>6, CrashStep
<1>7. CASE Restart
  BY <1>7, RestartStep
<1> QED  BY <1>1, <1>2, <1>3, <1>4, <1>5, <1>6, <1>7 DEF Environment

\* A step that changes nothing keeps the invariant.
LEMMA Stutters ==
  ASSUME QueueInv, UNCHANGED vars
  PROVE  QueueInv'
<1>1. RunsKeep /\ NoNewTurn /\ RunsTyped /\ Known' = Known
  BY RunsUntouched DEF vars
<1>2. QueueKeeps
  BY <1>1, QueueUntouched DEF vars
<1>3. TypeOK'
  BY DEF vars, QueueInv, TypeOK
<1> QED  BY <1>1, <1>2, <1>3, OutsideStep DEF vars, QueueInv, AdmissionFits

\* The queue, the pass that sends its head, the journal and the saved turns
\* belong together in every state of follow_up_queue.py: after every request,
\* every step of a pass, every crash and every restart.
THEOREM QueueInvariant == Spec => []QueueInv
<1>1. Init => QueueInv
  BY InitFits
<1>2. QueueInv /\ [Next]_vars => QueueInv'
  BY ClientFits, CoordinatorFits, EnvironmentFits, Stutters DEF Next
<1> QED  BY <1>1, <1>2, PTL DEF Spec

\* One attempt at one message starts at most one turn (_execute_claimed and the
\* journal's execute), however often it is retried and whatever is lost.
THEOREM OneTurnPerAttemptHolds == Spec => []OneTurnPerAttempt
<1>1. QueueInv => OneTurnPerAttempt
  BY DEF QueueInv
<1> QED  BY <1>1, QueueInvariant, PTL

\* A turn of the queue continues the run and the agent that were claimed, from
\* an adopted result and in the same conversation (claim, _continue_from_agent).
THEOREM TurnsKeepLineageHolds == Spec => []TurnsKeepLineage
<1>1. QueueInv => TurnsKeepLineage
  BY DEF QueueInv
<1> QED  BY <1>1, QueueInvariant, PTL

-----------------------------------------------------------------------------
(* What a step may do to the head of the queue.                             *)

\* The head is held for the user.
HeadIsHeld ==
  /\ Pending /\ runs' = runs
  /\ \E why \in Holds \ {"none"} : queue' = Held(queue, why)

\* The head is sent: the queue moves on to a run that was started for it.
HeadIsSent ==
  /\ Pending /\ runs' = runs /\ worker.pc # "idle" /\ First.id = worker.snap.head.id
  /\ \E r \in Known : ServesHead(r) /\ queue' = Advanced(r)

\* The head is not claimed yet, and no message is sent.
HeadIsOpen == ~Claimed /\ queue'.done = queue.done

\* What the coordinator may do to the head.
LEMMA CoordinatorMoves ==
  ASSUME QueueInv, QueueInv', Coordinator
  PROVE  QueueKeeps \/ HeadIsOpen \/ HeadIsHeld \/ HeadIsSent
<1> USE DEF Sending
<1>1. ASSUME queue' = queue  PROVE QueueKeeps
  BY <1>1 DEF QueueInv, TypeOK, QueueKeeps, Claimed, First, Pending
<1>2. CASE Wait
  <2>1. worker.pc = "wait"
    BY <1>2 DEF Wait, At
  <2>2. ~Claimed
    BY <2>1 DEF QueueInv, PassFits
  <2>3. queue' \in {queue, [Unselected(queue) EXCEPT !.state = "waiting"]}
    BY <1>2 DEF Wait
  <2>4. queue'.done = queue.done
    BY <2>3, QueueFacts DEF QueueInv, Unselected, Queues
  <2> QED  BY <2>2, <2>4 DEF HeadIsOpen
<1>3. CASE Countdown
  <2>1. worker.pc = "countdown"
    BY <1>3 DEF Countdown, At
  <2>2. ~Claimed
    BY <2>1 DEF QueueInv, PassFits
  <2> DEFINE source == IF queue.source = "manual" THEN "manual" ELSE "automatic"
  <2>3. \/ queue' = queue
        \/ queue' = [queue EXCEPT !.selected = worker.agent, !.state = "countdown",
                                  !.source = source, !.deadline = TRUE]
    BY <1>3, QueueFacts DEF Countdown, QueueInv, Queues
  <2> HIDE DEF source
  <2>4. queue'.done = queue.done
    BY <2>3, QueueFacts DEF QueueInv, Queues
  <2> QED  BY <2>2, <2>4 DEF HeadIsOpen
<1>4. CASE Claim
  <2>1. worker.pc = "claim"
    BY <1>4 DEF Claim, At
  <2>2. ~Claimed
    BY <2>1 DEF QueueInv, PassFits
  <2> DEFINE saved == Body(worker.snap.run, worker.agent, worker.snap.head)
             items == [queue.items EXCEPT ![1] = [queue.items[1] EXCEPT !.claim = saved]]
  <2>3. \/ queue' = queue
        \/ queue' = [queue EXCEPT !.items[1].claim = saved, !.state = "dispatching",
                                  !.deadline = FALSE]
    BY <1>4 DEF Claim
  <2>4. queue'.done = queue.done
    <3> HIDE DEF saved
    <3> QED  BY <2>3, QueueFacts DEF QueueInv, Queues
  <2> QED  BY <2>2, <2>4 DEF HeadIsOpen
<1>5. CASE Pause
  <2>1. worker.why \in Holds \ {"none"} /\ runs' = runs
    BY <1>5 DEF Pause, At, QueueInv, PassFits
  <2> QED  BY <1>1, <1>5, <2>1 DEF Pause, HeadIsHeld
<1>6. CASE Complete
  <2>1. ServesHead(worker.next) /\ worker.next \in Known /\ worker.pc # "idle" /\ runs' = runs
    BY <1>6 DEF Complete, At, QueueInv, PassFits, ServesHead
  <2> QED  BY <1>1, <1>6, <2>1 DEF Complete, HeadIsSent
<1>7. CASE Raised
  <2>1. worker.pc = "raised" /\ worker.pc # "idle" /\ runs' = runs /\ registry \in Known
    BY <1>7 DEF Raised, At, QueueInv, TypeOK, Known
  <2>2. Claimed /\ Pending
    BY <2>1, SentClaim
  <2>3. CASE queue' = [queue EXCEPT !.state = "dispatching", !.deadline = FALSE]
    <3>1. queue \in Queues /\ queue.state = "dispatching"
      BY <2>2, QueueFacts, ClaimFacts DEF QueueInv
    <3>2. /\ queue' \in Queues /\ queue'.items = queue.items /\ queue'.run = queue.run
          /\ queue'.state = queue.state /\ queue'.done = queue.done
          /\ queue'.selected = queue.selected
      BY <2>3, <3>1 DEF Queues
    <3> QED  BY <2>1, <3>2, SameMessages
  <2>4. ASSUME NEW why \in {"changed", "unsent"}, queue' = Held(queue, why)
        PROVE  HeadIsHeld
    BY <2>1, <2>2, <2>4 DEF HeadIsHeld, Holds
  <2>5. CASE /\ First.id = worker.snap.head.id /\ queue' = Advanced(registry)
             /\ Matches(registry, worker.snap.run, worker.snap.head)
    <3>1. ServesHead(registry)
      BY <2>1, <2>5, MatchesServes
    <3> QED  BY <2>1, <2>2, <2>5, <3>1 DEF HeadIsSent
  <2> QED  BY <1>1, <1>7, <2>3, <2>4, <2>5, RaisedWrites
<1>8. CASE Snapshot \/ Compare \/ Inspect \/ ReadFails \/ StillCounting
  BY <1>1, <1>8 DEF Snapshot, Compare, Inspect, ReadFails, StillCounting
<1>9. CASE Execute \/ Admit \/ Adopted \/ Commit \/ Register \/ RegisterFails \/ Finish
  BY <1>1, <1>9 DEF Execute, Admit, Adopted, Commit, Register, RegisterFails, Finish
<1> QED  BY <1>2, <1>3, <1>4, <1>5, <1>6, <1>7, <1>8, <1>9 DEF Coordinator

\* The steps that are not the coordinator's keep the head's claim.
LEMMA OthersKeep ==
  ASSUME QueueInv, QueueInv', Client \/ Environment \/ UNCHANGED vars
  PROVE  QueueKeeps
<1>1. CASE Client
  BY <1>1, ClientFits
<1>2. CASE queue' = queue
  BY <1>2 DEF QueueInv, TypeOK, QueueKeeps, Claimed, First, Pending
<1>3. CASE Environment
  <2>1. queue' = queue
    BY <1>3 DEF Environment, Settle, FinalizeEnds, Review, ForeignStart, ForeignRegister, Crash,
                Restart, Others
  <2> QED  BY <1>2, <2>1
<1> QED  BY <1>1, <1>2, <1>3 DEF vars

\* What any step may do to the head.
LEMMA HeadMoves ==
  ASSUME QueueInv, QueueInv', [Next]_vars
  PROVE  QueueKeeps \/ HeadIsOpen \/ HeadIsHeld \/ HeadIsSent
  BY CoordinatorMoves, OthersKeep DEF Next

\* A claimed message stays at the head with its claim until it is sent or held
\* (claim, enqueue, replace, clear, update_delay, _pause, _complete).
THEOREM ClaimIsKeptHolds == Spec => ClaimIsKept
<1>1. ASSUME QueueInv, QueueInv', [Next]_vars
      PROVE  Claimed =>
               \/ queue'.done = First.id /\ queue'.items = Tail(queue.items)
               \/ queue'.items # <<>> /\ [queue'.items[1] EXCEPT !.hold = "none"] = First
  <2> SUFFICES ASSUME Claimed
               PROVE  \/ queue'.done = First.id /\ queue'.items = Tail(queue.items)
                      \/ queue'.items # <<>> /\ [queue'.items[1] EXCEPT !.hold = "none"] = First
    OBVIOUS
  <2>1. First \in QueueItems /\ First.hold = "none" /\ Pending
    BY <1>1, Types, ElementOfSeq DEF QueueInv, Claimed, First, Pending
  <2>2. [First EXCEPT !.hold = "none"] = First
    BY <2>1 DEF QueueItems
  <2>3. CASE QueueKeeps
    <3>1. Claimed' /\ First' = First
      BY <2>3 DEF QueueKeeps
    <3> QED  BY <2>2, <3>1 DEF Claimed, Pending, First
  <2>4. CASE HeadIsOpen
    BY <2>4 DEF HeadIsOpen
  <2>5. CASE HeadIsHeld
    <3>1. PICK why \in Holds \ {"none"} : queue' = Held(queue, why)
      BY <2>5 DEF HeadIsHeld
    <3>2. queue'.items # <<>> /\ queue'.items[1] = [First EXCEPT !.hold = why]
      BY <1>1, <2>5, <3>1, HeldFits DEF HeadIsHeld
    <3>3. [[First EXCEPT !.hold = why] EXCEPT !.hold = "none"] = First
      BY <2>1 DEF QueueItems
    <3> QED  BY <3>2, <3>3
  <2>6. CASE HeadIsSent
    BY <1>1, <2>6, AdvancedFits DEF HeadIsSent
  <2> QED  BY <1>1, <2>3, <2>4, <2>5, <2>6, HeadMoves
<1> QED  BY <1>1, QueueInvariant, PTL DEF Spec, ClaimIsKept

\* A message leaves the queue as sent only when a run was saved for it, and a
\* claimed one only when that run carries its claim (_complete and the two
\* callers of it, _matches_dispatched_follow_up).
THEOREM CompletedIsSentHolds == Spec => CompletedIsSent
<1>1. ASSUME QueueInv, QueueInv', [Next]_vars
      PROVE  queue'.done # queue.done =>
               /\ Pending /\ queue'.done = First.id /\ queue'.items = Tail(queue.items)
               /\ queue'.run \in Known /\ runs[queue'.run].command # None
               /\ runs[queue'.run].command.id[1] = First.id
               /\ Claimed => runs[queue'.run].command = Submission(Command(First), First.claim)
  <2>1. CASE QueueKeeps \/ HeadIsOpen
    BY <2>1 DEF QueueKeeps, HeadIsOpen
  <2>2. CASE HeadIsHeld
    BY <1>1, <2>2, HeldFits DEF HeadIsHeld
  <2>3. CASE HeadIsSent
    <3>1. PICK r \in Known : ServesHead(r) /\ queue' = Advanced(r)
      BY <2>3 DEF HeadIsSent
    <3>2. queue'.done = First.id /\ queue'.items = Tail(queue.items) /\ queue'.run = r
      BY <1>1, <2>3, <3>1, AdvancedFits DEF HeadIsSent
    <3>3. /\ runs[r].command # None /\ runs[r].command.id = Command(worker.snap.head)
          /\ worker.snap.head.claim # None => runs[r].command.body = worker.snap.head.claim
      BY <3>1 DEF ServesHead
    <3>4. runs[r].command.id[1] = First.id
      BY <2>3, <3>3 DEF HeadIsSent, Command
    <3>5. Claimed => First = worker.snap.head /\ First.claim # None
      BY <1>1, <2>3 DEF HeadIsSent, QueueInv, PassFits
    <3>6. runs[r].command = [id |-> runs[r].command.id, body |-> runs[r].command.body]
      BY <1>1, <3>3, RunFacts DEF QueueInv, Submissions
    <3> QED  BY <2>3, <3>2, <3>3, <3>4, <3>5, <3>6 DEF HeadIsSent, Submission
  <2> QED  BY <1>1, <2>1, <2>2, <2>3, HeadMoves
<1> QED  BY <1>1, QueueInvariant, PTL DEF Spec, CompletedIsSent

\* The last element of a sequence that was appended to.
LEMMA LastOfAppend ==
  ASSUME NEW S, NEW s \in Seq(S), NEW e
  PROVE  Len(Append(s, e)) = Len(s) + 1 /\ Append(s, e)[Len(s) + 1] = e
  OBVIOUS

\* A step starts a turn of the queue only in Commit.
LEMMA NewTurns ==
  ASSUME QueueInv, QueueInv', [Next]_vars, NEW r \in DOMAIN runs', r \notin Known,
         runs'[r].command # None
  PROVE  Commit
<1>1. DOMAIN runs = Known /\ DOMAIN runs' = Known'
  BY DEF QueueInv, TypeOK, Known
<1>2. DOMAIN runs' # DOMAIN runs
  BY <1>1
<1>3. CASE Client
  <2>1. ASSUME NEW o \in Results, Stop(o)  PROVE DOMAIN runs' = DOMAIN runs
    BY <2>1 DEF Stop
  <2>2. ASSUME NEW k, RefusedRequest(k) \/ StopBegin(k) \/ Clear(k)
        PROVE  DOMAIN runs' = DOMAIN runs
    BY <2>2 DEF RefusedRequest, StopBegin, Clear
  <2>3. ASSUME NEW k, NEW list, NEW reset, Replace(k, list, reset)
        PROVE  DOMAIN runs' = DOMAIN runs
    BY <2>3 DEF Replace
  <2>4. ASSUME NEW k, NEW x, EnqueueBegin(k, x) \/ SelectBegin(k, x) \/ UpdateDelay(x)
        PROVE  DOMAIN runs' = DOMAIN runs
    BY <2>4 DEF EnqueueBegin, SelectBegin, UpdateDelay
  <2>5. ASSUME Enqueue \/ Select  PROVE DOMAIN runs' = DOMAIN runs
    <3>1. runs' = runs
      BY <2>5 DEF Enqueue, Select
    <3> QED  BY <3>1
  <2> QED  BY <1>2, <1>3, <2>1, <2>2, <2>3, <2>4, <2>5, Zenon DEF Client
<1>4. CASE Coordinator
  <2>1. DOMAIN runs' = DOMAIN runs \/ Commit
    BY <1>4 DEF Coordinator, Snapshot, Compare, Inspect, ReadFails, StillCounting, Wait, Countdown,
                Claim, Pause, Complete, Execute, Admit, Adopted, Register, RegisterFails, Finish, Raised
  <2> QED  BY <1>2, <2>1
<1>5. CASE Environment
  <2>1. ASSUME NEW s \in {0} \cup Known, ForeignStart(s)
        PROVE  FALSE
    <3>1. PICK o \in Results, a \in {0, runs[s].finalized} : runs' = Append(runs, NewRun(s, a, None, o))
      BY <2>1 DEF ForeignStart
    <3> DEFINE new == NewRun(s, a, None, o)
    <3>2. new.command = None
      BY DEF NewRun
    <3> HIDE DEF new
    <3>3. runs' = Append(runs, new) /\ r \in 1..Len(runs')
      BY <1>1, <3>1 DEF new, Known
    <3>4. r = Len(runs) + 1 /\ runs'[r] = new
      <4>1. runs \in Seq(SavedRuns) /\ Len(runs) \in Nat
        BY Types DEF QueueInv
      <4> QED  BY <3>3, <4>1, LastOfAppend DEF Known
    <3> QED  BY <3>2, <3>4
  <2>2. ASSUME NEW k \in Known, Review(k) \/ \E o \in Results : Settle(k, o)
        PROVE  DOMAIN runs' = DOMAIN runs
    BY <2>2 DEF Review, Settle, Adopt
  <2>3. ASSUME NEW k \in Known, NEW st \in {"finalized", "settled", "unsafe"}, FinalizeEnds(k, st)
        PROVE  DOMAIN runs' = DOMAIN runs
    BY <2>3 DEF FinalizeEnds, Adopt
  <2>4. CASE ForeignRegister \/ Crash \/ Restart
    BY <1>2, <2>4 DEF ForeignRegister, Crash, Restart
  <2> QED  BY <1>2, <1>5, <2>1, <2>2, <2>3, <2>4 DEF Environment
<1>6. CASE UNCHANGED vars
  BY <1>2, <1>6 DEF vars
<1> QED  BY <1>3, <1>4, <1>5, <1>6 DEF Next

\* A turn of the queue starts only for the head as it stands and as it was
\* claimed, whatever clients did since the pass copied the queue
\* (process_workspace, _execute_claimed, start_run).
THEOREM StartsOnlyClaimedHeadHolds == Spec => StartsOnlyClaimedHead
<1>1. ASSUME QueueInv, QueueInv', [Next]_vars, NEW r \in DOMAIN runs', r \notin Known,
             runs'[r].command # None
      PROVE  /\ Claimed /\ First.claim = Body(First.claim.run, First.claim.agent, First)
             /\ queue.selected # 0 => First.claim.run = queue.run
             /\ runs'[r].command = Submission(Command(First), First.claim)
  <2>1. Commit /\ worker.pc = "commit" /\ worker.pc \in Sending
    BY <1>1, NewTurns DEF Commit, At, Sending
  <2>2. Claimed /\ body = First.claim /\ cmd = Command(First)
    BY <1>1, <2>1, SentClaim
  <2>3. /\ First.claim = Body(First.claim.run, First.claim.agent, First)
        /\ queue.selected # 0 => First.claim.run = queue.run
    BY <1>1, <2>2 DEF QueueInv, ClaimsMatchQueue
  <2>4. DOMAIN runs = Known /\ DOMAIN runs' = Known'
    BY <1>1 DEF QueueInv, TypeOK, Known
  <2>5. PICK o \in Results :
          runs' = Append(runs, NewRun(body.run, body.agent, Submission(cmd, body), o))
    BY <1>1, <2>1, <2>4 DEF Commit
  <2> DEFINE new == NewRun(body.run, body.agent, Submission(cmd, body), o)
  <2>6. new.command = Submission(cmd, body)
    BY DEF NewRun
  <2> HIDE DEF new
  <2>7. runs' = Append(runs, new) /\ r \in 1..Len(runs')
    BY <2>4, <2>5, <1>1 DEF new, Known
  <2>8. r = Len(runs) + 1 /\ runs'[r] = new
    <3>1. runs \in Seq(SavedRuns) /\ Len(runs) \in Nat
      BY <1>1, Types DEF QueueInv
    <3> QED  BY <1>1, <2>7, <3>1, LastOfAppend DEF Known
  <2> QED  BY <2>2, <2>3, <2>6, <2>8
<1>2. QueueInv /\ QueueInv' /\ [Next]_vars =>
        (\A r \in DOMAIN runs' : r \notin Known /\ runs'[r].command # None =>
           /\ Claimed /\ First.claim = Body(First.claim.run, First.claim.agent, First)
           /\ queue.selected # 0 => First.claim.run = queue.run
           /\ runs'[r].command = Submission(Command(First), First.claim))
  BY <1>1
<1> QED  BY <1>2, QueueInvariant, PTL DEF Spec, StartsOnlyClaimedHead

-----------------------------------------------------------------------------
(***************************************************************************)
(* The follow-up queue is a correct client of the command journal, for any   *)
(* messages, runs, clients and crashes: the turns that its coordinator sends *)
(* are a behaviour of CommandJournal.  What a turn of the queue does to the   *)
(* saved runs is the effect of its command; where the pass is inside the      *)
(* command is its executor.                                                 *)
(***************************************************************************)

-----------------------------------------------------------------------------
(* What the journal sees of a state.                                        *)

\* No thread is inside the command.
Free == [phase |-> "free", body |-> None]

Running == {"admit", "adopting", "commit"}
Applied == {"register", "finish"}

\* The executors and effects of all commands, as the journal has them.
Executors == [c \in Commands |-> Executor(c)]
AllEffects == [c \in Commands |-> [b \in Bodies |-> Effects(c, b)]]

\* A record says "not applied" only of a command that failed for good; the
\* other records say nothing.
OutcomesFit == \A c \in Commands : journal[c].outcome # "unknown" => journal[c].status = "failed"

\* Only the command of the pass has an executor, and only inside it.
LEMMA ExecutorOf ==
  /\ \A c : worker.pc \notin Running \cup Applied \cup {"raised"} \/ c # cmd => Executor(c) = Free
  /\ worker.pc \in Running => Executor(cmd) = [phase |-> "running", body |-> body]
  /\ worker.pc \in Applied => Executor(cmd) = [phase |-> "applied", body |-> body]
  /\ worker.pc = "raised" =>
       Executor(cmd) = IF worker.why = "retry" /\ journal[cmd].status = "retryable"
                       THEN [phase |-> "indexing", body |-> body] ELSE Free
  BY DEF Executor, Free, Running, Applied

\* The same after a step.
LEMMA ExecutorAfter ==
  /\ \A c : worker'.pc \notin Running \cup Applied \cup {"raised"} \/ c # cmd' => Executor(c)' = Free
  /\ worker'.pc \in Running => Executor(cmd)' = [phase |-> "running", body |-> body']
  /\ worker'.pc \in Applied => Executor(cmd)' = [phase |-> "applied", body |-> body']
  /\ worker'.pc = "raised" =>
       Executor(cmd)' = IF worker'.why = "retry" /\ journal'[cmd'].status = "retryable"
                        THEN [phase |-> "indexing", body |-> body'] ELSE Free
  BY DEF Executor, Free, Running, Applied

\* Within one command only its own executor changes.
LEMMA ExecutorMoves ==
  ASSUME cmd \in Commands, cmd' = cmd
  PROVE  Executors' = [Executors EXCEPT ![cmd] = Executor(cmd)']
<1>1. \A c \in Commands : c # cmd => Executor(c)' = Executor(c)
  BY ExecutorOf, ExecutorAfter
<1> QED  BY <1>1 DEF Executors

\* A command has taken effect once or not at all.
LEMMA EffectsAre ==
  ASSUME QueueInv, NEW c \in Commands, NEW b \in Bodies
  PROVE  Effects(c, b) = IF Started(c, b) = {} THEN 0 ELSE 1
<1>1. CASE Started(c, b) = {}
  BY <1>1, FS_EmptySet DEF Effects
<1>2. ASSUME NEW r \in Started(c, b)
      PROVE  Effects(c, b) = 1
  <2>1. \A s \in Started(c, b) : s = r
    <3>1. Submission(c, b) # None /\ Submission(c, b).id = c
      BY NoneAssumption DEF Submission, Submissions
    <3> QED  BY <1>2, <3>1 DEF Started, QueueInv, OneTurnPerAttempt
  <2>2. Started(c, b) = {r}
    BY <1>2, <2>1
  <2>3. Cardinality({r}) = 1
    BY FS_Singleton
  <2> QED  BY <2>2, <2>3 DEF Effects
<1> QED  BY <1>1, <1>2

\* The saved runs keep their commands.
CommandsStay == \A r \in Known : r \in Known' /\ runs'[r].command = runs[r].command

\* One run changes, but not its command.
LEMMA OneRunChanges ==
  ASSUME QueueInv, NEW k \in Known, NEW new, new.command = runs[k].command,
         runs' = [runs EXCEPT ![k] = new]
  PROVE  CommandsStay
<1>1. runs \in Seq(SavedRuns) /\ Len(runs) \in Nat
  BY Types DEF QueueInv
<1> QED  BY <1>1 DEF Known, CommandsStay

\* A run is saved behind the others.
LEMMA OneRunIsSaved ==
  ASSUME QueueInv, NEW new, runs' = Append(runs, new)
  PROVE  CommandsStay
<1>1. runs \in Seq(SavedRuns) /\ Len(runs) \in Nat
  BY Types DEF QueueInv
<1> QED  BY <1>1 DEF Known, CommandsStay

\* No run is saved or changed.
LEMMA NoRunChanges ==
  ASSUME runs' = runs
  PROVE  CommandsStay
  BY DEF Known, CommandsStay

\* The status, the outcome or the agent of a run changes.
LEMMA StatusChanges ==
  ASSUME QueueInv, NEW k \in Known,
         \/ \E st : runs' = [runs EXCEPT ![k].status = st]
         \/ \E o : runs' = [runs EXCEPT ![k].outcome = o]
         \/ \E st, o : runs' = [runs EXCEPT ![k].status = st, ![k].outcome = o]
         \/ \E st, a : runs' = [runs EXCEPT ![k].status = st, ![k].saving = a]
         \/ runs' = Adopt(k)
  PROVE  CommandsStay
<1>1. runs[k] \in SavedRuns /\ runs \in Seq(SavedRuns)
  BY Types DEF QueueInv
<1>2. ASSUME NEW st, runs' = [runs EXCEPT ![k].status = st]  PROVE CommandsStay
  <2> DEFINE new == [runs[k] EXCEPT !.status = st]
  <2>1. new.command = runs[k].command
    BY <1>1 DEF SavedRuns
  <2>2. runs' = [runs EXCEPT ![k] = new]
    BY <1>2
  <2> HIDE DEF new
  <2> QED  BY <2>1, <2>2, OneRunChanges
<1>3. ASSUME NEW o, runs' = [runs EXCEPT ![k].outcome = o]  PROVE CommandsStay
  <2> DEFINE new == [runs[k] EXCEPT !.outcome = o]
  <2>1. new.command = runs[k].command
    BY <1>1 DEF SavedRuns
  <2>2. runs' = [runs EXCEPT ![k] = new]
    BY <1>3
  <2> HIDE DEF new
  <2> QED  BY <2>1, <2>2, OneRunChanges
<1>4. ASSUME NEW st, NEW o, runs' = [runs EXCEPT ![k].status = st, ![k].outcome = o]
      PROVE  CommandsStay
  <2> DEFINE new == [runs[k] EXCEPT !.status = st, !.outcome = o]
  <2>1. new.command = runs[k].command
    BY <1>1 DEF SavedRuns
  <2>2. runs' = [runs EXCEPT ![k] = new]
    BY <1>1, <1>4
  <2> HIDE DEF new
  <2> QED  BY <2>1, <2>2, OneRunChanges
<1>5. ASSUME NEW st, NEW a, runs' = [runs EXCEPT ![k].status = st, ![k].saving = a]
      PROVE  CommandsStay
  <2> DEFINE new == [runs[k] EXCEPT !.status = st, !.saving = a]
  <2>1. new.command = runs[k].command
    BY <1>1 DEF SavedRuns
  <2>2. runs' = [runs EXCEPT ![k] = new]
    BY <1>1, <1>5
  <2> HIDE DEF new
  <2> QED  BY <2>1, <2>2, OneRunChanges
<1>6. CASE runs' = Adopt(k)
  <2> DEFINE new == [runs[k] EXCEPT !.status = "finalized", !.finalized = runs[k].saving, !.saving = 0]
  <2>1. new.command = runs[k].command
    BY <1>1 DEF SavedRuns
  <2>2. runs' = [runs EXCEPT ![k] = new]
    BY <1>1, <1>6 DEF Adopt
  <2> HIDE DEF new
  <2> QED  BY <2>1, <2>2, OneRunChanges
<1> QED  BY <1>2, <1>3, <1>4, <1>5, <1>6

\* Whatever happens, the saved runs keep their commands.
LEMMA StepsKeepCommands ==
  ASSUME QueueInv, [Next]_vars
  PROVE  CommandsStay
<1>1. CASE Client
  <2>1. ASSUME NEW o \in Results, Stop(o)  PROVE CommandsStay
    <3>1. call.run \in Known
      BY <2>1 DEF Stop, QueueInv, TypeOK, Known
    <3> QED  BY <2>1, <3>1, StatusChanges, NoRunChanges DEF Stop
  <2>2. ASSUME NEW k, RefusedRequest(k) \/ StopBegin(k) \/ Clear(k)  PROVE CommandsStay
    BY <2>2, NoRunChanges DEF RefusedRequest, StopBegin, Clear
  <2>3. ASSUME NEW k, NEW list, NEW reset, Replace(k, list, reset)  PROVE CommandsStay
    BY <2>3, NoRunChanges DEF Replace
  <2>4. ASSUME NEW k, NEW x, EnqueueBegin(k, x) \/ SelectBegin(k, x) \/ UpdateDelay(x)
        PROVE  CommandsStay
    BY <2>4, NoRunChanges DEF EnqueueBegin, SelectBegin, UpdateDelay
  <2>5. ASSUME Enqueue \/ Select  PROVE CommandsStay
    <3>1. runs' = runs
      BY <2>5 DEF Enqueue, Select
    <3> QED  BY <3>1, NoRunChanges
  <2> QED  BY <1>1, <2>1, <2>2, <2>3, <2>4, <2>5, Zenon DEF Client
<1>2. CASE Coordinator
  <2>1. CASE Admit
    <3>1. body.run \in Known
      BY <2>1, SentClaim DEF Admit, At, Sending
    <3>2. \/ runs' = runs
          \/ runs' = [runs EXCEPT ![body.run].status = "finalizing", ![body.run].saving = body.agent]
      BY <2>1 DEF Admit
    <3> QED  BY <3>1, <3>2, StatusChanges, NoRunChanges
  <2>2. CASE Commit
    <3>1. \/ runs' = runs
          \/ \E o \in Results :
               runs' = Append(runs, NewRun(body.run, body.agent, Submission(cmd, body), o))
      BY <2>2 DEF Commit
    <3> QED  BY <3>1, OneRunIsSaved, NoRunChanges
  <2>3. ASSUME ~Admit, ~Commit  PROVE runs' = runs
    BY <1>2, <2>3 DEF Coordinator, Snapshot, Compare, Inspect, ReadFails, StillCounting, Wait,
         Countdown, Claim, Pause, Complete, Execute, Adopted, Register, RegisterFails, Finish, Raised
  <2> QED  BY <2>1, <2>2, <2>3, NoRunChanges
<1>3. CASE Environment
  <2>1. ASSUME NEW k \in Known, NEW o \in Results, Settle(k, o)  PROVE CommandsStay
    BY <2>1, StatusChanges DEF Settle
  <2>2. ASSUME NEW k \in Known, NEW st \in {"finalized", "settled", "unsafe"}, FinalizeEnds(k, st)
        PROVE  CommandsStay
    BY <2>2, StatusChanges DEF FinalizeEnds
  <2>3. ASSUME NEW k \in Known, Review(k)  PROVE CommandsStay
    BY <2>3, StatusChanges DEF Review
  <2>4. ASSUME NEW s \in {0} \cup Known, ForeignStart(s)  PROVE CommandsStay
    BY <2>4, OneRunIsSaved DEF ForeignStart
  <2>5. CASE ForeignRegister \/ Crash \/ Restart
    BY <2>5, NoRunChanges DEF ForeignRegister, Crash, Restart
  <2> QED  BY <1>3, <2>1, <2>2, <2>3, <2>4, <2>5 DEF Environment
<1>4. CASE UNCHANGED vars
  BY <1>4, NoRunChanges DEF vars
<1> QED  BY <1>1, <1>2, <1>3, <1>4 DEF Next

\* Only a commit adds a turn, so only a commit has an effect.
LEMMA EffectsStay ==
  ASSUME QueueInv, QueueInv', [Next]_vars, ~Commit
  PROVE  AllEffects' = AllEffects
<1>1. Known \subseteq Known' /\ \A r \in Known : runs'[r].command = runs[r].command
  BY StepsKeepCommands DEF CommandsStay
<1>2. DOMAIN runs' = Known'
  BY DEF QueueInv, TypeOK, Known
<1>3. \A r \in Known' : r \notin Known => runs'[r].command = None
  BY <1>2, NewTurns
<1>4. ASSUME NEW c \in Commands, NEW b \in Bodies
      PROVE  Started(c, b)' = Started(c, b)
  <2>1. Submission(c, b) # None
    BY NoneAssumption DEF Submission, Submissions
  <2> QED  BY <1>1, <1>3, <2>1 DEF Started
<1>5. \A c \in Commands, b \in Bodies : Effects(c, b)' = Effects(c, b)
  BY <1>4 DEF Effects
<1> QED  BY <1>5 DEF AllEffects

-----------------------------------------------------------------------------
(* Step by step.                                                            *)

\* A step of the journal, or one that the journal does not see.
Seen == UNCHANGED Journal!vars
JournalStep == Journal!Next \/ Seen

\* The journal sees records, effects, executors and whether the daemon runs.
LEMMA Unseen ==
  ASSUME journal' = journal, up' = up, AllEffects' = AllEffects, Executors' = Executors
  PROVE  JournalStep
  BY DEF JournalStep, Seen, Journal!vars, AllEffects, Executors

\* What the pass writes to the record of its command while it is inside.
LEMMA FailsImplements ==
  ASSUME QueueInv, worker.pc \in Inside, NEW outcome \in {"unknown", "not_applied"},
         outcome = "not_applied" => worker.pc \in Running,
         NEW why, Fails(outcome, why), up' = up, AllEffects' = AllEffects
  PROVE  JournalStep
<1> DEFINE c == cmd
<1>1. c \in Commands /\ journal[c] \in JournalRecords /\ journal[c].body = body
      /\ journal \in [Commands -> JournalRecords]
  BY InsideFacts, SentClaim DEF QueueInv, TypeOK
<1>2. cmd' = cmd /\ body' = body /\ worker'.pc = "raised"
  BY Types DEF QueueInv, Fails, Raise, cmd, body, Passes
<1>3. Executor(c).phase \in {"running", "applied"}
      /\ (worker.pc \in Running => Executor(c).phase = "running")
  BY ExecutorOf DEF Inside, Running, Applied
<1>4. journal' = [journal EXCEPT ![c] = [@ EXCEPT !.status = "failed", !.outcome = outcome]]
  BY <1>1 DEF Fails, JournalRecords
<1>5. Executor(c)' = Free
  BY <1>1, <1>2, <1>4, ExecutorAfter DEF JournalRecords
<1>6. Executors' = [Executors EXCEPT ![c] = Free]
  BY <1>1, <1>2, <1>5, ExecutorMoves
<1>7. Executors[c] = Executor(c)
  BY <1>1 DEF Executors
<1> HIDE DEF c
<1>8. Journal!FailForGood(c, outcome)
  BY <1>3, <1>4, <1>6, <1>7 DEF Journal!FailForGood, Journal!Idle, Executors, AllEffects, Free
<1> QED  BY <1>1, <1>8 DEF JournalStep, Journal!Next

\* A command that is left for a retry is about to be indexed.
LEMMA FailsRetryablyImplements ==
  ASSUME QueueInv, worker.pc \in {"admit", "adopting"}, FailsRetryably, up' = up,
         AllEffects' = AllEffects
  PROVE  JournalStep
<1> DEFINE c == cmd
<1>1. c \in Commands /\ journal[c] \in JournalRecords /\ journal[c].body = body
      /\ journal \in [Commands -> JournalRecords]
  BY InsideFacts, SentClaim DEF QueueInv, TypeOK, Inside
<1>2. /\ cmd' = cmd /\ body' = body /\ worker'.pc = "raised" /\ worker'.why = "retry"
  BY Types DEF QueueInv, FailsRetryably, Raise, cmd, body, Passes
<1>3. Executor(c) = [phase |-> "running", body |-> body]
  BY ExecutorOf DEF Running
<1>4. journal' = [journal EXCEPT ![c].status = "retryable"] /\ journal'[c].status = "retryable"
  BY <1>1 DEF FailsRetryably, JournalRecords
<1>5. Executor(c)' = [phase |-> "indexing", body |-> body]
  BY <1>2, <1>4, ExecutorAfter
<1>6. Executors' = [Executors EXCEPT ![c] = Executor(c)']
  BY <1>1, <1>2, ExecutorMoves
<1>7. Executors[c] = [phase |-> "running", body |-> body]
  BY <1>1, <1>3 DEF Executors
<1>8. Executors' = [Executors EXCEPT ![c] = [phase |-> "indexing", body |-> body]]
  BY <1>5, <1>6
<1> HIDE DEF c
<1>9. Executors' = [Executors EXCEPT ![c].phase = "indexing"] /\ Executors[c].phase = "running"
  <2>1. [Executors[c] EXCEPT !.phase = "indexing"] = [phase |-> "indexing", body |-> body]
    BY <1>7
  <2>2. Executors' = [Executors EXCEPT ![c] = [Executors[c] EXCEPT !.phase = "indexing"]]
    BY <1>8, <2>1
  <2>3. Executors' = [Executors EXCEPT ![c].phase = "indexing"]
    BY <2>2
  <2>4. Executors[c].phase = "running"
    BY <1>7
  <2> QED  BY <2>3, <2>4
<1>10. Journal!FailRetryably(c)
  BY <1>4, <1>9 DEF Journal!FailRetryably, Executors, AllEffects
<1> QED  BY <1>1, <1>10 DEF JournalStep, Journal!Next

\* The pass goes on inside its command: the journal does not see it.
LEMMA GoesOnUnseen ==
  ASSUME QueueInv, NEW p, GoTo(p), worker.pc \in Inside, journal' = journal, up' = up,
         AllEffects' = AllEffects,
         \/ worker.pc \in Running /\ p \in Running
         \/ worker.pc \in Applied /\ p \in Applied
  PROVE  JournalStep
<1>1. cmd' = cmd /\ body' = body /\ worker'.pc = p /\ cmd \in Commands
  BY Types, InsideFacts, SentClaim DEF QueueInv, GoTo, cmd, body, Passes
<1>2. Executor(cmd)' = Executor(cmd)
  BY <1>1, ExecutorOf, ExecutorAfter
<1>3. Executors' = Executors
  BY <1>1, <1>2, ExecutorMoves DEF Executors
<1> QED  BY <1>3, Unseen

\* Outside of a command there is no executor.
LEMMA OutsideUnseen ==
  ASSUME worker.pc \notin Inside \cup {"raised"}, worker'.pc \notin Inside \cup {"raised"},
         journal' = journal, up' = up, AllEffects' = AllEffects
  PROVE  JournalStep
<1>1. Executors' = Executors
  BY ExecutorOf, ExecutorAfter DEF Executors, Inside, Running, Applied
<1> QED  BY <1>1, Unseen

\* The admission runs inside the command and has no effect yet.
LEMMA AdmitImplements ==
  ASSUME QueueInv, Admit, AllEffects' = AllEffects
  PROVE  JournalStep
<1>1. worker.pc = "admit" /\ worker.pc \in Inside /\ worker.pc \in Running /\ up' = up
  BY DEF Admit, At, Inside, Running, Outside
<1>2. \/ FailsRetryably
      \/ Fails("not_applied", "final") \/ Fails("unknown", "final")
      \/ (GoTo("commit") \/ GoTo("adopting")) /\ journal' = journal
  BY DEF Admit
<1> QED  BY <1>1, <1>2, FailsImplements, FailsRetryablyImplements, GoesOnUnseen DEF Running

\* The adoption of the source agent runs inside the command too.
LEMMA AdoptedImplements ==
  ASSUME QueueInv, Adopted, AllEffects' = AllEffects
  PROVE  JournalStep
<1>1. worker.pc = "adopting" /\ worker.pc \in Inside /\ worker.pc \in Running /\ up' = up
  BY DEF Adopted, At, Inside, Running, Outside
<1>2. FailsRetryably \/ Fails("unknown", "final") \/ (GoTo("commit") /\ journal' = journal)
  BY DEF Adopted
<1> QED  BY <1>1, <1>2, FailsImplements, FailsRetryablyImplements, GoesOnUnseen DEF Running

\* The registry update follows the effect, whether it succeeds or not.
LEMMA RegisterImplements ==
  ASSUME QueueInv, Register \/ RegisterFails, AllEffects' = AllEffects
  PROVE  JournalStep
<1>1. worker.pc = "register" /\ worker.pc \in Inside /\ worker.pc \in Applied /\ up' = up
  BY DEF Register, RegisterFails, At, Inside, Applied, Outside
<1>2. (\E why : Fails("unknown", why)) \/ (GoTo("finish") /\ journal' = journal)
  BY DEF Register, RegisterFails
<1> QED  BY <1>1, <1>2, FailsImplements, GoesOnUnseen DEF Applied

\* The journal keeps the result of the turn.
LEMMA FinishImplements ==
  ASSUME QueueInv, Finish, AllEffects' = AllEffects
  PROVE  JournalStep
<1> DEFINE c == cmd
<1>1. worker.pc = "finish" /\ worker.pc \in Inside /\ worker.pc \in Applied /\ up' = up
  BY DEF Finish, At, Inside, Applied, Outside
<1>2. c \in Commands
  BY <1>1, InsideFacts, SentClaim
<1>3. cmd' = cmd /\ worker'.pc = "complete"
  BY Types DEF QueueInv, Finish, GoTo, cmd, Passes
<1>4. Executor(c).phase = "applied" /\ Executor(c)' = Free
  BY <1>1, <1>3, ExecutorOf, ExecutorAfter DEF Running, Applied
<1>5. Executors' = [Executors EXCEPT ![c] = Free] /\ Executors[c].phase = "applied"
  <2>1. Executors[c] = Executor(c)
    BY <1>2 DEF Executors
  <2> QED  BY <1>2, <1>3, <1>4, <2>1, ExecutorMoves
<1>6. journal' = [journal EXCEPT ![c].status = "completed"]
  BY DEF Finish
<1> HIDE DEF c
<1>7. Journal!Finish(c)
  BY <1>1, <1>5, <1>6 DEF Journal!Finish, Journal!Idle, Executors, AllEffects, Free
<1> QED  BY <1>2, <1>7 DEF JournalStep, Journal!Next

\* The pass leaves its command behind: a record that will be retried is indexed.
LEMMA RaisedImplements ==
  ASSUME QueueInv, Raised, AllEffects' = AllEffects
  PROVE  JournalStep
<1> DEFINE c == cmd
<1>1. worker.pc = "raised" /\ journal' = journal /\ up' = up /\ worker' = Resting
  BY DEF Raised, At, Rest, Outside
<1>2. c \in Commands
  BY <1>1, SentClaim DEF Sending
<1>3. \A d \in Commands : Executor(d)' = Free
  <2>1. worker'.pc = "idle"
    BY <1>1 DEF Resting
  <2> QED  BY <2>1, ExecutorAfter DEF Running, Applied
<1>4. \A d \in Commands : d # c => Executor(d) = Free
  BY ExecutorOf
<1>5. Executors' = [Executors EXCEPT ![c] = Free]
  BY <1>2, <1>3, <1>4 DEF Executors
<1>6. Executor(c) = Free \/ Executor(c).phase = "indexing"
  BY <1>1, ExecutorOf
<1>7. Executors[c] = Executor(c)
  BY <1>2 DEF Executors
<1>8. CASE Executor(c) = Free
  <2>1. Executors' = Executors
    BY <1>2, <1>3, <1>4, <1>8 DEF Executors
  <2> QED  BY <1>1, <2>1, Unseen
<1> HIDE DEF c
<1>9. CASE Executor(c).phase = "indexing"
  <2>1. Journal!Index(c)
    BY <1>1, <1>5, <1>7, <1>9 DEF Journal!Index, Journal!Idle, Executors, AllEffects, Free
  <2> QED  BY <1>2, <2>1 DEF JournalStep, Journal!Next
<1> QED  BY <1>6, <1>8, <1>9

\* The command is refused, recovered from its turn, or started.
LEMMA ExecuteImplements ==
  ASSUME QueueInv, OutcomesFit, Execute, AllEffects' = AllEffects
  PROVE  JournalStep
<1> DEFINE c == cmd
           b == body
           rec == journal[cmd]
           keep(status) == [status |-> status, body |-> b, outcome |-> "unknown"]
<1>1. worker.pc = "execute" /\ up /\ up' = up
  BY DEF Execute, At, Outside
<1>2. c \in Commands /\ b \in Bodies /\ journal \in [Commands -> JournalRecords] /\ rec \in JournalRecords
  BY <1>1, SentClaim DEF Sending, QueueInv, TypeOK
<1>3. \A d \in Commands : Executor(d) = Free
  BY <1>1, ExecutorOf DEF Running, Applied
<1>4. Executors[c] = Free /\ AllEffects[c][b] = IF Started(c, b) = {} THEN 0 ELSE 1
  BY <1>2, <1>3, EffectsAre DEF Executors, AllEffects
<1>5. ASSUME Raise("final"), journal' = journal
      PROVE  JournalStep
  <2>1. worker'.pc = "raised" /\ worker'.why = "final"
    BY <1>5, Types DEF QueueInv, Raise, Passes
  <2>2. \A d \in Commands : Executor(d)' = Free
    BY <2>1, ExecutorAfter DEF Running, Applied
  <2>3. Executors' = Executors
    BY <1>3, <2>2 DEF Executors
  <2> QED  BY <1>1, <1>5, <2>3, Unseen
<1>6. ASSUME rec.status # "none" => rec.body = b, Started(c, b) # {}, NEW r,
             journal' = [journal EXCEPT ![c] = keep("completed")], CompleteWith(r)
      PROVE  JournalStep
  <2>1. worker'.pc = "complete"
    BY <1>6, Types DEF QueueInv, CompleteWith, Passes
  <2>2. Executors' = Executors
    BY <1>3, <2>1, ExecutorAfter DEF Executors, Running, Applied
  <2>3. CASE rec.status = "completed"
    <3>1. rec.outcome = "unknown" /\ rec.body = b
      BY <1>2, <1>6, <2>3 DEF OutcomesFit
    <3>2. keep("completed") = rec
      BY <1>2, <2>3, <3>1 DEF JournalRecords
    <3>3. journal' = journal
      BY <1>2, <1>6, <3>2
    <3> QED  BY <1>1, <2>2, <3>3, Unseen
  <2>4. CASE rec.status # "completed"
    <3>1. AllEffects[c][b] = 1
      BY <1>4, <1>6
    <3> HIDE DEF c, b
    <3>2. Journal!Recover(c, b)
      BY <1>1, <1>2, <1>4, <1>6, <2>2, <2>4, <3>1
         DEF Journal!Recover, Journal!Unlocked, Journal!Deliverable, Journal!Recovered,
             Executors, AllEffects, Free, c
    <3> QED  BY <1>2, <3>2 DEF JournalStep, Journal!Next
  <2> QED  BY <2>3, <2>4
<1>7. ASSUME rec.status # "none" => rec.body = b, Started(c, b) = {},
             rec.status \notin {"started", "failed"},
             journal' = [journal EXCEPT ![c] = keep("started")], GoTo("admit")
      PROVE  JournalStep
  <2>1. worker'.pc = "admit" /\ cmd' = cmd /\ body' = body
    BY <1>7, Types DEF QueueInv, GoTo, Passes, cmd, body
  <2>2. Executor(c)' = [phase |-> "running", body |-> b]
    BY <2>1, ExecutorAfter DEF Running
  <2>3. Executors' = [Executors EXCEPT ![c] = [phase |-> "running", body |-> b]]
    BY <1>2, <2>1, <2>2, ExecutorMoves
  <2>4. rec.status \in {"none", "retryable"}
    <3>1. rec.status # "completed"
      BY <1>2, <1>7 DEF QueueInv, JournalFits, Started, Known
    <3> QED  BY <1>2, <1>7, <3>1 DEF JournalRecords
  <2>5. AllEffects[c][b] = 0
    BY <1>4, <1>7
  <2> HIDE DEF c, b
  <2>6. Journal!Start(c, b)
    BY <1>1, <1>2, <1>4, <1>7, <2>3, <2>4, <2>5
       DEF Journal!Start, Journal!Unlocked, Journal!Deliverable, Journal!Startable,
           Journal!Recovered, Journal!RetryableRecord, Executors, AllEffects, Free, c
  <2> QED  BY <1>2, <2>6 DEF JournalStep, Journal!Next
<1>8. \/ Raise("final") /\ journal' = journal
      \/ /\ rec.status # "none" => rec.body = b
         /\ Started(c, b) # {} /\ journal' = [journal EXCEPT ![c] = keep("completed")]
         /\ \E r : CompleteWith(r)
      \/ /\ rec.status # "none" => rec.body = b
         /\ Started(c, b) = {} /\ rec.status \notin {"started", "failed"}
         /\ journal' = [journal EXCEPT ![c] = keep("started")] /\ GoTo("admit")
  BY DEF Execute
<1> QED  BY <1>5, <1>6, <1>7, <1>8

\* A commit is the effect of its command, and the only one.
LEMMA CommitImplements ==
  ASSUME QueueInv, Commit
  PROVE  JournalStep
<1> DEFINE c == cmd
           b == body
           turn == Submission(c, b)
<1>1. worker.pc = "commit" /\ worker.pc \in Inside /\ worker.pc \in Running /\ up' = up
  BY DEF Commit, At, Inside, Running, Outside
<1>2. c \in Commands /\ b \in Bodies /\ b.run \in Known
  BY <1>1, InsideFacts, SentClaim
<1>3. runs \in Seq(SavedRuns) /\ Len(runs) \in Nat /\ worker \in Passes
  BY Types DEF QueueInv
<1>4. CASE Fails("unknown", "final") /\ UNCHANGED runs
  <2>1. AllEffects' = AllEffects
    BY <1>4 DEF AllEffects, Effects, Started, Known
  <2> QED  BY <1>1, <1>4, <2>1, FailsImplements
<1>5. ASSUME NEW o \in Results, runs' = Append(runs, NewRun(b.run, b.agent, turn, o)),
             worker' = [worker EXCEPT !.pc = "register", !.next = Len(runs) + 1],
             journal' = journal
      PROVE  JournalStep
  <2> DEFINE new == NewRun(b.run, b.agent, turn, o)
  <2>1. new.command = turn
    BY DEF NewRun
  <2> HIDE DEF new
  <2>2. /\ Known' = Known \cup {Len(runs) + 1} /\ Len(runs) + 1 \notin Known
        /\ runs'[Len(runs) + 1] = new /\ \A r \in Known : runs'[r] = runs[r]
    <3>1. runs' = Append(runs, new)
      BY <1>5 DEF new
    <3> QED  BY <1>3, <3>1, LastOfAppend DEF Known
  <2>3. \A r \in Known : runs[r].command # turn
    <3>1. turn # None /\ turn.id = c
      BY <1>2, NoneAssumption DEF Submission, Submissions
    <3> QED  BY <1>1, <3>1, InsideFacts
  <2>4. \A d \in Commands, e \in Bodies :
          IF d = c /\ e = b THEN Started(d, e) = {} /\ Started(d, e)' = {Len(runs) + 1}
          ELSE Started(d, e)' = Started(d, e)
    <3> SUFFICES ASSUME NEW d \in Commands, NEW e \in Bodies
                 PROVE  IF d = c /\ e = b
                        THEN Started(d, e) = {} /\ Started(d, e)' = {Len(runs) + 1}
                        ELSE Started(d, e)' = Started(d, e)
      OBVIOUS
    <3>1. Submission(d, e) = turn <=> d = c /\ e = b
      BY DEF Submission
    <3> HIDE DEF turn
    <3> QED  BY <2>1, <2>2, <2>3, <3>1 DEF Started
  <2>5. \A d \in Commands, e \in Bodies :
          IF d = c /\ e = b THEN Effects(d, e) = 0 /\ Effects(d, e)' = 1
          ELSE Effects(d, e)' = Effects(d, e)
    <3>1. Cardinality({}) = 0 /\ Cardinality({Len(runs) + 1}) = 1
      BY FS_EmptySet, FS_Singleton
    <3>2. ASSUME NEW d \in Commands, NEW e \in Bodies
          PROVE  IF d = c /\ e = b THEN Effects(d, e) = 0 /\ Effects(d, e)' = 1
                 ELSE Effects(d, e)' = Effects(d, e)
      <4> HIDE DEF c, b
      <4>1. CASE d = c /\ e = b
        <5>1. Started(d, e) = {} /\ Started(d, e)' = {Len(runs) + 1}
          BY <2>4, <4>1
        <5>2. Cardinality(Started(d, e)) = 0 /\ Cardinality(Started(d, e)') = 1
          BY <3>1, <5>1
        <5> QED  BY <4>1, <5>2 DEF Effects
      <4>2. CASE ~(d = c /\ e = b)
        <5>1. Started(d, e)' = Started(d, e)
          BY <2>4, <4>2
        <5> QED  BY <4>2, <5>1 DEF Effects
      <4> QED  BY <4>1, <4>2
    <3> QED  BY <3>2
  <2>6. AllEffects[c][b] = 0 /\ AllEffects' = [AllEffects EXCEPT ![c][b] = 1]
    BY <1>2, <2>5 DEF AllEffects
  <2>7. cmd' = cmd /\ body' = body /\ worker'.pc = "register"
    BY <1>3, <1>5 DEF cmd, body, Passes
  <2>8. Executor(c) = [phase |-> "running", body |-> b] /\ Executor(c)' = [phase |-> "applied", body |-> b]
    BY <1>1, <2>7, ExecutorOf, ExecutorAfter DEF Running, Applied
  <2>9. Executors[c] = [phase |-> "running", body |-> b]
    BY <1>2, <2>8 DEF Executors
  <2>10. Executors' = [Executors EXCEPT ![c] = [phase |-> "applied", body |-> b]]
    BY <1>2, <2>7, <2>8, ExecutorMoves
  <2> HIDE DEF c, b
  <2>11. Executors' = [Executors EXCEPT ![c].phase = "applied"]
    <3>1. [Executors[c] EXCEPT !.phase = "applied"] = [phase |-> "applied", body |-> b]
      BY <2>9
    <3>2. Executors' = [Executors EXCEPT ![c] = [Executors[c] EXCEPT !.phase = "applied"]]
      BY <2>10, <3>1
    <3> QED  BY <3>2
  <2>12. Executors[c].phase = "running" /\ Executors[c].body = b
    BY <2>9
  <2>13. Journal!Apply(c)
    BY <1>1, <1>5, <2>6, <2>11, <2>12 DEF Journal!Apply, Executors, AllEffects
  <2> QED  BY <1>2, <2>13 DEF JournalStep, Journal!Next
<1> QED  BY <1>4, <1>5 DEF Commit

\* A crash forgets the executors and nothing else.
LEMMA CrashImplements ==
  ASSUME QueueInv, Crash, AllEffects' = AllEffects
  PROVE  JournalStep
<1>1. worker' = Resting /\ journal' = journal /\ up /\ up' = FALSE
  BY DEF Crash
<1>2. worker'.pc = "idle"
  BY <1>1 DEF Resting
<1>3. Executors' = [c \in Commands |-> Free]
  BY <1>2, ExecutorAfter DEF Executors, Running, Applied
<1>4. Journal!Crash
  BY <1>1, <1>3 DEF Journal!Crash, Journal!Idle, Executors, AllEffects, Free
<1> QED  BY <1>4 DEF JournalStep, Journal!Next

\* A restart finds no executors, and has no saved request to index.
LEMMA RestartImplements ==
  ASSUME QueueInv, Restart, AllEffects' = AllEffects
  PROVE  JournalStep
<1>1. ~up /\ up' = TRUE /\ worker' = worker /\ journal' = journal
  BY DEF Restart, Others
<1>2. Executors' = Executors
  BY <1>1 DEF Executors, Executor, cmd, body
<1>3. Journal!Restart
  BY <1>1, <1>2 DEF Journal!Restart, Executors, AllEffects
<1> QED  BY <1>3 DEF JournalStep, Journal!Next

\* Nobody but the coordinator touches records and pass, unless the daemon dies.
LEMMA OthersUnseen ==
  ASSUME Client \/ Environment \/ UNCHANGED vars
  PROVE  journal' = journal /\ (~Crash /\ ~Restart => worker' = worker /\ up' = up)
<1>1. CASE Client
  <2>1. ASSUME NEW k, RefusedRequest(k) \/ StopBegin(k) \/ Clear(k) \/ Stop(k)
        PROVE  journal' = journal /\ worker' = worker /\ up' = up
    BY <2>1 DEF RefusedRequest, StopBegin, Clear, Stop
  <2>2. ASSUME NEW k, NEW list, NEW reset, Replace(k, list, reset)
        PROVE  journal' = journal /\ worker' = worker /\ up' = up
    BY <2>2 DEF Replace
  <2>3. ASSUME NEW k, NEW x, EnqueueBegin(k, x) \/ SelectBegin(k, x) \/ UpdateDelay(x)
        PROVE  journal' = journal /\ worker' = worker /\ up' = up
    BY <2>3 DEF EnqueueBegin, SelectBegin, UpdateDelay
  <2>4. ASSUME Enqueue \/ Select  PROVE journal' = journal /\ worker' = worker /\ up' = up
    BY <2>4, Zenon DEF Enqueue, Select
  <2> QED  BY <1>1, <2>1, <2>2, <2>3, <2>4, Zenon DEF Client
<1>2. CASE Environment
  BY <1>2 DEF Environment, Settle, FinalizeEnds, Review, ForeignStart, ForeignRegister, Crash,
              Restart, Others
<1>3. CASE UNCHANGED vars
  BY <1>3 DEF vars
<1> QED  BY <1>1, <1>2, <1>3

\* The coordinator is a client of the journal.
LEMMA CoordinatorImplements ==
  ASSUME QueueInv, OutcomesFit, Coordinator, ~Commit, AllEffects' = AllEffects
  PROVE  JournalStep
<1>1. CASE Execute
  BY <1>1, ExecuteImplements
<1>2. CASE Admit \/ Adopted \/ Register \/ RegisterFails \/ Finish \/ Raised
  BY <1>2, AdmitImplements, AdoptedImplements, RegisterImplements, FinishImplements, RaisedImplements
<1>3. CASE Snapshot \/ Compare \/ Inspect \/ ReadFails \/ StillCounting \/ Wait \/ Countdown
           \/ Claim \/ Pause \/ Complete
  <2>1. journal' = journal /\ up' = up
    BY <1>3 DEF Snapshot, Compare, Inspect, ReadFails, StillCounting, Wait, Countdown, Claim, Pause,
                Complete, Outside
  <2>2. worker.pc \notin Inside \cup {"raised"}
    BY <1>3 DEF Snapshot, Compare, Inspect, ReadFails, StillCounting, Wait, Countdown, Claim, Pause,
                Complete, At, Inside, Resting
  <2>3. worker'.pc \notin Inside \cup {"raised"}
    <3>1. worker \in Passes /\ Resting.pc = "idle"
      BY Types DEF QueueInv, Resting
    <3>2. CASE Snapshot \/ StillCounting \/ Wait \/ Pause \/ Complete
      BY <3>1, <3>2 DEF Snapshot, StillCounting, Wait, Pause, Complete, Rest, Inside, Passes
    <3>3. CASE Compare \/ ReadFails
      BY <3>1, <3>3 DEF Compare, ReadFails, Rest, GoTo, PauseFor, CompleteWith, Inside, Passes
    <3>4. CASE Inspect
      BY <3>1, <3>4 DEF Inspect, Rest, GoTo, PauseFor, Inside, Passes
    <3>5. CASE Countdown \/ Claim
      BY <3>1, <3>5 DEF Countdown, Claim, Rest, Inside, Passes
    <3> QED  BY <1>3, <3>2, <3>3, <3>4, <3>5
  <2> QED  BY <2>1, <2>2, <2>3, OutsideUnseen
<1> QED  BY <1>1, <1>2, <1>3 DEF Coordinator

-----------------------------------------------------------------------------
(* The refinement.                                                          *)

\* One record is written.
LEMMA RecordWritten ==
  ASSUME QueueInv, OutcomesFit, NEW c \in Commands, NEW rec, journal' = [journal EXCEPT ![c] = rec],
         rec.outcome # "unknown" => rec.status = "failed"
  PROVE  OutcomesFit'
<1>1. journal \in [Commands -> JournalRecords]
  BY DEF QueueInv, TypeOK
<1> QED  BY <1>1 DEF OutcomesFit

\* Only a failure says "not applied": the record that a pass is inside of says
\* nothing yet.
LEMMA OutcomesStay ==
  ASSUME QueueInv, OutcomesFit, [Next]_vars
  PROVE  OutcomesFit'
<1>1. ASSUME journal' = journal  PROVE OutcomesFit'
  BY <1>1 DEF OutcomesFit
<1>2. ASSUME worker.pc \in Inside, NEW outcome, NEW why, Fails(outcome, why)  PROVE OutcomesFit'
  <2> DEFINE rec == [status |-> "failed", body |-> body, outcome |-> outcome]
  <2>1. cmd \in Commands /\ journal' = [journal EXCEPT ![cmd] = rec] /\ rec.status = "failed"
    BY <1>2, InsideFacts, SentClaim DEF Fails
  <2> HIDE DEF rec
  <2> QED  BY <2>1, RecordWritten
<1>3. ASSUME worker.pc \in Inside, NEW status \in {"retryable", "completed"},
             journal' = [journal EXCEPT ![cmd].status = status]
      PROVE  OutcomesFit'
  <2> DEFINE rec == [journal[cmd] EXCEPT !.status = status]
  <2>1. cmd \in Commands /\ journal[cmd].status = "started" /\ journal[cmd] \in JournalRecords
    BY <1>3, InsideFacts, SentClaim
  <2>2. rec.outcome = "unknown"
    BY <2>1 DEF OutcomesFit, JournalRecords
  <2>3. journal' = [journal EXCEPT ![cmd] = rec]
    BY <1>3
  <2> HIDE DEF rec
  <2> QED  BY <2>1, <2>2, <2>3, RecordWritten
<1>4. CASE Coordinator
  <2>1. CASE Execute
    <3>1. cmd \in Commands
      BY <2>1, SentClaim DEF Execute, At, Sending
    <3>2. \/ journal' = journal
          \/ \E status : journal' = [journal EXCEPT ![cmd] =
                                       [status |-> status, body |-> body, outcome |-> "unknown"]]
      BY <2>1 DEF Execute
    <3> QED  BY <1>1, <3>1, <3>2, RecordWritten
  <2>2. CASE Admit
    <3>1. worker.pc \in Inside
      BY <2>2 DEF Admit, At, Inside
    <3>2. journal' = journal \/ FailsRetryably \/ \E outcome, why : Fails(outcome, why)
      BY <2>2 DEF Admit
    <3> QED  BY <1>1, <1>2, <1>3, <3>1, <3>2 DEF FailsRetryably
  <2>3. CASE Adopted
    <3>1. worker.pc \in Inside
      BY <2>3 DEF Adopted, At, Inside
    <3>2. journal' = journal \/ FailsRetryably \/ \E outcome, why : Fails(outcome, why)
      BY <2>3 DEF Adopted
    <3> QED  BY <1>1, <1>2, <1>3, <3>1, <3>2 DEF FailsRetryably
  <2>4. CASE Commit \/ RegisterFails
    <3>1. worker.pc \in Inside
      BY <2>4 DEF Commit, RegisterFails, At, Inside
    <3>2. journal' = journal \/ \E outcome, why : Fails(outcome, why)
      BY <2>4 DEF Commit, RegisterFails
    <3> QED  BY <1>1, <1>2, <3>1, <3>2
  <2>5. CASE Finish
    <3>1. worker.pc \in Inside /\ journal' = [journal EXCEPT ![cmd].status = "completed"]
      BY <2>5 DEF Finish, At, Inside
    <3> QED  BY <1>3, <3>1
  <2>6. CASE Snapshot \/ Compare \/ Inspect \/ ReadFails \/ StillCounting \/ Wait \/ Countdown
             \/ Claim \/ Pause \/ Complete \/ Register \/ Raised
    <3>1. journal' = journal
      BY <2>6 DEF Snapshot, Compare, Inspect, ReadFails, StillCounting, Wait, Countdown, Claim,
                  Pause, Complete, Register, Raised
    <3> QED  BY <1>1, <3>1
  <2> QED  BY <1>4, <2>1, <2>2, <2>3, <2>4, <2>5, <2>6 DEF Coordinator
<1>5. CASE Client \/ Environment \/ UNCHANGED vars
  BY <1>1, <1>5, OthersUnseen
<1> QED  BY <1>4, <1>5 DEF Next

\* Every step is a step of the journal, or the journal does not see it.
LEMMA NextImplementsJournal ==
  ASSUME QueueInv, QueueInv', OutcomesFit, [Next]_vars
  PROVE  JournalStep
<1>1. CASE Commit
  BY <1>1, CommitImplements
<1>2. CASE ~Commit
  <2>1. AllEffects' = AllEffects
    BY <1>2, EffectsStay
  <2>2. CASE Coordinator
    BY <1>2, <2>1, <2>2, CoordinatorImplements
  <2>3. CASE Crash \/ Restart
    BY <2>1, <2>3, CrashImplements, RestartImplements
  <2>4. CASE (Client \/ Environment \/ UNCHANGED vars) /\ ~Crash /\ ~Restart
    <3>1. journal' = journal /\ worker' = worker /\ up' = up
      BY <2>4, OthersUnseen
    <3>2. Executors' = Executors
      BY <3>1 DEF Executors, Executor, cmd, body
    <3> QED  BY <2>1, <3>1, <3>2, Unseen
  <2> QED  BY <2>2, <2>3, <2>4 DEF Next
<1> QED  BY <1>1, <1>2

\* The journal's records are empty at the start.
LEMMA InitImplementsJournal ==
  ASSUME Init
  PROVE  Journal!Init /\ OutcomesFit
<1>1. QueueInv
  BY InitFits
<1>2. journal = [c \in Commands |-> NoRecord] /\ worker = Resting /\ up = TRUE
  BY DEF Init
<1>3. \A c \in Commands : Executor(c) = Free
  BY <1>2, ExecutorOf DEF Resting, Running, Applied
<1>4. \A r \in Known : runs[r].command = None
  <2>1. PICK o \in Results :
          runs = <<[from |-> 0, agent |-> 0, conv |-> 1, status |-> "active", outcome |-> o,
                    saving |-> 0, finalized |-> 0, command |-> None]>>
    BY DEF Init
  <2> DEFINE first == [from |-> 0, agent |-> 0, conv |-> 1, status |-> "active", outcome |-> o,
                       saving |-> 0, finalized |-> 0, command |-> None]
  <2>2. first.command = None
    OBVIOUS
  <2> HIDE DEF first
  <2>3. runs = <<first>>
    BY <2>1 DEF first
  <2> QED  BY <2>2, <2>3 DEF Known
<1>5. \A c \in Commands, b \in Bodies : Effects(c, b) = 0
  <2>1. \A c \in Commands, b \in Bodies : Submission(c, b) # None
    BY NoneAssumption DEF Submission, Submissions
  <2>2. \A c \in Commands, b \in Bodies : Started(c, b) = {}
    BY <1>4, <2>1 DEF Started
  <2> QED  BY <1>1, <2>2, EffectsAre
<1>6. OutcomesFit
  BY <1>2 DEF OutcomesFit, NoRecord
<1> QED
  BY <1>2, <1>3, <1>5, <1>6 DEF Journal!Init, Journal!NoRecord, NoRecord, Journal!Idle, Free

\* The turns that the coordinator sends (process_workspace, _execute_claimed,
\* turns.continue) are a behaviour of the command journal, for any messages,
\* runs, requests and crashes: what is proved of the journal holds of the queue.
THEOREM FollowUpsImplementJournal == Spec => ImplementsJournal
<1>1. Init => Journal!Init /\ OutcomesFit
  BY InitImplementsJournal
<1>2. QueueInv /\ OutcomesFit /\ [Next]_vars => OutcomesFit'
  BY OutcomesStay
<1>3. QueueInv /\ QueueInv' /\ OutcomesFit /\ [Next]_vars => [Journal!Next]_Journal!vars
  BY NextImplementsJournal DEF JournalStep, Seen
<1> QED
  BY <1>1, <1>2, <1>3, QueueInvariant, PTL DEF Spec, Journal!Spec, ImplementsJournal
=============================================================================

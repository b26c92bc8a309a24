------------------------------ MODULE AgentProofs ------------------------------
(***************************************************************************)
(* Proofs about the execution of an agent and its questions, for any sets  *)
(* of questions and any number of incidents: the receipt says no more than *)
(* the thread's history, a turn is submitted only when it is due, and an   *)
(* answer reaches the agent at most once and is not shown as received      *)
(* before.                                                                 *)
(*                                                                         *)
(* ExecutionInv is kept by each step of the three processes; QuestionsInv  *)
(* rests on it only in that a new adapter finds no server.  Most steps of  *)
(* the execution give no answer to anybody (NothingGiven); a question's    *)
(* own steps move one answer from one place to another.                    *)
(***************************************************************************)
EXTENDS AgentQuestions, SequenceTheorems, TLAPS

-----------------------------------------------------------------------------
(* The execution: what an adapter's state may become.                       *)

\* An adapter that closes.
LEMMA ClosingTyped ==
  ASSUME adapter \in AdapterState, NEW outcome \in {"success", "failed", "blocked", "stopped"}
  PROVE  Closing(outcome) \in AdapterState
  BY DEF Closing, AdapterState, AdapterSteps

\* An adapter that goes to another step, or starts anew.
LEMMA MovedTyped ==
  ASSUME adapter \in AdapterState
  PROVE  /\ \A pc \in AdapterSteps :
              [adapter EXCEPT !.pc = pc] \in AdapterState /\ [NoAdapter EXCEPT !.pc = pc] \in AdapterState
         /\ \A outcome \in {"none", "success", "failed", "blocked", "stopped"} :
              [NoAdapter EXCEPT !.outcome = outcome] \in AdapterState
         /\ adapter.outcome \in {"none", "success", "failed", "blocked", "stopped"}
         /\ NoAdapter \in AdapterState
  BY DEF NoAdapter, AdapterState, AdapterSteps, Exits

\* An adapter that printed an event.
LEMMA EmittedTyped ==
  ASSUME adapter \in AdapterState, NEW next \in AdapterState
  PROVE  Emitted(next) \in AdapterState
  BY ClosingTyped DEF Emitted

\* A server that goes leaves its turns as they are, but for the one that was under way.
LEMMA InterruptedFacts ==
  ASSUME turns \in Seq(Turn)
  PROVE  /\ Interrupted \in Seq(Turn) /\ Len(Interrupted) = Len(turns)
         /\ DOMAIN Interrupted = DOMAIN turns /\ (Interrupted = <<>> <=> turns = <<>>)
         /\ \A n \in DOMAIN turns :
              /\ Interrupted[n].msg = turns[n].msg
              /\ Interrupted[n].status # "inProgress"
              /\ Interrupted[n].status =
                   IF turns[n].status = "inProgress" THEN "interrupted" ELSE turns[n].status
<1> DEFINE new(n) == [turns[n] EXCEPT !.status = IF @ = "inProgress" THEN "interrupted" ELSE @]
<1>1. Len(turns) \in Nat /\ DOMAIN turns = 1..Len(turns)
  OBVIOUS
<1>2. \A n \in 1..Len(turns) :
        /\ turns[n] \in Turn /\ new(n) \in Turn /\ new(n).msg = turns[n].msg
        /\ new(n).status = IF turns[n].status = "inProgress" THEN "interrupted" ELSE turns[n].status
  <2> TAKE n \in 1..Len(turns)
  <2>1. turns[n] \in Turn
    BY ElementOfSeq
  <2> QED
    BY <2>1 DEF Turn, TurnStatuses
<1>3. Interrupted = [n \in 1..Len(turns) |-> new(n)]
  BY <1>1 DEF Interrupted
<1> HIDE DEF new
<1>4. Interrupted \in [1..Len(turns) -> Turn] /\ DOMAIN Interrupted = 1..Len(turns)
  BY <1>2, <1>3
<1>5. Interrupted \in Seq(Turn)
  BY <1>1, <1>4, SeqDef
<1>6. Len(Interrupted) = Len(turns)
  BY <1>1, <1>4, <1>5, LenProperties
<1> QED BY <1>1, <1>2, <1>3, <1>4, <1>5, <1>6

\* An adapter connects to a server that has read nothing.
LEMMA ConnectStep == ExecutionInv /\ Connect => ExecutionInv'
<1> SUFFICES ASSUME ExecutionInv, Connect PROVE ExecutionInv'
  OBVIOUS
<1> USE DEF ExecutionInv, Connect, Closing, Emitted
<1>1. ExecutionTypeOK'
  <2>1. adapter' \in AdapterState
    BY ClosingTyped, MovedTyped, EmittedTyped DEF ExecutionTypeOK, AdapterSteps
  <2>2. incidents' \in Nat
    BY DEF ExecutionTypeOK, Incident
  <2> QED
    BY <2>1, <2>2 DEF ExecutionTypeOK
<1>2. ReceiptIsTrue'
  BY DEF ReceiptIsTrue, SuccessFits
<1>3. ServerFits'
  BY DEF ServerFits, AdapterFits, ExecutionTypeOK, AdapterState
<1>4. RequestFits'
  BY DEF RequestFits
<1>5. EventsFit'
  BY DEF EventsFit
<1>6. ReceiptFits'
  BY DEF ReceiptFits, RequestFits, AdapterFits, ExecutionTypeOK, AdapterState
<1>7. AdapterFits'
  BY DEF AdapterFits, RequestFits, ServerFits, ExecutionTypeOK, AdapterState
<1>8. SuccessFits'
  BY DEF SuccessFits, AdapterFits, ServerFits, ExecutionTypeOK, AdapterState
<1> QED BY <1>1, <1>2, <1>3, <1>4, <1>5, <1>6, <1>7, <1>8

\* The receipt names the next message: no turn is open, and none is under way.
LEMMA SubmitStep == ExecutionInv /\ Submit => ExecutionInv'
<1> SUFFICES ASSUME ExecutionInv, Submit PROVE ExecutionInv'
  OBVIOUS
<1> USE DEF ExecutionInv, Submit, Emitted, Closing
<1>1. ExecutionTypeOK'
  <2> DEFINE next == [adapter EXCEPT !.pc = "send"]
  <2>1. next \in AdapterState
    BY DEF ExecutionTypeOK, AdapterState, AdapterSteps
  <2>2. adapter' \in AdapterState
    BY <2>1, ClosingTyped DEF ExecutionTypeOK
  <2>3. receipt' \in [stage : Stages, turn : Nat, msg : Nat] /\ messages' \in Nat
    BY DEF ExecutionTypeOK, Stages, RetainedStages
  <2> QED BY <2>2, <2>3 DEF ExecutionTypeOK
<1>2. ReceiptIsTrue'
  BY DEF ReceiptIsTrue, SuccessFits, ServerFits, ExecutionTypeOK, AdapterState
<1>3. ServerFits'
  BY DEF ServerFits, ExecutionTypeOK, AdapterSteps, AdapterState
<1>4. RequestFits'
  BY DEF RequestFits, AdapterFits
<1>5. EventsFit'
  BY DEF EventsFit, AdapterFits
<1>6. ReceiptFits'
  BY DEF ReceiptFits, AdapterFits, ExecutionTypeOK, Kinds, AdapterState
<1>7. AdapterFits'
  BY DEF AdapterFits, ReceiptFits, ExecutionTypeOK, Kinds, AllPassed, AdapterState
<1>8. SuccessFits'
  BY DEF SuccessFits, AdapterFits, ServerFits, ExecutionTypeOK, AdapterState
<1> QED BY <1>1, <1>2, <1>3, <1>4, <1>5, <1>6, <1>7, <1>8

\* The message of the receipt is sent; the adapter waits.
LEMMA SendStep == ExecutionInv /\ Send => ExecutionInv'
<1> SUFFICES ASSUME ExecutionInv, Send PROVE ExecutionInv'
  OBVIOUS
<1> USE DEF ExecutionInv, Send
<1>1. ExecutionTypeOK'
  <2>1. adapter' \in AdapterState
    BY MovedTyped DEF ExecutionTypeOK, AdapterSteps
  <2> QED
    BY <2>1 DEF ExecutionTypeOK, AdapterState, AdapterSteps
<1>2. ReceiptIsTrue'
  BY DEF ReceiptIsTrue, SuccessFits
<1>3. ServerFits'
  BY DEF ServerFits
<1>4. RequestFits'
  BY DEF RequestFits, AdapterFits, AllPassed
<1>5. EventsFit'
  BY DEF EventsFit
<1>6. ReceiptFits'
  BY DEF ReceiptFits
<1>7. AdapterFits'
  BY DEF AdapterFits
<1>8. SuccessFits'
  BY DEF SuccessFits, AdapterFits, ServerFits, ExecutionTypeOK, AdapterState
<1> QED BY <1>1, <1>2, <1>3, <1>4, <1>5, <1>6, <1>7, <1>8

\* The main loop ends, with success only after a completed turn.
LEMMA FinishStep == ExecutionInv /\ Finish => ExecutionInv'
<1> SUFFICES ASSUME ExecutionInv, Finish PROVE ExecutionInv'
  OBVIOUS
<1> USE DEF ExecutionInv, Finish, Closing, Emitted
<1>1. ExecutionTypeOK'
  <2>1. adapter' \in AdapterState
    BY ClosingTyped, MovedTyped, EmittedTyped DEF ExecutionTypeOK, AdapterSteps
  <2> QED
    BY <2>1 DEF ExecutionTypeOK, AdapterState, AdapterSteps
<1>2. ReceiptIsTrue'
  BY DEF ReceiptIsTrue, SuccessFits
<1>3. ServerFits'
  BY DEF ServerFits
<1>4. RequestFits'
  BY DEF RequestFits
<1>5. EventsFit'
  BY DEF EventsFit
<1>6. ReceiptFits'
  BY DEF ReceiptFits
<1>7. AdapterFits'
  BY DEF AdapterFits
<1>8. SuccessFits'
  BY DEF RequestFits, AdapterFits, SuccessFits
<1> QED BY <1>1, <1>2, <1>3, <1>4, <1>5, <1>6, <1>7, <1>8

\* A wait ends; the adapter checks again.
LEMMA EndWaitStep == ExecutionInv /\ EndWait => ExecutionInv'
<1> SUFFICES ASSUME ExecutionInv, EndWait PROVE ExecutionInv'
  OBVIOUS
<1> USE DEF ExecutionInv, EndWait, NoAdapter
<1>1. ExecutionTypeOK'
  <2>1. adapter' \in AdapterState
    BY MovedTyped DEF ExecutionTypeOK, AdapterSteps
  <2> QED
    BY <2>1 DEF ExecutionTypeOK, AdapterState, AdapterSteps
<1>2. ReceiptIsTrue'
  BY DEF ReceiptIsTrue, SuccessFits
<1>3. ServerFits'
  BY DEF ServerFits, AdapterFits, ExecutionTypeOK, AdapterState
<1>4. RequestFits'
  BY DEF RequestFits
<1>5. EventsFit'
  BY DEF EventsFit
<1>6. ReceiptFits'
  BY DEF ReceiptFits, RequestFits, AdapterFits, ExecutionTypeOK, AdapterState
<1>7. AdapterFits'
  BY DEF AdapterFits, RequestFits, ServerFits, ExecutionTypeOK, AdapterState
<1>8. SuccessFits'
  BY DEF SuccessFits, AdapterFits, ServerFits, ExecutionTypeOK, AdapterState
<1> QED BY <1>1, <1>2, <1>3, <1>4, <1>5, <1>6, <1>7, <1>8

\* The server is gone, and with it what it was to read and what it wrote.
LEMMA ReconnectStep == ExecutionInv /\ Reconnect => ExecutionInv'
<1> SUFFICES ASSUME ExecutionInv, Reconnect PROVE ExecutionInv'
  OBVIOUS
<1> USE DEF ExecutionInv, Reconnect, ServerGone, NoAdapter, Emitted, Closing, Connected, NoRequest
<1>0. turns \in Seq(Turn)
  BY DEF ExecutionTypeOK
<1>1. ExecutionTypeOK'
  <2>1. adapter' \in AdapterState
    BY MovedTyped, EmittedTyped DEF ExecutionTypeOK, AdapterSteps
  <2> QED
    BY <2>1, <1>0, InterruptedFacts DEF ExecutionTypeOK, AdapterState, AdapterSteps
<1>2. ReceiptIsTrue'
  BY <1>0, InterruptedFacts DEF ReceiptIsTrue, ReceiptFits
<1>3. ServerFits'
  BY <1>0, InterruptedFacts DEF ServerFits
<1>4. RequestFits'
  BY <1>0, InterruptedFacts DEF RequestFits
<1>5. EventsFit'
  BY <1>0, InterruptedFacts DEF EventsFit
<1>6. ReceiptFits'
  BY <1>0, InterruptedFacts DEF ReceiptFits
<1>7. AdapterFits'
  BY <1>0, InterruptedFacts DEF AdapterFits
<1>8. SuccessFits'
  BY <1>0, InterruptedFacts DEF SuccessFits
<1> QED BY <1>1, <1>2, <1>3, <1>4, <1>5, <1>6, <1>7, <1>8

\* A stop reaches the adapter.
LEMMA CancelledStep == ExecutionInv /\ Cancelled => ExecutionInv'
<1> SUFFICES ASSUME ExecutionInv, Cancelled PROVE ExecutionInv'
  OBVIOUS
<1> USE DEF ExecutionInv, Cancelled, NoAdapter, Closing, Connected
<1>1. ExecutionTypeOK'
  <2>1. adapter' \in AdapterState
    BY ClosingTyped, MovedTyped DEF ExecutionTypeOK, AdapterSteps
  <2>2. receipt' \in [stage : Stages, turn : Nat, msg : Nat]
    BY DEF ExecutionTypeOK, Stages
  <2>3. events' = <<>> \/ events' = events
    OBVIOUS
  <2>4. events \in Seq(Message) /\ <<>> \in Seq(Message)
    BY EmptySeq DEF ExecutionTypeOK
  <2> QED
    BY <2>1, <2>2, <2>3, <2>4 DEF ExecutionTypeOK
<1>2. ReceiptIsTrue'
  BY DEF ReceiptIsTrue, SuccessFits, ServerFits, ExecutionTypeOK, AdapterState
<1>3. ServerFits'
  BY DEF ServerFits, AdapterFits, ExecutionTypeOK, AdapterState
<1>4. RequestFits'
  BY DEF RequestFits, AllPassed, ExecutionTypeOK, AdapterState
<1>5. EventsFit'
  BY DEF EventsFit
<1>6. ReceiptFits'
  BY DEF ReceiptFits, RequestFits, AdapterFits, ExecutionTypeOK, AdapterState
<1>7. AdapterFits'
  BY DEF AdapterFits, RequestFits, ServerFits, ExecutionTypeOK, AdapterState
<1>8. SuccessFits'
  BY DEF SuccessFits, AdapterFits, ServerFits, ExecutionTypeOK, AdapterState
<1> QED BY <1>1, <1>2, <1>3, <1>4, <1>5, <1>6, <1>7, <1>8

\* The adapter closes its server and exits.
LEMMA CloseStep == ExecutionInv /\ Close => ExecutionInv'
<1> SUFFICES ASSUME ExecutionInv, Close PROVE ExecutionInv'
  OBVIOUS
<1> USE DEF ExecutionInv, Close, ServerGone, NoAdapter, NoRequest
<1>0. turns \in Seq(Turn)
  BY DEF ExecutionTypeOK
<1>1. ExecutionTypeOK'
  <2>1. adapter' \in AdapterState
    BY MovedTyped DEF ExecutionTypeOK, AdapterSteps
  <2>2. receipt' \in [stage : Stages, turn : Nat, msg : Nat]
    BY DEF ExecutionTypeOK, Stages
  <2>3. events' \in Seq(Message)
    BY DEF ExecutionTypeOK
  <2> QED
    BY <2>1, <1>0, InterruptedFacts, <2>2, <2>3 DEF ExecutionTypeOK
<1>2. ReceiptIsTrue'
  BY <1>0, InterruptedFacts DEF ReceiptIsTrue, ServerFits, ReceiptFits, SuccessFits
<1>3. ServerFits'
  BY <1>0, InterruptedFacts DEF ServerFits, Passing
<1>4. RequestFits'
  BY <1>0, InterruptedFacts DEF RequestFits
<1>5. EventsFit'
  BY <1>0, InterruptedFacts DEF EventsFit
<1>6. ReceiptFits'
  BY <1>0, InterruptedFacts DEF ReceiptFits
<1>7. AdapterFits'
  BY <1>0, InterruptedFacts DEF AdapterFits
<1>8. SuccessFits'
  BY <1>0, InterruptedFacts DEF SuccessFits, AdapterFits, ServerFits, ExecutionTypeOK, AdapterState
<1> QED BY <1>1, <1>2, <1>3, <1>4, <1>5, <1>6, <1>7, <1>8

\* The adapter dies; a server that had a request may still read it.
LEMMA AdapterDiesStep == ExecutionInv /\ AdapterDies => ExecutionInv'
<1> SUFFICES ASSUME ExecutionInv, AdapterDies PROVE ExecutionInv'
  OBVIOUS
<1> USE DEF ExecutionInv, AdapterDies, Incident, NoAdapter
<1>1. ExecutionTypeOK'
  <2>1. adapter' \in AdapterState
    BY MovedTyped DEF ExecutionTypeOK, AdapterSteps
  <2> QED
    BY <2>1 DEF ExecutionTypeOK, AdapterState, AdapterSteps
<1>2. ReceiptIsTrue'
  BY DEF ReceiptIsTrue, SuccessFits
<1>3. ServerFits'
  BY DEF ServerFits
<1>4. RequestFits'
  BY DEF RequestFits, AllPassed
<1>5. EventsFit'
  BY DEF EventsFit
<1>6. ReceiptFits'
  BY DEF ReceiptFits
<1>7. AdapterFits'
  BY DEF AdapterFits
<1>8. SuccessFits'
  BY DEF SuccessFits
<1> QED BY <1>1, <1>2, <1>3, <1>4, <1>5, <1>6, <1>7, <1>8

\* The server refuses the request.
LEMMA RejectStep == ExecutionInv /\ Reject => ExecutionInv'
<1> SUFFICES ASSUME ExecutionInv, Reject PROVE ExecutionInv'
  OBVIOUS
<1> USE DEF ExecutionInv, Reject, Incident, Writes, Event, NoRequest
<1>1. ExecutionTypeOK'
  <2>1. PICK passing \in BOOLEAN : Writes(<<Event("rejected", 0, passing)>>)
    OBVIOUS
  <2>2. Event("rejected", 0, passing) \in Message
    BY DEF Message
  <2>3. events' \in Seq(Message)
    BY <2>1, <2>2 DEF ExecutionTypeOK
  <2> QED
    BY <2>3 DEF ExecutionTypeOK
<1>2. ReceiptIsTrue'
  BY DEF ReceiptIsTrue, SuccessFits
<1>3. ServerFits'
  BY DEF ServerFits
<1>4. RequestFits'
  BY DEF RequestFits
<1>5. EventsFit'
  BY DEF EventsFit
<1>6. ReceiptFits'
  BY DEF ReceiptFits
<1>7. AdapterFits'
  BY DEF AdapterFits
<1>8. SuccessFits'
  BY DEF SuccessFits
<1> QED BY <1>1, <1>2, <1>3, <1>4, <1>5, <1>6, <1>7, <1>8

\* The server dies; its open turn is interrupted.
LEMMA ServerDiesStep == ExecutionInv /\ ServerDies => ExecutionInv'
<1> SUFFICES ASSUME ExecutionInv, ServerDies PROVE ExecutionInv'
  OBVIOUS
<1> USE DEF ExecutionInv, ServerDies, Incident, NoRequest
<1>0. turns \in Seq(Turn)
  BY DEF ExecutionTypeOK
<1>1. ExecutionTypeOK'
  BY <1>0, InterruptedFacts DEF ExecutionTypeOK, AdapterState, AdapterSteps
<1>2. ReceiptIsTrue'
  BY <1>0, InterruptedFacts DEF ReceiptIsTrue, ReceiptFits
<1>3. ServerFits'
  BY <1>0, InterruptedFacts DEF ServerFits, Passing
<1>4. RequestFits'
  BY <1>0, InterruptedFacts DEF RequestFits
<1>5. EventsFit'
  BY <1>0, InterruptedFacts DEF EventsFit
<1>6. ReceiptFits'
  BY <1>0, InterruptedFacts DEF ReceiptFits
<1>7. AdapterFits'
  BY <1>0, InterruptedFacts DEF AdapterFits, AllPassed, Passing
<1>8. SuccessFits'
  BY <1>0, InterruptedFacts DEF SuccessFits
<1> QED BY <1>1, <1>2, <1>3, <1>4, <1>5, <1>6, <1>7, <1>8

\* A server without an adapter ends.
LEMMA OrphanExitsStep == ExecutionInv /\ OrphanExits => ExecutionInv'
<1> SUFFICES ASSUME ExecutionInv, OrphanExits PROVE ExecutionInv'
  OBVIOUS
<1> USE DEF ExecutionInv, OrphanExits, NoRequest
<1>0. turns \in Seq(Turn)
  BY DEF ExecutionTypeOK
<1>1. ExecutionTypeOK'
  BY <1>0, InterruptedFacts DEF ExecutionTypeOK, AdapterState, AdapterSteps
<1>2. ReceiptIsTrue'
  BY <1>0, InterruptedFacts DEF ReceiptIsTrue, ReceiptFits
<1>3. ServerFits'
  <2>1. CASE server = "up"
    BY <1>0, <2>1, InterruptedFacts DEF ServerFits, Passing, ExecutionTypeOK
  <2>2. CASE server = "exiting"
    BY <2>2 DEF ServerFits
  <2> QED
    BY <2>1, <2>2
<1>4. RequestFits'
  BY <1>0, InterruptedFacts DEF RequestFits, ServerFits, ExecutionTypeOK, AdapterState
<1>5. EventsFit'
  BY <1>0, InterruptedFacts DEF EventsFit
<1>6. ReceiptFits'
  BY <1>0, InterruptedFacts DEF ReceiptFits
<1>7. AdapterFits'
  BY <1>0, InterruptedFacts DEF AdapterFits
<1>8. SuccessFits'
  BY <1>0, InterruptedFacts DEF SuccessFits
<1> QED BY <1>1, <1>2, <1>3, <1>4, <1>5, <1>6, <1>7, <1>8

\* The supervisor starts an adapter when no server is left.
LEMMA StartAdapterStep == ExecutionInv /\ StartAdapter => ExecutionInv'
<1> SUFFICES ASSUME ExecutionInv, StartAdapter PROVE ExecutionInv'
  OBVIOUS
<1> USE DEF ExecutionInv, StartAdapter, Ended, NoAdapter
<1>1. ExecutionTypeOK'
  <2>1. adapter' \in AdapterState
    BY MovedTyped DEF ExecutionTypeOK, AdapterSteps
  <2> QED
    BY <2>1 DEF ExecutionTypeOK, AdapterState, AdapterSteps
<1>2. ReceiptIsTrue'
  BY DEF ReceiptIsTrue, SuccessFits, ServerFits, ExecutionTypeOK, AdapterState
<1>3. ServerFits'
  BY DEF ServerFits, AdapterFits, ExecutionTypeOK, AdapterState
<1>4. RequestFits'
  BY DEF RequestFits, ServerFits, ExecutionTypeOK, AdapterState
<1>5. EventsFit'
  BY DEF EventsFit
<1>6. ReceiptFits'
  BY DEF ReceiptFits
<1>7. AdapterFits'
  BY DEF AdapterFits, RequestFits, ServerFits, ExecutionTypeOK, AdapterState
<1>8. SuccessFits'
  BY DEF SuccessFits, AdapterFits, ServerFits, ExecutionTypeOK, AdapterState
<1> QED BY <1>1, <1>2, <1>3, <1>4, <1>5, <1>6, <1>7, <1>8

\* The supervisor kills adapter and server.
LEMMA StopAgentStep == ExecutionInv /\ StopAgent => ExecutionInv'
<1> SUFFICES ASSUME ExecutionInv, StopAgent PROVE ExecutionInv'
  OBVIOUS
<1> USE DEF ExecutionInv, StopAgent, Ended, ServerGone, NoAdapter, NoRequest
<1>0. turns \in Seq(Turn)
  BY DEF ExecutionTypeOK
<1>1. ExecutionTypeOK'
  <2>1. adapter' \in AdapterState
    BY MovedTyped DEF ExecutionTypeOK, AdapterSteps
  <2> QED
    BY <2>1, <1>0, InterruptedFacts DEF ExecutionTypeOK, AdapterState, AdapterSteps
<1>2. ReceiptIsTrue'
  BY <1>0, InterruptedFacts DEF ReceiptIsTrue, ReceiptFits
<1>3. ServerFits'
  BY <1>0, InterruptedFacts DEF ServerFits, Passing
<1>4. RequestFits'
  BY <1>0, InterruptedFacts DEF RequestFits
<1>5. EventsFit'
  BY <1>0, InterruptedFacts DEF EventsFit
<1>6. ReceiptFits'
  BY <1>0, InterruptedFacts DEF ReceiptFits
<1>7. AdapterFits'
  BY <1>0, InterruptedFacts DEF AdapterFits
<1>8. SuccessFits'
  BY <1>0, InterruptedFacts DEF SuccessFits
<1> QED BY <1>1, <1>2, <1>3, <1>4, <1>5, <1>6, <1>7, <1>8

\* The supervisor reports what the adapter left, or starts it again.
LEMMA AdapterExitedStep == ExecutionInv /\ AdapterExited => ExecutionInv'
<1> SUFFICES ASSUME ExecutionInv, AdapterExited PROVE ExecutionInv'
  OBVIOUS
<1> USE DEF ExecutionInv, AdapterExited, Ended, Retained
<1>1. ExecutionTypeOK'
  BY DEF ExecutionTypeOK, AdapterState, AdapterSteps
<1>2. ReceiptIsTrue'
  BY DEF ReceiptIsTrue, SuccessFits, ServerFits, ExecutionTypeOK, AdapterState
<1>3. ServerFits'
  BY DEF ServerFits
<1>4. RequestFits'
  BY DEF RequestFits, ServerFits, ExecutionTypeOK, AdapterState
<1>5. EventsFit'
  BY DEF EventsFit
<1>6. ReceiptFits'
  BY DEF ReceiptFits
<1>7. AdapterFits'
  BY DEF AdapterFits
<1>8. SuccessFits'
  BY DEF SuccessFits, AdapterFits, ServerFits, ExecutionTypeOK, AdapterState
<1> QED BY <1>1, <1>2, <1>3, <1>4, <1>5, <1>6, <1>7, <1>8

\* The worker dies; nothing else changes.
LEMMA SupervisorDiesStep == ExecutionInv /\ SupervisorDies => ExecutionInv'
<1> SUFFICES ASSUME ExecutionInv, SupervisorDies PROVE ExecutionInv'
  OBVIOUS
<1> USE DEF ExecutionInv, SupervisorDies, Incident
<1>1. ExecutionTypeOK'
  BY DEF ExecutionTypeOK, AdapterState, AdapterSteps
<1>2. ReceiptIsTrue'
  BY DEF ReceiptIsTrue, SuccessFits
<1>3. ServerFits'
  BY DEF ServerFits
<1>4. RequestFits'
  BY DEF RequestFits, AllPassed
<1>5. EventsFit'
  BY DEF EventsFit
<1>6. ReceiptFits'
  BY DEF ReceiptFits
<1>7. AdapterFits'
  BY DEF AdapterFits, AllPassed
<1>8. SuccessFits'
  BY DEF SuccessFits
<1> QED BY <1>1, <1>2, <1>3, <1>4, <1>5, <1>6, <1>7, <1>8

\* A new worker takes the task up when nothing runs.
LEMMA ResumeStep == ExecutionInv /\ Resume => ExecutionInv'
<1> SUFFICES ASSUME ExecutionInv, Resume PROVE ExecutionInv'
  OBVIOUS
<1> USE DEF ExecutionInv, Resume, Resumable, Retained
<1>1. ExecutionTypeOK'
  BY DEF ExecutionTypeOK, AdapterState, AdapterSteps
<1>2. ReceiptIsTrue'
  BY DEF ReceiptIsTrue, SuccessFits
<1>3. ServerFits'
  BY DEF ServerFits
<1>4. RequestFits'
  BY DEF RequestFits, ServerFits, ExecutionTypeOK, AdapterState
<1>5. EventsFit'
  BY DEF EventsFit
<1>6. ReceiptFits'
  BY DEF ReceiptFits
<1>7. AdapterFits'
  BY DEF AdapterFits
<1>8. SuccessFits'
  BY DEF SuccessFits
<1> QED BY <1>1, <1>2, <1>3, <1>4, <1>5, <1>6, <1>7, <1>8

\* The user stops the agent.
LEMMA StopStep == ExecutionInv /\ Stop => ExecutionInv'
<1> SUFFICES ASSUME ExecutionInv, Stop PROVE ExecutionInv'
  OBVIOUS
<1> USE DEF ExecutionInv, Stop
<1>1. ExecutionTypeOK'
  BY DEF ExecutionTypeOK, AdapterState, AdapterSteps
<1>2. ReceiptIsTrue'
  BY DEF ReceiptIsTrue, SuccessFits
<1>3. ServerFits'
  BY DEF ServerFits
<1>4. RequestFits'
  BY DEF RequestFits, AllPassed
<1>5. EventsFit'
  BY DEF EventsFit
<1>6. ReceiptFits'
  BY DEF ReceiptFits
<1>7. AdapterFits'
  BY DEF AdapterFits, AllPassed
<1>8. SuccessFits'
  BY DEF SuccessFits
<1> QED BY <1>1, <1>2, <1>3, <1>4, <1>5, <1>6, <1>7, <1>8
\* The turn that the server knows last is taken for that of the receipt.
LEMMA ReconciledStep ==
  ASSUME ExecutionInv, adapter.pc = "check", events = <<>>, server = "up",
         receipt.stage # "ready", turns # <<>>, Matches(Len(turns)), Reconciled(Len(turns)),
         UNCHANGED <<turns, server, request, events, supervisor, stop, messages, incidents>>
  PROVE  ExecutionInv'
<1> DEFINE latest == Len(turns)
<1> USE DEF ExecutionInv
<1>1. /\ latest \in Nat \ {0} /\ latest \in DOMAIN turns /\ turns[latest] \in Turn
      /\ request = NoRequest /\ adapter.outcome = "none"
  BY DEF ExecutionTypeOK, RequestFits, AdapterFits
<1>2. turns[latest].msg = receipt.msg
  BY <1>1 DEF Matches, ReceiptIsTrue
<1>3. adapter.turn # 0 => adapter.turn = latest /\ receipt.turn = latest /\ receipt.stage # "submitting"
  BY DEF AdapterFits
<1>4. CASE turns[latest].status = "completed"
  <2>1. receipt' = [receipt EXCEPT !.stage = "completed", !.turn = latest]
    BY <1>1, <1>4 DEF Reconciled
  <2>2. adapter' = Emitted([adapter EXCEPT !.pc = "run", !.turn = latest, !.exit = "ok"])
    BY <1>1, <1>4 DEF Reconciled
  <2>3. ExecutionTypeOK'
    <3>1. [adapter EXCEPT !.pc = "run", !.turn = latest, !.exit = "ok"] \in AdapterState
      BY <1>1 DEF ExecutionTypeOK, AdapterState, AdapterSteps, Exits
    <3>2. adapter' \in AdapterState
      BY <2>2, <3>1, EmittedTyped DEF ExecutionTypeOK
    <3> QED
      BY <1>1, <2>1, <3>2 DEF ExecutionTypeOK, Stages, RetainedStages
  <2>4. ReceiptIsTrue' /\ ReceiptFits'
    BY <1>1, <1>2, <1>4, <2>1, <2>2 DEF ReceiptIsTrue, ReceiptFits, SuccessFits, ServerFits,
       ExecutionTypeOK, Emitted, Closing, AdapterState
  <2>5. ServerFits' /\ RequestFits' /\ EventsFit'
    BY <1>1, <2>1, <2>2 DEF ServerFits, RequestFits, EventsFit, ExecutionTypeOK, Emitted, Closing,
       AdapterState, AllPassed
  <2>6. AdapterFits' /\ SuccessFits'
    BY <1>1, <2>1, <2>2 DEF AdapterFits, SuccessFits, ExecutionTypeOK, ServerFits, Emitted, Closing,
       AdapterState
  <2> QED BY <2>3, <2>4, <2>5, <2>6
<1>5. CASE turns[latest].status = "inProgress"
  <2>1. receipt' = IF adapter.turn = 0 THEN [receipt EXCEPT !.stage = "accepted", !.turn = latest]
                   ELSE receipt
    BY <1>1, <1>5 DEF Reconciled
  <2>2. adapter' = Emitted([adapter EXCEPT !.pc = "run", !.turn = latest])
    BY <1>1, <1>5 DEF Reconciled
  <2>3. ExecutionTypeOK'
    <3>1. [adapter EXCEPT !.pc = "run", !.turn = latest] \in AdapterState
      BY <1>1 DEF ExecutionTypeOK, AdapterState, AdapterSteps, Exits
    <3>2. adapter' \in AdapterState
      BY <2>2, <3>1, EmittedTyped DEF ExecutionTypeOK
    <3> QED
      BY <1>1, <2>1, <3>2 DEF ExecutionTypeOK, Stages, RetainedStages
  <2>4. ReceiptIsTrue' /\ ReceiptFits'
    BY <1>1, <1>2, <1>3, <1>5, <2>1, <2>2 DEF ReceiptIsTrue, ReceiptFits, SuccessFits, ServerFits,
       ExecutionTypeOK, Emitted, Closing, AdapterState
  <2>5. ServerFits' /\ RequestFits' /\ EventsFit'
    BY <1>1, <1>3, <2>1, <2>2 DEF ServerFits, RequestFits, EventsFit, ExecutionTypeOK, Emitted, Closing,
       AdapterState, AllPassed
  <2>6. AdapterFits' /\ SuccessFits'
    BY <1>1, <1>3, <2>1, <2>2 DEF AdapterFits, SuccessFits, ExecutionTypeOK, ServerFits, Emitted,
       Closing, AdapterState
  <2> QED BY <2>3, <2>4, <2>5, <2>6
<1>6. CASE turns[latest].status = "failed"
  <2>1. receipt' = [receipt EXCEPT !.stage = "blocked"] /\ adapter' = Closing("blocked")
    BY <1>1, <1>6 DEF Reconciled
  <2>2. ExecutionTypeOK'
    BY <2>1, ClosingTyped DEF ExecutionTypeOK, Stages
  <2>3. ReceiptIsTrue' /\ ReceiptFits'
    BY <1>1, <2>1 DEF ReceiptIsTrue, ReceiptFits, SuccessFits, ServerFits,
       ExecutionTypeOK, Closing, AdapterState
  <2>4. ServerFits' /\ RequestFits' /\ EventsFit'
    BY <1>1, <2>1 DEF ServerFits, RequestFits, EventsFit, ExecutionTypeOK, Closing, AdapterState, AllPassed
  <2>5. AdapterFits' /\ SuccessFits'
    BY <1>1, <1>6, <2>1 DEF AdapterFits, SuccessFits, ReceiptIsTrue, ExecutionTypeOK, ServerFits, Closing,
       AdapterState
  <2> QED BY <2>2, <2>3, <2>4, <2>5
<1>7. CASE turns[latest].status \in {"overloaded", "interrupted"}
  <2>1. receipt' = [receipt EXCEPT !.stage = "continuation_ready", !.turn = latest]
    BY <1>1, <1>7 DEF Reconciled
  <2>2. adapter' = IF adapter.turn = 0 THEN [adapter EXCEPT !.pc = "submit", !.kind = "continue"]
                   ELSE [adapter EXCEPT !.pc = "run"]
    BY <1>1, <1>7 DEF Reconciled
  <2>3. ExecutionTypeOK'
    BY <1>1, <2>1, <2>2
       DEF ExecutionTypeOK, Stages, RetainedStages, AdapterState, AdapterSteps, Kinds
  <2>4. ReceiptIsTrue' /\ ReceiptFits'
    BY <1>1, <1>2, <1>7, <2>1, <2>2 DEF ReceiptIsTrue, ReceiptFits, SuccessFits, ServerFits,
       ExecutionTypeOK, AdapterState
  <2>5. ServerFits' /\ RequestFits' /\ EventsFit'
    BY <1>1, <2>1, <2>2 DEF ServerFits, RequestFits, EventsFit, ExecutionTypeOK, AdapterState, AllPassed
  <2>6. AllPassed
    BY <1>1, <1>7 DEF AllPassed, ServerFits, Passing, ExecutionTypeOK
  <2>7. AdapterFits' /\ SuccessFits'
    BY <1>1, <1>3, <1>7, <2>1, <2>2, <2>6 DEF AdapterFits, SuccessFits, ReceiptFits, ReceiptIsTrue,
       ExecutionTypeOK, ServerFits, AdapterState, AllPassed, Kinds
  <2> QED BY <2>3, <2>4, <2>5, <2>7
<1>8. turns[latest].status \in TurnStatuses
  BY <1>1 DEF Turn
<1> QED BY <1>4, <1>5, <1>6, <1>7, <1>8 DEF TurnStatuses

\* The receipt is reconciled with the history, or the first turn is due.
LEMMA CheckStep == ExecutionInv /\ Check => ExecutionInv'
<1> SUFFICES ASSUME ExecutionInv, Check PROVE ExecutionInv'
  OBVIOUS
<1>1. CASE receipt.stage # "ready" /\ turns # <<>> /\ Matches(Len(turns))
  BY <1>1, ReconciledStep DEF Check
<1>2. CASE receipt.stage = "ready"
  <2>1. adapter' = [adapter EXCEPT !.pc = "submit", !.kind = "prompt"] /\ UNCHANGED receipt
    BY <1>2 DEF Check
  <2>2. ExecutionTypeOK'
    BY <2>1 DEF Check, ExecutionInv, ExecutionTypeOK, AdapterState, AdapterSteps, Kinds
  <2>3. ReceiptIsTrue' /\ ReceiptFits'
    BY <1>2, <2>1 DEF Check, ExecutionInv, ReceiptIsTrue, ReceiptFits, ExecutionTypeOK, AdapterState
  <2>4. ServerFits' /\ RequestFits' /\ EventsFit'
    BY <2>1 DEF Check, ExecutionInv, ServerFits, RequestFits, EventsFit, ExecutionTypeOK, AdapterState,
       AllPassed
  <2>5. AdapterFits' /\ SuccessFits'
    BY <1>2, <2>1 DEF Check, ExecutionInv, AdapterFits, SuccessFits, ReceiptFits, ServerFits,
       ExecutionTypeOK, AdapterState, AllPassed, Kinds
  <2> QED BY <2>2, <2>3, <2>4, <2>5 DEF ExecutionInv
<1>3. CASE receipt.stage # "ready" /\ ~(turns # <<>> /\ Matches(Len(turns)))
  <2>1. adapter' = Emitted([adapter EXCEPT !.pc = "pause"]) /\ UNCHANGED receipt
    BY <1>3 DEF Check
  <2>2. ExecutionTypeOK'
    BY <2>1, MovedTyped, EmittedTyped DEF Check, ExecutionInv, ExecutionTypeOK, AdapterSteps
  <2>3. ReceiptIsTrue' /\ ReceiptFits'
    BY <2>1 DEF Check, ExecutionInv, ReceiptIsTrue, ReceiptFits, ExecutionTypeOK, AdapterState, Emitted,
       Closing
  <2>4. ServerFits' /\ RequestFits' /\ EventsFit'
    BY <2>1 DEF Check, ExecutionInv, ServerFits, RequestFits, EventsFit, ExecutionTypeOK, AdapterState,
       AllPassed, Emitted, Closing
  <2>5. AdapterFits' /\ SuccessFits'
    BY <2>1 DEF Check, ExecutionInv, AdapterFits, SuccessFits, ReceiptFits, ServerFits,
       ExecutionTypeOK, AdapterState, Emitted, Closing
  <2> QED BY <2>2, <2>3, <2>4, <2>5 DEF ExecutionInv
<1> QED BY <1>1, <1>2, <1>3

-----------------------------------------------------------------------------
(* What the server writes, and what becomes of it.                          *)

\* The rest of the messages.
LEMMA TailFacts ==
  ASSUME events \in Seq(Message), events # <<>>
  PROVE  /\ Head(events) = events[1] /\ Head(events) \in Message
         /\ 1 \in DOMAIN events /\ Tail(events) \in Seq(Message)
         /\ \A i \in DOMAIN Tail(events) : i + 1 \in DOMAIN events /\ Tail(events)[i] = events[i + 1]
<1>1. Len(events) \in Nat \ {0} /\ DOMAIN events = 1..Len(events)
  BY EmptySeq
<1>2. /\ Head(events) = events[1] /\ Head(events) \in Message /\ Tail(events) \in Seq(Message)
      /\ Len(Tail(events)) = Len(events) - 1
      /\ \A i \in 1..Len(Tail(events)) : Tail(events)[i] = events[i + 1]
  BY <1>1, HeadTailProperties
<1>3. DOMAIN Tail(events) = 1..(Len(events) - 1)
  BY <1>2
<1> QED BY <1>1, <1>2, <1>3

\* The first of the events says what the others do not contradict.
LEMMA FirstEvent ==
  ASSUME ExecutionTypeOK, EventsFit, events # <<>>, events' = Tail(events), UNCHANGED <<turns>>
  PROVE  /\ Head(events) \in Message
         /\ Head(events).kind # "rejected" => turns # <<>> /\ Head(events).turn = Len(turns)
         /\ Head(events).kind \in {"started", "accepted"} => turns[Len(turns)].msg = receipt.msg
         /\ Head(events).kind = "ended" => turns[Len(turns)].status # "inProgress"
         /\ events' \in Seq(Message) /\ (receipt'.msg = receipt.msg => EventsFit')
<1>1. events \in Seq(Message)
  BY DEF ExecutionTypeOK
<1> QED BY <1>1, TailFacts DEF EventsFit, Message

\* The adapter learns that its turn began.
LEMMA StartedTurnStep ==
  ASSUME ExecutionInv, Connected, events # <<>>, events' = Tail(events), ~stop,
         Head(events).kind \in {"started", "accepted"},
         NEW pc \in {adapter.pc, "run"}, Head(events).kind = "started" => pc = adapter.pc,
         Head(events).kind = "accepted" => adapter.pc = "await",
         StartedTurn(Head(events).turn, pc),
         UNCHANGED <<turns, server, request, supervisor, stop, messages, incidents>>
  PROVE  ExecutionInv'
<1> DEFINE turn == Head(events).turn
<1> USE DEF ExecutionInv
<1>1. /\ turn = Len(turns) /\ turns # <<>> /\ turns[turn].msg = receipt.msg
      /\ events' \in Seq(Message) /\ (receipt'.msg = receipt.msg => EventsFit')
  BY FirstEvent DEF Message
<1>2. turn \in Nat \ {0} /\ turn \in DOMAIN turns
  BY <1>1 DEF ExecutionTypeOK
<1>3. request = NoRequest /\ adapter.outcome = "none" /\ adapter.pc \notin {"submit", "send"}
  BY DEF RequestFits, AdapterFits, Connected
<1>4. pc \in AdapterSteps /\ (pc = adapter.pc \/ pc = "run")
  BY DEF ExecutionTypeOK, AdapterState, AdapterSteps
<1>5. pc \notin {"none", "connect", "submit", "send", "closing"}
  BY <1>3, <1>4 DEF Connected
<1> HIDE DEF turn
<1>6. receipt.stage # "ready"
  BY <1>1 DEF ReceiptFits
<1>7. CASE adapter.turn = 0
  <2> DEFINE next == [adapter EXCEPT !.turn = turn, !.pc = pc]
  <2>1. /\ receipt' = [receipt EXCEPT !.stage = "accepted", !.turn = turn]
        /\ adapter' = Emitted(next)
    BY <1>7 DEF StartedTurn, turn
  <2>2. next \in AdapterState
    BY <1>2, <1>4 DEF ExecutionTypeOK, AdapterState
  <2>3. ExecutionTypeOK'
    BY <1>1, <1>2, <2>1, <2>2, EmittedTyped DEF ExecutionTypeOK, Stages, RetainedStages
  <2>4. EventsFit'
    BY <1>1, <2>1 DEF ExecutionTypeOK
  <2>5. ReceiptIsTrue' /\ ReceiptFits'
    BY <1>1, <1>2, <1>3, <1>5, <2>1 DEF ReceiptIsTrue, ReceiptFits, SuccessFits, ServerFits,
       ExecutionTypeOK, Emitted, Closing, AdapterState, Connected
  <2>6. ServerFits' /\ RequestFits'
    BY <1>1, <1>3, <1>5, <2>1 DEF ServerFits, RequestFits, ExecutionTypeOK, Emitted, Closing,
       AdapterState, AllPassed, Connected
  <2>7. AdapterFits' /\ SuccessFits'
    BY <1>1, <1>2, <1>3, <1>5, <1>7, <2>1 DEF AdapterFits, SuccessFits, ExecutionTypeOK, ServerFits,
       Emitted, Closing, AdapterState, Connected
  <2> QED BY <2>3, <2>4, <2>5, <2>6, <2>7
<1>8. CASE adapter.turn # 0
  <2>1. /\ receipt' = receipt
        /\ adapter' = IF adapter.turn = turn THEN [adapter EXCEPT !.pc = pc] ELSE Closing("blocked")
    BY <1>8 DEF StartedTurn, turn
  <2>2. [adapter EXCEPT !.pc = pc] \in AdapterState
    BY <1>4, MovedTyped DEF ExecutionTypeOK
  <2>3. ExecutionTypeOK'
    BY <1>1, <2>1, <2>2, ClosingTyped DEF ExecutionTypeOK
  <2>4. EventsFit'
    BY <1>1, <2>1
  <2>5. ReceiptIsTrue' /\ ReceiptFits'
    BY <1>3, <1>5, <2>1 DEF ReceiptIsTrue, ReceiptFits, ExecutionTypeOK, Closing, AdapterState
  <2>6. ServerFits' /\ RequestFits'
    BY <1>3, <1>5, <2>1 DEF ServerFits, RequestFits, ExecutionTypeOK, Closing, AdapterState, Connected
  <2>7. AdapterFits' /\ SuccessFits'
    BY <1>3, <1>5, <2>1 DEF AdapterFits, SuccessFits, ExecutionTypeOK, ServerFits, Closing,
       AdapterState, Connected
  <2> QED BY <2>3, <2>4, <2>5, <2>6, <2>7
<1> QED BY <1>7, <1>8

\* The adapter learns that a turn ended.
LEMMA EndedTurnStep ==
  ASSUME ExecutionInv, Connected, events # <<>>, events' = Tail(events), ~stop,
         Head(events).kind = "ended", EndedTurn(Head(events).turn),
         UNCHANGED <<turns, server, request, supervisor, stop, messages, incidents>>
  PROVE  ExecutionInv'
<1> DEFINE turn == Head(events).turn
           status == turns[turn].status
<1> USE DEF ExecutionInv
<1>1. /\ turn = Len(turns) /\ turns # <<>> /\ status # "inProgress"
      /\ events' \in Seq(Message) /\ (receipt'.msg = receipt.msg => EventsFit')
  BY FirstEvent DEF Message
<1>2. turn \in Nat \ {0} /\ turn \in DOMAIN turns /\ status \in TurnStatuses
  <2>1. turn \in 1..Len(turns) /\ turns \in Seq(Turn)
    BY <1>1 DEF ExecutionTypeOK
  <2>2. turns[turn] \in Turn
    BY <2>1, ElementOfSeq
  <2> QED BY <2>1, <2>2 DEF Turn
<1>3. request = NoRequest /\ adapter.outcome = "none" /\ adapter.pc \notin {"submit", "send"}
  BY DEF RequestFits, AdapterFits, Connected
<1>4. CASE adapter.turn # turn
  <2>1. UNCHANGED <<receipt, adapter>>
    BY <1>4 DEF EndedTurn
  <2>2. ExecutionTypeOK' /\ EventsFit'
    BY <1>1, <2>1 DEF ExecutionTypeOK
  <2>3. ReceiptIsTrue' /\ ReceiptFits' /\ ServerFits' /\ RequestFits' /\ AdapterFits' /\ SuccessFits'
    BY <1>3, <2>1 DEF ReceiptIsTrue, ReceiptFits, ServerFits, RequestFits, AdapterFits, SuccessFits,
       AllPassed, Connected
  <2> QED BY <2>2, <2>3
<1>5. CASE adapter.turn = turn
  <2> DEFINE exit == CASE status = "completed" -> "ok"
                       [] status = "overloaded" \/ (status = "interrupted" /\ ~stop) -> "again"
                       [] OTHER -> "failed"
             stage == CASE exit = "ok" -> "completed" [] exit = "again" -> "continuation_ready"
                        [] OTHER -> "blocked"
             next == [adapter EXCEPT !.exit = exit, !.pc = AfterEnd]
  <2>1. /\ receipt' = [receipt EXCEPT !.stage = stage]
        /\ adapter' = IF exit = "again" THEN next ELSE Emitted(next)
    BY <1>5 DEF EndedTurn
  <2>2. /\ exit \in {"ok", "again", "failed"}
        /\ exit = "ok" <=> status = "completed"
        /\ exit = "again" <=> status \in {"overloaded", "interrupted"}
        /\ stage \in {"completed", "continuation_ready", "blocked"}
        /\ stage = "completed" <=> exit = "ok"
        /\ stage = "continuation_ready" <=> exit = "again"
    BY <1>1, <1>2 DEF TurnStatuses
  <2> HIDE DEF exit, stage, status, turn
  <2>3. /\ AfterEnd \in AdapterSteps
        /\ AfterEnd \notin {"none", "connect", "submit", "send", "closing"}
    BY <1>3 DEF AfterEnd, Connected, ExecutionTypeOK, AdapterState, AdapterSteps
  <2>4. next \in AdapterState
    BY <2>2, <2>3 DEF ExecutionTypeOK, AdapterState, Exits
  <2>5. ExecutionTypeOK'
    BY <1>1, <2>1, <2>2, <2>4, EmittedTyped DEF ExecutionTypeOK, Stages, RetainedStages
  <2>6. EventsFit'
    BY <1>1, <2>1 DEF ExecutionTypeOK
  <2>7. receipt.turn = turn /\ receipt'.turn = turn /\ receipt'.msg = receipt.msg /\ receipt'.stage = stage
    BY <1>2, <1>5, <2>1 DEF AdapterFits, ExecutionTypeOK
  <2>8. /\ adapter'.turn = turn /\ adapter'.pc \in {AfterEnd, "closing"}
        /\ adapter'.pc = AfterEnd => adapter'.outcome = "none"
        /\ adapter'.outcome # "success" /\ (adapter'.exit = "ok" => exit = "ok")
    <3>1. adapter.exit = "ok" => exit = "ok"
      BY <1>2, <1>5, <2>2, <2>7 DEF AdapterFits, ReceiptIsTrue, status
    <3>2. /\ next.turn = turn /\ next.pc = AfterEnd /\ next.outcome = "none" /\ next.exit = exit
          /\ Closing("blocked").turn = turn /\ Closing("blocked").pc = "closing"
          /\ Closing("blocked").outcome = "blocked" /\ Closing("blocked").exit = adapter.exit
      BY <1>3, <1>5 DEF Closing, ExecutionTypeOK, AdapterState
    <3> HIDE DEF next
    <3> QED BY <2>1, <2>3, <3>1, <3>2 DEF Emitted
  <2> HIDE DEF next
  <2>9. supervisor.status # "success"
    BY DEF SuccessFits, ServerFits, Connected
  <2>10. ReceiptIsTrue' /\ ReceiptFits'
    BY <1>1, <1>2, <1>3, <2>2, <2>3, <2>7, <2>8, <2>9 DEF ReceiptIsTrue, ReceiptFits, status
  <2>11. ServerFits' /\ RequestFits'
    BY <1>3, <2>3, <2>7, <2>8 DEF ServerFits, RequestFits, Connected, AllPassed
  <2>12. AdapterFits' /\ SuccessFits'
    BY <1>1, <1>2, <1>3, <2>2, <2>3, <2>7, <2>8, <2>9 DEF AdapterFits, SuccessFits
  <2> QED BY <2>5, <2>6, <2>10, <2>11, <2>12
<1> QED BY <1>4, <1>5

\* The adapter learns that its request was refused.
LEMMA RejectedStep ==
  ASSUME ExecutionInv, Connected, events # <<>>, events' = Tail(events),
         adapter.pc = "await", NEW passing \in BOOLEAN, Rejected(passing),
         UNCHANGED <<turns, server, request, supervisor, stop, messages, incidents>>
  PROVE  ExecutionInv'
<1> USE DEF ExecutionInv
<1>1. events' \in Seq(Message) /\ EventsFit'
  BY FirstEvent DEF Rejected
<1>2. request = NoRequest /\ adapter.outcome = "none"
  BY DEF RequestFits, AdapterFits
<1>3. /\ adapter' = IF passing THEN Emitted([adapter EXCEPT !.pc = "pause"]) ELSE Closing("blocked")
      /\ receipt' = receipt
  BY DEF Rejected
<1>4. ExecutionTypeOK'
  BY <1>1, <1>3, MovedTyped, EmittedTyped, ClosingTyped DEF ExecutionTypeOK, AdapterSteps
<1>5. /\ adapter'.turn = adapter.turn /\ adapter'.exit = adapter.exit /\ adapter'.pc \in {"pause", "closing"}
      /\ adapter'.pc = "pause" => adapter'.outcome = "none"
      /\ adapter'.outcome # "success"
  BY <1>2, <1>3 DEF Emitted, Closing, ExecutionTypeOK, AdapterState
<1>6. ReceiptIsTrue' /\ ReceiptFits' /\ ServerFits' /\ RequestFits' /\ AdapterFits' /\ SuccessFits'
  BY <1>2, <1>3, <1>5 DEF ReceiptIsTrue, ReceiptFits, ServerFits, RequestFits, AdapterFits, SuccessFits
<1> QED BY <1>1, <1>4, <1>6

\* One message of the server.
LEMMA HandleStep == ExecutionInv /\ Handle => ExecutionInv'
<1> SUFFICES ASSUME ExecutionInv, Handle PROVE ExecutionInv'
  OBVIOUS
<1>1. Head(events) \in Message
  BY TailFacts DEF Handle, ExecutionInv, ExecutionTypeOK
<1>2. CASE Head(events).kind = "started" /\ StartedTurn(Head(events).turn, adapter.pc)
  BY <1>2, StartedTurnStep DEF Handle
<1>3. CASE Head(events).kind = "accepted" /\ adapter.pc = "await" /\ StartedTurn(Head(events).turn, "run")
  BY <1>3, StartedTurnStep DEF Handle
<1>4. CASE Head(events).kind = "ended" /\ EndedTurn(Head(events).turn)
  BY <1>4, EndedTurnStep DEF Handle
<1>5. CASE adapter.pc = "await" /\ Rejected(Head(events).passing)
  BY <1>1, <1>5, RejectedStep DEF Handle, Message
<1> QED BY <1>2, <1>3, <1>4, <1>5 DEF Handle

\* The history with one more turn.
LEMMA AppendFacts ==
  ASSUME turns \in Seq(Turn), NEW turn \in Turn
  PROVE  /\ Append(turns, turn) \in Seq(Turn) /\ Append(turns, turn) # <<>>
         /\ Len(Append(turns, turn)) = Len(turns) + 1
         /\ DOMAIN Append(turns, turn) = 1..(Len(turns) + 1)
         /\ Append(turns, turn)[Len(turns) + 1] = turn
         /\ \A n \in DOMAIN turns : n \in 1..Len(turns) /\ Append(turns, turn)[n] = turns[n]
<1>1. Len(turns) \in Nat /\ DOMAIN turns = 1..Len(turns)
  OBVIOUS
<1>2. /\ Append(turns, turn) \in Seq(Turn) /\ Len(Append(turns, turn)) = Len(turns) + 1
      /\ \A n \in 1..Len(turns) : Append(turns, turn)[n] = turns[n]
      /\ Append(turns, turn)[Len(turns) + 1] = turn
  BY AppendProperties
<1> QED BY <1>1, <1>2

\* A new turn, of which there is news if somebody reads it.
LEMMA AcceptStep == ExecutionInv /\ Accept => ExecutionInv'
<1> SUFFICES ASSUME ExecutionInv, Accept PROVE ExecutionInv'
  OBVIOUS
<1> DEFINE turn == [msg |-> request.msg, kind |-> request.kind, status |-> "inProgress"]
           last == Len(turns) + 1
<1> USE DEF ExecutionInv
<1>1. /\ adapter.pc \in {"await", "closing", "none"} /\ adapter.turn = 0 /\ events = <<>> /\ AllPassed
      /\ request.msg = receipt.msg /\ request.kind \in Kinds /\ server = "up"
      /\ request' = NoRequest /\ turns' = Append(turns, turn)
      /\ receipt.stage # "ready" /\ messages # 0
  BY DEF Accept, RequestFits, ReceiptFits
<1>2. turns \in Seq(Turn) /\ turn \in Turn /\ Len(turns) \in Nat
  BY <1>1 DEF ExecutionTypeOK, Turn, TurnStatuses
<1>3. /\ turns' \in Seq(Turn) /\ turns' # <<>> /\ Len(turns') = last /\ DOMAIN turns' = 1..last
      /\ turns'[last] = turn /\ \A n \in DOMAIN turns : n \in 1..Len(turns) /\ turns'[n] = turns[n]
  BY <1>1, <1>2, AppendFacts
<1>4. DOMAIN turns = 1..Len(turns)
  BY <1>2
<1>5. events' \in Seq(Message) /\ (adapter.pc = "none" => events' = <<>>) /\ incidents' \in Nat
      /\ \A i \in DOMAIN events' : \/ events'[i].kind \in {"started", "accepted"} /\ events'[i].turn = last
                                   \/ events'[i].kind = "rejected"
  <2> DEFINE started == Event("started", last, FALSE)
             accepted == Event("accepted", last, FALSE)
             rejected == Event("rejected", 0, TRUE)
  <2>1. /\ {started, accepted, rejected} \subseteq Message
        /\ started.kind = "started" /\ started.turn = last
        /\ accepted.kind = "accepted" /\ accepted.turn = last /\ rejected.kind = "rejected"
    BY <1>2 DEF Event, Message
  <2>2. /\ incidents' \in Nat
        /\ \E news \in {<<started, accepted>>, <<accepted, started>>, <<started>>, <<started, rejected>>} :
             Writes(news)
    BY <1>3 DEF Accept, ExecutionTypeOK, Incident
  <2> HIDE DEF started, accepted, rejected
  <2>3. events' \in {<<>>, <<started, accepted>>, <<accepted, started>>, <<started>>, <<started, rejected>>}
        /\ (adapter.pc = "none" => events' = <<>>)
    BY <1>1, <2>1, <2>2 DEF Writes
  <2>4. \A a, b \in Message :
          /\ <<a, b>> \in Seq(Message) /\ DOMAIN <<a, b>> = 1..2 /\ <<a, b>>[1] = a /\ <<a, b>>[2] = b
          /\ <<a>> \in Seq(Message) /\ DOMAIN <<a>> = 1..1 /\ <<a>>[1] = a
    OBVIOUS
  <2>5. events' \in Seq(Message) /\ \A i \in DOMAIN events' : events'[i] \in {started, accepted, rejected}
    <3>1. CASE events' = <<>>
      BY <3>1, EmptySeq
    <3>2. ASSUME NEW a \in {started, accepted, rejected}, NEW b \in {started, accepted, rejected},
                 events' = <<a, b>>
          PROVE  events' \in Seq(Message) /\ \A i \in DOMAIN events' : events'[i] \in {started, accepted, rejected}
      <4>1. a \in Message /\ b \in Message
        BY <2>1
      <4>2. /\ events' \in Seq(Message) /\ DOMAIN events' = 1..2 /\ events'[1] = a /\ events'[2] = b
        BY <2>4, <3>2, <4>1
      <4>3. \A i \in 1..2 : i = 1 \/ i = 2
        OBVIOUS
      <4> QED BY <4>2, <4>3
    <3>3. CASE events' = <<started>>
      <4>1. \A i \in 1..1 : i = 1
        OBVIOUS
      <4> QED BY <2>1, <2>4, <3>3, <4>1
    <3> QED BY <2>3, <3>1, <3>2, <3>3
  <2> QED BY <2>1, <2>2, <2>3, <2>5
<1> HIDE DEF last
<1>6. ExecutionTypeOK'
  BY <1>1, <1>3, <1>5 DEF Accept, ExecutionTypeOK, NoRequest
<1>7. ReceiptIsTrue' /\ ReceiptFits'
  BY <1>1, <1>3 DEF Accept, ReceiptIsTrue, ReceiptFits, SuccessFits
<1>8. ServerFits'
  BY <1>1, <1>2, <1>3, <1>4, <1>5 DEF Accept, ServerFits, AllPassed, last
<1>9. RequestFits' /\ EventsFit'
  BY <1>1, <1>3, <1>5 DEF Accept, RequestFits, EventsFit
<1>10. AdapterFits' /\ SuccessFits'
  BY <1>1 DEF Accept, AdapterFits, SuccessFits
<1> QED BY <1>6, <1>7, <1>8, <1>9, <1>10

\* The last turn ends, and the server says so.
LEMMA EndTurnStep == ExecutionInv /\ EndTurn => ExecutionInv'
<1> SUFFICES ASSUME ExecutionInv, EndTurn PROVE ExecutionInv'
  OBVIOUS
<1> DEFINE last == Len(turns)
           ended == Event("ended", last, FALSE)
<1> USE DEF ExecutionInv
<1>1. PICK status \in TurnStatuses \ {"inProgress"} : turns' = [turns EXCEPT ![Len(turns)].status = status]
  BY DEF EndTurn
<1>2. /\ turns \in Seq(Turn) /\ last \in Nat \ {0} /\ DOMAIN turns = 1..last /\ last \in 1..last
      /\ turns[last] \in Turn /\ turns[last].status = "inProgress" /\ server = "up"
  <2>1. turns \in Seq(Turn) /\ turns # <<>> /\ turns[last].status = "inProgress" /\ server = "up"
    BY DEF EndTurn, Last, ExecutionTypeOK
  <2>2. last \in Nat \ {0} /\ DOMAIN turns = 1..last
    BY <2>1, EmptySeq
  <2> QED BY <2>1, <2>2, ElementOfSeq
<1> HIDE DEF last
<1>3. [turns[last] EXCEPT !.status = status] \in Turn
      /\ [turns[last] EXCEPT !.status = status].msg = turns[last].msg
      /\ [turns[last] EXCEPT !.status = status].status = status
  BY <1>2 DEF Turn
<1>4. turns' = [turns EXCEPT ![last] = [turns[last] EXCEPT !.status = status]]
  BY <1>1 DEF last
<1>5. /\ turns' \in Seq(Turn) /\ Len(turns') = last /\ DOMAIN turns' = 1..last /\ turns' # <<>>
      /\ turns'[last].status = status /\ turns'[last].msg = turns[last].msg
      /\ \A n \in 1..last : n # last => turns'[n] = turns[n]
  <2>1. /\ turns' \in Seq(Turn) /\ Len(turns') = last
        /\ \A n \in 1..last : turns'[n] = IF n = last THEN [turns[last] EXCEPT !.status = status] ELSE turns[n]
    BY <1>2, <1>3, <1>4, ExceptSeq DEF last
  <2>2. Len(turns') = last => DOMAIN turns' = 1..last /\ turns' # <<>>
    BY <1>2, <2>1, EmptySeq, LenProperties
  <2>3. /\ turns'[last] = [turns[last] EXCEPT !.status = status]
        /\ \A n \in 1..last : n # last => turns'[n] = turns[n]
    BY <1>2, <2>1
  <2> QED BY <1>3, <2>1, <2>2, <2>3
<1>6. /\ ~AllPassed /\ request = NoRequest /\ adapter.pc \notin {"submit", "send"}
      /\ supervisor.status = "success" \/ adapter.outcome = "success" => receipt.turn # last
  BY <1>2 DEF AllPassed, Passing, RequestFits, AdapterFits, SuccessFits, ReceiptIsTrue
<1>7. /\ events' \in Seq(Message) /\ (adapter.pc = "none" => events' = <<>>) /\ incidents' \in Nat
      /\ \A i \in DOMAIN events' : (i \in DOMAIN events /\ events'[i] = events[i]) \/ events'[i] = ended
  <2>1. ended \in Message /\ events \in Seq(Message)
    BY <1>2 DEF Event, Message, ExecutionTypeOK
  <2>2. events' = (IF adapter.pc = "none" THEN <<>> ELSE events \o <<ended>>) /\ incidents' \in Nat
    BY DEF EndTurn, Writes, ExecutionTypeOK, Incident, last
  <2> HIDE DEF ended
  <2>3. <<ended>> \in Seq(Message) /\ Len(<<ended>>) = 1 /\ <<ended>>[1] = ended
    BY <2>1
  <2>4. /\ events \o <<ended>> \in Seq(Message) /\ Len(events \o <<ended>>) = Len(events) + 1
        /\ \A i \in 1..(Len(events) + 1) :
             (events \o <<ended>>)[i] = IF i <= Len(events) THEN events[i] ELSE <<ended>>[i - Len(events)]
    BY <2>1, <2>3, ConcatProperties
  <2>5. Len(events) \in Nat /\ DOMAIN events = 1..Len(events)
        /\ DOMAIN (events \o <<ended>>) = 1..(Len(events) + 1)
    BY <2>1, <2>4
  <2>6. \A i \in 1..(Len(events) + 1) : i \in 1..Len(events) \/ i - Len(events) = 1
    BY <2>5
  <2> QED BY <2>2, <2>3, <2>4, <2>5, <2>6, EmptySeq
<1>8. ended.kind = "ended" /\ ended.turn = last
  BY DEF Event
<1> HIDE DEF ended
<1>9. ExecutionTypeOK'
  BY <1>5, <1>7 DEF EndTurn, ExecutionTypeOK
<1>10. /\ receipt.turn = last => receipt.stage \notin {"completed", "continuation_ready"}
       /\ receipt.turn # 0 => receipt.turn \in 1..last
  BY <1>2 DEF ReceiptIsTrue
<1>11. ReceiptIsTrue'
  BY <1>2, <1>5, <1>6, <1>10 DEF EndTurn, ReceiptIsTrue, ReceiptFits, SuccessFits, last
<1>12. ReceiptFits' /\ ServerFits'
  BY <1>2, <1>5, <1>6, <1>7 DEF EndTurn, ReceiptFits, ServerFits, last
<1>13. RequestFits' /\ EventsFit'
  BY <1>2, <1>5, <1>6, <1>7, <1>8 DEF EndTurn, RequestFits, EventsFit, last
<1>14. AdapterFits' /\ SuccessFits'
  BY <1>2, <1>5, <1>6 DEF EndTurn, AdapterFits, SuccessFits, last
<1> QED BY <1>9, <1>11, <1>12, <1>13, <1>14

-----------------------------------------------------------------------------
(* Every step.                                                              *)

\* Before the first step.
LEMMA ExecutionStarts == ExecutionInit => ExecutionInv
<1> SUFFICES ASSUME ExecutionInit PROVE ExecutionInv
  OBVIOUS
<1> USE DEF ExecutionInit, NoRequest, NoAdapter
<1>1. ExecutionTypeOK
  BY EmptySeq DEF ExecutionTypeOK, Stages, AdapterState, AdapterSteps, Exits
<1>2. ReceiptIsTrue /\ ServerFits /\ RequestFits /\ EventsFit /\ ReceiptFits /\ AdapterFits /\ SuccessFits
  BY DEF ReceiptIsTrue, ServerFits, RequestFits, EventsFit, ReceiptFits, AdapterFits, SuccessFits
<1> QED BY <1>1, <1>2 DEF ExecutionInv

\* Only the count of incidents moves.
LEMMA ExecutionUnchanged ==
  ASSUME ExecutionInv, incidents' \in Nat,
         UNCHANGED <<receipt, turns, server, request, events, adapter, supervisor, stop, messages>>
  PROVE  ExecutionInv'
  BY DEF ExecutionInv, ExecutionTypeOK, ReceiptIsTrue, ServerFits, RequestFits, EventsFit, ReceiptFits,
     AdapterFits, SuccessFits, AllPassed

\* Every step of the execution.
LEMMA ExecutionKept == ExecutionInv /\ [ExecutionNext]_executionVars => ExecutionInv'
<1> SUFFICES ASSUME ExecutionInv, [ExecutionNext]_executionVars PROVE ExecutionInv'
  OBVIOUS
<1>1. CASE Adapter \/ AdapterDies
  BY <1>1, ConnectStep, CheckStep, SubmitStep, SendStep, HandleStep, FinishStep, EndWaitStep,
     ReconnectStep, CancelledStep, CloseStep, AdapterDiesStep DEF Adapter
<1>2. CASE Server \/ ServerDies
  BY <1>2, AcceptStep, RejectStep, EndTurnStep, OrphanExitsStep, ServerDiesStep DEF Server
<1>3. CASE Supervisor \/ SupervisorDies \/ Resume \/ Stop
  BY <1>3, StartAdapterStep, StopAgentStep, AdapterExitedStep, SupervisorDiesStep, ResumeStep, StopStep
     DEF Supervisor
<1>4. CASE UNCHANGED executionVars
  BY <1>4, ExecutionUnchanged DEF executionVars, ExecutionInv, ExecutionTypeOK
<1> QED BY <1>1, <1>2, <1>3, <1>4 DEF ExecutionNext

-----------------------------------------------------------------------------
(* Questions.                                                               *)

\* The history of the thread only grows, and a turn that ended stays so.
HistoryKept ==
  \A n \in DOMAIN turns :
    n \in DOMAIN turns' /\ (turns[n].status # "inProgress" => turns'[n].status # "inProgress")

\* No step of the execution takes a turn away or opens one again.
LEMMA HistoryGrows == ExecutionInv /\ [ExecutionNext]_executionVars => HistoryKept
<1> SUFFICES ASSUME ExecutionInv, [ExecutionNext]_executionVars PROVE HistoryKept
  OBVIOUS
<1>1. turns \in Seq(Turn)
  BY DEF ExecutionInv, ExecutionTypeOK
<1>2. CASE UNCHANGED turns
  BY <1>2 DEF HistoryKept
<1>3. CASE turns' = Interrupted
  BY <1>1, <1>3, InterruptedFacts DEF HistoryKept
<1>4. CASE Accept
  <2>1. [msg |-> request.msg, kind |-> request.kind, status |-> "inProgress"] \in Turn
    BY <1>4 DEF Accept, ExecutionInv, ExecutionTypeOK, RequestFits, Turn, TurnStatuses
  <2> QED BY <1>1, <1>4, <2>1, AppendFacts DEF Accept, HistoryKept
<1>5. CASE EndTurn
  <2>1. PICK status \in TurnStatuses \ {"inProgress"} : turns' = [turns EXCEPT ![Len(turns)].status = status]
    BY <1>5 DEF EndTurn
  <2>2. \A n \in DOMAIN turns : turns[n] \in Turn
    BY <1>1, ElementOfSeq
  <2>3. \A n \in DOMAIN turns : turns'[n].status \in {turns[n].status, status}
    BY <2>1, <2>2 DEF Turn
  <2> QED BY <2>1, <2>3 DEF HistoryKept
<1>6. UNCHANGED turns \/ turns' = Interrupted \/ Accept \/ EndTurn
  <2>1. CASE Adapter \/ AdapterDies
    BY <2>1 DEF Adapter, Connect, Check, Submit, Send, Handle, Finish, EndWait, Reconnect, Cancelled,
       Close, AdapterDies, ServerGone
  <2>2. CASE Server \/ ServerDies
    BY <2>2 DEF Server, Reject, OrphanExits, ServerDies
  <2>3. CASE Supervisor \/ SupervisorDies \/ Resume \/ Stop
    BY <2>3 DEF Supervisor, StartAdapter, StopAgent, AdapterExited, SupervisorDies, Resume, Stop, ServerGone
  <2>4. CASE UNCHANGED executionVars
    BY <2>4 DEF executionVars
  <2> QED BY <2>1, <2>2, <2>3, <2>4 DEF ExecutionNext
<1> QED BY <1>2, <1>3, <1>4, <1>5, <1>6

\* A row that changed was an open request, and is now invalid; an answer that was on its
\* way is then unknown.
Invalid(q) ==
  /\ q \in Requests /\ rows[q].state = "open" /\ rows'[q].state = "invalidated"
  /\ rows'[q].turn = rows[q].turn /\ rows'[q].owner = rows[q].owner
  /\ \/ rows'[q].delivery = rows[q].delivery
     \/ rows[q].delivery \in {"sending", "sent"} /\ rows'[q].delivery = "unknown"

\* Steps that give nothing to anybody: what was on its way may be lost, and requests end.
LEMMA NothingGiven ==
  ASSUME QuestionsInv, HistoryKept, ConnectionFits',
         rows' \in [Questions -> Row], \A q \in Questions : rows'[q] = rows[q] \/ Invalid(q),
         owner' \in {0, owner}, owners' = owners, got' = got,
         handed' \subseteq handed, wire' \subseteq wire, replies' \subseteq replies, idle' \in {idle, NotIdle}
  PROVE  QuestionsInv'
<1> USE DEF QuestionsInv
<1>1. QuestionsTypeOK'
  BY DEF QuestionsTypeOK, NotIdle
<1>2. AnswersReachOnce'
  BY DEF AnswersReachOnce, QuestionsTypeOK, Invalid
<1>3. \A r \in replies : r.question \in Questions
  BY DEF QuestionsTypeOK, Questions
<1>4. RowsFit'
  BY DEF RowsFit, Invalid, HistoryKept
<1>5. ReceivedIsTrue'
  BY DEF ReceivedIsTrue, RowsFit, Invalid, HistoryKept
<1>6. OnePlace'
  <2>1. \A q \in Questions :
          /\ rows'[q].delivery \in {"none", "queued"} <=> rows[q].delivery \in {"none", "queued"}
          /\ Replied(q)' => Replied(q)
          /\ WithIdle(q)' => WithIdle(q) /\ idle' = idle
    BY DEF Invalid, Replied, WithIdle, NotIdle
  <2> QED BY <2>1 DEF OnePlace
<1>7. RepliesFit'
  <2> SUFFICES ASSUME NEW r \in replies'
               PROVE  /\ r.says = "accepted" => got'[r.question] = 1
                      /\ r.says = "rejected" => got'[r.question] = 0
                      /\ r.says = "resolved" =>
                           got'[r.question] = 1 \/ turns'[rows'[r.question].turn].status # "inProgress"
    BY DEF RepliesFit
  <2>1. rows[r.question].turn \in DOMAIN turns /\ rows'[r.question].turn = rows[r.question].turn
    BY <1>3 DEF RowsFit, Invalid
  <2> QED BY <2>1 DEF RepliesFit, HistoryKept
<1> QED BY <1>1, <1>2, <1>4, <1>5, <1>6, <1>7

\* What happens to the rows of some owners.
LEMMA InvalidatedFacts ==
  ASSUME QuestionsTypeOK, NEW of
  PROVE  /\ Invalidated(of) \in [Questions -> Row]
         /\ \A q \in Questions :
              \/ Invalidated(of)[q] = rows[q]
              \/ /\ q \in Requests /\ rows[q].state = "open"
                 /\ Invalidated(of)[q].state = "invalidated"
                 /\ Invalidated(of)[q].turn = rows[q].turn /\ Invalidated(of)[q].owner = rows[q].owner
                 /\ \/ Invalidated(of)[q].delivery = rows[q].delivery
                    \/ rows[q].delivery \in {"sending", "sent"} /\ Invalidated(of)[q].delivery = "unknown"
  BY DEF Invalidated, Open, QuestionsTypeOK, Row

\* An adapter that lives keeps its connection, and one that comes finds a server that is
\* gone.
LEMMA ConnectionKept ==
  ASSUME AgentInv, UNCHANGED <<rows, owner, handed, wire>>,
         server' # "up" => server' = server, adapter'.pc # "none" => adapter.pc # "none" \/ server # "up"
  PROVE  ConnectionFits'
  BY DEF AgentInv, QuestionsInv, ConnectionFits

\* Steps that leave questions alone.
LEMMA QuestionsUnchanged ==
  ASSUME AgentInv, HistoryKept, UNCHANGED questionVars, ConnectionFits'
  PROVE  QuestionsInv'
<1>1. rows' \in [Questions -> Row]
  BY DEF AgentInv, QuestionsInv, QuestionsTypeOK, questionVars
<1> QED BY <1>1, NothingGiven DEF AgentInv, questionVars, deliveryVars

\* Steps of the adapter: what it had in hand goes with its connection.
LEMMA AdapterStepKeeps == AgentInv /\ HistoryKept /\ AdapterStep => QuestionsInv'
<1> SUFFICES ASSUME AgentInv, HistoryKept, AdapterStep PROVE QuestionsInv'
  OBVIOUS
<1>0. QuestionsTypeOK /\ ConnectionFits
  BY DEF AgentInv, QuestionsInv
<1>1. CASE (Connect \/ Check \/ Submit \/ Send \/ Finish \/ EndWait) /\ UNCHANGED questionVars
  <2>1. (server' # "up" => server' = server) /\ adapter.pc # "none"
    BY <1>1 DEF Connect, Check, Submit, Send, Finish, EndWait
  <2>2. ConnectionFits'
    BY <1>1, <2>1, ConnectionKept DEF questionVars, deliveryVars
  <2> QED BY <1>1, <2>2, QuestionsUnchanged
<1>2. CASE Handle /\ EndsQuestions
  <2>1. server' = server /\ adapter.pc # "none"
    BY <1>2 DEF Handle, Connected
  <2>2. rows' \in [Questions -> Row] /\ \A q \in Questions : rows'[q] = rows[q] \/ Invalid(q)
    BY <1>0, <1>2 DEF EndsQuestions, Open, QuestionsTypeOK, Row, Invalid
  <2>3. ConnectionFits'
    BY <1>0, <1>2, <2>1, <2>2 DEF EndsQuestions, deliveryVars, ConnectionFits, Invalid, QuestionsTypeOK
  <2> QED BY <1>2, <2>2, <2>3, NothingGiven DEF AgentInv, EndsQuestions, deliveryVars
<1>3. ASSUME OwnerCloses, UNCHANGED <<owners, idle, got>>, wire' \subseteq wire, replies' \subseteq replies,
             server' # "up" => wire' = {}, adapter'.pc = "none" \/ wire' = {}
      PROVE  QuestionsInv'
  <2>1. rows' \in [Questions -> Row] /\ \A q \in Questions : rows'[q] = rows[q] \/ Invalid(q)
    BY <1>0, <1>3, InvalidatedFacts DEF OwnerCloses, QuestionsTypeOK, Invalid
  <2>2. ConnectionFits'
    BY <1>3 DEF OwnerCloses, ConnectionFits
  <2> QED BY <1>3, <2>1, <2>2, NothingGiven DEF AgentInv, OwnerCloses
<1>4. CASE (Reconnect \/ Close) /\ OwnerCloses /\ ServerForgets /\ UNCHANGED <<owners, idle, archived, got>>
  BY <1>3, <1>4 DEF ServerForgets
<1>5. CASE Cancelled /\ UNCHANGED <<owners, wire, replies, idle, archived, got>>
           /\ IF adapter'.pc = "none" THEN OwnerCloses
              ELSE UNCHANGED <<rows, owner, handed, written, steering, deferred>>
  <2>1. server' = server /\ adapter.pc # "none"
    BY <1>5 DEF Cancelled, Connected
  <2>2. CASE adapter'.pc = "none"
    BY <1>0, <1>3, <1>5, <2>1, <2>2 DEF ConnectionFits
  <2>3. CASE adapter'.pc # "none"
    <3>1. ConnectionFits' /\ rows' = rows /\ owner' = owner /\ handed' = handed
      BY <1>5, <2>1, <2>3, ConnectionKept
    <3> QED BY <1>0, <1>5, <3>1, NothingGiven DEF AgentInv, QuestionsTypeOK
  <2> QED BY <2>2, <2>3
<1> QED BY <1>1, <1>2, <1>4, <1>5 DEF AdapterStep

\* Steps of server, supervisor and user, and faults, that give no answer.
LEMMA OthersKeep ==
  ASSUME AgentInv, HistoryKept,
         \/ (Accept \/ Reject \/ StartAdapter \/ AdapterExited \/ SupervisorDies \/ Resume \/ Stop)
              /\ UNCHANGED questionVars
         \/ Faults
         \/ StopAgent /\ OwnerDies /\ ServerForgets /\ UNCHANGED <<owners, idle, archived, got>>
         \/ OrphanExits /\ ServerForgets
              /\ UNCHANGED <<rows, owner, owners, handed, written, steering, deferred, idle, archived, got>>
         \/ IdleDies
  PROVE  QuestionsInv'
<1>0. QuestionsTypeOK /\ ConnectionFits /\ ServerFits
  BY DEF AgentInv, QuestionsInv, ExecutionInv
<1>1. CASE (Accept \/ Reject \/ StartAdapter \/ AdapterExited \/ SupervisorDies \/ Resume \/ Stop)
             /\ UNCHANGED questionVars
  <2>1. server' = server /\ (adapter'.pc # "none" => adapter.pc # "none" \/ server # "up")
    BY <1>0, <1>1 DEF Accept, Reject, StartAdapter, AdapterExited, SupervisorDies, Resume, Stop, ServerFits
  <2>2. ConnectionFits'
    BY <1>1, <2>1, ConnectionKept DEF questionVars, deliveryVars
  <2> QED BY <1>1, <2>2, QuestionsUnchanged
<1>2. ASSUME UNCHANGED <<rows, owners, got>>, owner' \in {0, owner}, handed' \subseteq handed,
             wire' \subseteq wire, replies' \subseteq replies, idle' \in {idle, NotIdle}, ConnectionFits'
      PROVE  QuestionsInv'
  <2>1. rows' \in [Questions -> Row] /\ \A q \in Questions : rows'[q] = rows[q]
    BY <1>0, <1>2 DEF QuestionsTypeOK
  <2> QED BY <1>2, <2>1, NothingGiven DEF AgentInv
<1>3. CASE AdapterDies /\ OwnerDies /\ replies' = {} /\ UNCHANGED <<owners, wire, idle, archived, got>>
  <2>1. ConnectionFits'
    BY <1>0, <1>3 DEF AdapterDies, OwnerDies, ConnectionFits, NoAdapter
  <2> QED BY <1>2, <1>3, <2>1 DEF OwnerDies
<1>4. CASE ServerDies /\ wire' = {}
             /\ UNCHANGED <<rows, owner, owners, handed, written, replies, steering, deferred, idle,
                            archived, got>>
  <2>1. ConnectionFits'
    BY <1>0, <1>4 DEF ServerDies, ConnectionFits
  <2> QED BY <1>2, <1>4, <2>1
<1>5. CASE StopAgent /\ OwnerDies /\ ServerForgets /\ UNCHANGED <<owners, idle, archived, got>>
  <2>1. ConnectionFits'
    BY <1>0, <1>5 DEF OwnerDies, ServerForgets, ConnectionFits
  <2> QED BY <1>2, <1>5, <2>1 DEF OwnerDies, ServerForgets
<1>6. CASE OrphanExits /\ ServerForgets
             /\ UNCHANGED <<rows, owner, owners, handed, written, steering, deferred, idle, archived, got>>
  <2>1. ConnectionFits'
    BY <1>0, <1>6 DEF ServerForgets, ConnectionFits
  <2> QED BY <1>2, <1>6, <2>1 DEF ServerForgets
<1>7. CASE IdleDies
  <2>1. ConnectionFits'
    BY <1>0, <1>7 DEF IdleDies, deliveryVars, ConnectionFits
  <2> QED BY <1>2, <1>7, <2>1 DEF IdleDies, deliveryVars
<1> QED BY <1>1, <1>3, <1>4, <1>5, <1>6, <1>7 DEF Faults

\* A step that touches one row, whose answer it may move, and no history.
LEMMA AnswerQuestionStep == ASSUME AgentInv, NEW q \in Questions, AnswerQuestion(q) PROVE QuestionsInv'
<1> USE DEF AgentInv, QuestionsInv
<1>1. /\ rows' \in [Questions -> Row] /\ rows'[q] = [rows[q] EXCEPT !.delivery = "queued"]
      /\ \A p \in Questions : p # q => rows'[p] = rows[p]
      /\ rows[q] \in Row /\ rows[q].state = "open" /\ rows[q].delivery = "none"
  BY DEF AnswerQuestion, QuestionsTypeOK, Row, Open
<1>2. UNCHANGED <<turns, server, adapter, owner, owners, handed, wire, replies, idle, got>>
  BY DEF AnswerQuestion, deliveryVars, executionVars
<1>3. \A p \in Questions : rows'[p].state = rows[p].state /\ rows'[p].turn = rows[p].turn
                           /\ rows'[p].owner = rows[p].owner
  BY <1>1 DEF Row
<1>4. \A p \in Questions :
        rows'[p].delivery \in {"none", "queued"} <=> rows[p].delivery \in {"none", "queued"}
  BY <1>1 DEF Row
<1>5. \A p \in Questions : Replied(p)' = Replied(p) /\ WithIdle(p)' = WithIdle(p)
  BY <1>2 DEF Replied, WithIdle
<1>6. \A r \in replies : r.question \in Questions
  BY DEF QuestionsTypeOK, Questions
<1>7. QuestionsTypeOK' /\ AnswersReachOnce'
  BY <1>1, <1>2, <1>3 DEF QuestionsTypeOK, AnswersReachOnce
<1>8. ReceivedIsTrue' /\ RowsFit'
  BY <1>1, <1>2, <1>3 DEF ReceivedIsTrue, RowsFit
<1>9. OnePlace'
  BY <1>2, <1>4, <1>5 DEF OnePlace
<1>10. RepliesFit' /\ ConnectionFits'
  BY <1>2, <1>3, <1>6 DEF RepliesFit, ConnectionFits, QuestionsTypeOK
<1> QED BY <1>7, <1>8, <1>9, <1>10

\* A question is new: its answer is nowhere.
LEMMA AskStep == ASSUME AgentInv, NEW q \in Questions, Ask(q) PROVE QuestionsInv'
<1> USE DEF AgentInv, QuestionsInv
<1> DEFINE before == IF owner = 0 THEN Invalidated(1..owners) ELSE rows
           row == [NoRow EXCEPT !.state = "open", !.turn = adapter.turn, !.owner = owner']
<1>1. /\ before \in [Questions -> Row]
      /\ \A p \in Questions :
           \/ before[p] = rows[p]
           \/ /\ rows[p].state = "open" /\ before[p].state = "invalidated"
              /\ before[p].turn = rows[p].turn /\ before[p].owner = rows[p].owner
              /\ \/ before[p].delivery = rows[p].delivery
                 \/ rows[p].delivery \in {"sending", "sent"} /\ before[p].delivery = "unknown"
  BY InvalidatedFacts DEF QuestionsTypeOK
<1>2. /\ owner' \in Nat /\ owner' # 0 /\ owners' \in Nat /\ (owner # 0 => owner' = owner)
      /\ rows' = [before EXCEPT ![q] = row]
  BY DEF Ask, QuestionsTypeOK
<1> HIDE DEF before
<1>3. /\ rows[q].state = "none" /\ rows[q].delivery = "none" /\ handed = {} /\ adapter.pc # "none"
      /\ adapter.turn = Len(turns) /\ Len(turns) \in Nat /\ Len(turns) \in DOMAIN turns
      /\ UNCHANGED <<turns, server, handed, wire, replies, idle, got>>
  <2>1. turns \in Seq(Turn)
    BY DEF ExecutionInv, ExecutionTypeOK
  <2>2. adapter.turn = Len(turns) /\ adapter.turn # 0 /\ adapter.pc # "none"
    BY DEF Ask, Running
  <2>3. Len(turns) \in Nat /\ Len(turns) \in DOMAIN turns
    BY <2>1, <2>2
  <2> QED BY <2>2, <2>3 DEF Ask, deliveryVars, RowsFit
<1>4. /\ row \in Row /\ row.state = "open" /\ row.delivery = "none" /\ row.turn = Len(turns)
      /\ row.owner = owner'
  BY <1>2, <1>3 DEF NoRow, Row
<1> HIDE DEF row
<1>5. /\ rows' \in [Questions -> Row] /\ rows'[q] = row
      /\ \A p \in Questions : p # q => rows'[p] = before[p]
  BY <1>1, <1>2, <1>4
<1>6. got[q] = 0 /\ q \notin wire /\ ~Replied(q) /\ ~WithIdle(q) /\ \A r \in replies : r.question # q
  BY <1>3 DEF OnePlace, RowsFit
<1>7. \A p \in Questions \ {q} :
        /\ rows'[p].turn = rows[p].turn /\ rows'[p].owner = rows[p].owner
        /\ rows'[p].delivery \in {"none", "queued"} <=> rows[p].delivery \in {"none", "queued"}
        /\ rows'[p].state = "resolved" => rows'[p] = rows[p]
        /\ rows'[p].state = "none" => rows'[p] = rows[p]
        /\ rows'[p].state # "none" => rows[p].state # "none"
  BY <1>1, <1>5
<1>8. \A p \in Questions : Replied(p)' = Replied(p) /\ WithIdle(p)' = WithIdle(p)
  BY <1>3 DEF Replied, WithIdle
<1>9. \A r \in replies : r.question \in Questions \ {q}
  BY <1>6 DEF QuestionsTypeOK, Questions
<1>10. QuestionsTypeOK'
  BY <1>2, <1>3, <1>5 DEF QuestionsTypeOK
<1>11. wire \cap Requests = {} \/ owner # 0
  BY <1>3 DEF ConnectionFits
<1>12. AnswersReachOnce'
  BY <1>2, <1>3, <1>6, <1>7, <1>11 DEF AnswersReachOnce, Questions
<1>13. ReceivedIsTrue' /\ RowsFit'
  BY <1>3, <1>4, <1>5, <1>6, <1>7 DEF ReceivedIsTrue, RowsFit
<1>14. OnePlace'
  BY <1>3, <1>4, <1>5, <1>6, <1>7, <1>8 DEF OnePlace
<1>15. RepliesFit' /\ ConnectionFits'
  BY <1>2, <1>3, <1>7, <1>9, <1>11 DEF RepliesFit, ConnectionFits
<1> QED BY <1>10, <1>12, <1>13, <1>14, <1>15

\* The adapter takes the queued answers of its own requests.
LEMMA TakeAnswersStep == AgentInv /\ TakeAnswers => QuestionsInv'
<1> SUFFICES ASSUME AgentInv, TakeAnswers PROVE QuestionsInv'
  OBVIOUS
<1> USE DEF AgentInv, QuestionsInv
<1>1. /\ handed = {} /\ owner # 0 /\ handed' \subseteq Requests
      /\ \A q \in handed' : rows[q].owner = owner /\ rows[q].state = "open" /\ rows[q].delivery = "queued"
      /\ UNCHANGED <<turns, server, adapter, owner, owners, wire, replies, idle, got>>
  BY DEF TakeAnswers, Open, executionVars
<1>2. /\ rows' \in [Questions -> Row]
      /\ \A q \in Questions : IF q \in handed' THEN rows'[q] = [rows[q] EXCEPT !.delivery = "sending"]
                              ELSE rows'[q] = rows[q]
  BY DEF TakeAnswers, QuestionsTypeOK, Row
<1>3. \A q \in Questions :
        /\ rows'[q].state = rows[q].state /\ rows'[q].turn = rows[q].turn /\ rows'[q].owner = rows[q].owner
        /\ rows'[q].delivery \in {"none", "queued"} => rows[q].delivery \in {"none", "queued"} /\ q \notin handed'
        /\ rows'[q].delivery = IF q \in handed' THEN "sending" ELSE rows[q].delivery
  BY <1>2 DEF QuestionsTypeOK, Row
<1>4. handed' \subseteq Questions
  BY <1>1 DEF Questions
<1>5. \A q \in Questions : Replied(q)' = Replied(q) /\ WithIdle(q)' = WithIdle(q)
  BY <1>1 DEF Replied, WithIdle
<1>6. \A r \in replies : r.question \in Questions
  BY DEF QuestionsTypeOK, Questions
<1>7. QuestionsTypeOK'
  BY <1>1, <1>2, <1>4 DEF QuestionsTypeOK
<1>8. AnswersReachOnce'
  BY <1>1, <1>3 DEF AnswersReachOnce, Questions
<1>9. ReceivedIsTrue' /\ RowsFit'
  BY <1>1, <1>3, <1>4 DEF ReceivedIsTrue, RowsFit
<1>10. OnePlace'
  BY <1>1, <1>3, <1>4, <1>5 DEF OnePlace
<1>11. RepliesFit' /\ ConnectionFits'
  BY <1>1, <1>3, <1>4, <1>6 DEF RepliesFit, ConnectionFits
<1> QED BY <1>7, <1>8, <1>9, <1>10, <1>11

\* The adapter takes an answer for the turn that asked.
LEMMA TakeAsyncStep == ASSUME AgentInv, NEW q \in Questions, TakeAsync(q) PROVE QuestionsInv'
<1> USE DEF AgentInv, QuestionsInv
<1>1. /\ handed = {} /\ handed' = {q} /\ owner # 0 /\ q \notin Requests
      /\ rows[q].state = "open" /\ rows[q].delivery = "queued"
      /\ UNCHANGED <<turns, server, adapter, owner, owners, wire, replies, idle, got>>
  BY AgentQuestionsAssumption DEF TakeAsync, Open, executionVars
<1>2. /\ rows' \in [Questions -> Row] /\ rows'[q] = [rows[q] EXCEPT !.delivery = "sending"]
      /\ \A p \in Questions : p # q => rows'[p] = rows[p]
  BY DEF TakeAsync, QuestionsTypeOK, Row
<1>3. \A p \in Questions :
        /\ rows'[p].state = rows[p].state /\ rows'[p].turn = rows[p].turn /\ rows'[p].owner = rows[p].owner
        /\ rows'[p].delivery = IF p = q THEN "sending" ELSE rows[p].delivery
  BY <1>2 DEF QuestionsTypeOK, Row
<1>5. \A p \in Questions : Replied(p)' = Replied(p) /\ WithIdle(p)' = WithIdle(p)
  BY <1>1 DEF Replied, WithIdle
<1>6. \A r \in replies : r.question \in Questions
  BY DEF QuestionsTypeOK, Questions
<1>7. QuestionsTypeOK'
  BY <1>1, <1>2 DEF QuestionsTypeOK
<1>8. AnswersReachOnce'
  BY <1>1, <1>3 DEF AnswersReachOnce, Questions
<1>9. ReceivedIsTrue' /\ RowsFit'
  BY <1>1, <1>3 DEF ReceivedIsTrue, RowsFit
<1>10. OnePlace'
  BY <1>1, <1>3, <1>5 DEF OnePlace
<1>11. RepliesFit' /\ ConnectionFits'
  BY <1>1, <1>3, <1>6 DEF RepliesFit, ConnectionFits
<1> QED BY <1>7, <1>8, <1>9, <1>10, <1>11

\* The adapter writes an answer to its connection.
LEMMA WriteAnswerStep == ASSUME AgentInv, NEW q \in Questions, WriteAnswer(q) PROVE QuestionsInv'
<1> USE DEF AgentInv, QuestionsInv
<1>1. /\ q \in handed /\ handed' = handed \ {q} /\ wire' = wire \cup {q} /\ server = "up"
      /\ UNCHANGED <<turns, server, adapter, rows, owner, owners, replies, idle, got>>
  BY DEF WriteAnswer, executionVars
<1>2. owner # 0 /\ (q \in Requests => rows[q].owner = owner)
  BY <1>1 DEF ConnectionFits
<1>3. \A p \in Questions : Replied(p)' = Replied(p) /\ WithIdle(p)' = WithIdle(p)
  BY <1>1 DEF Replied, WithIdle
<1>4. QuestionsTypeOK' /\ AnswersReachOnce'
  BY <1>1, <1>2 DEF QuestionsTypeOK, AnswersReachOnce
<1>5. ReceivedIsTrue' /\ RowsFit' /\ RepliesFit'
  BY <1>1 DEF ReceivedIsTrue, RowsFit, RepliesFit
<1>6. OnePlace'
  BY <1>1, <1>3 DEF OnePlace
<1>7. ConnectionFits'
  BY <1>1, <1>2 DEF ConnectionFits
<1> QED BY <1>4, <1>5, <1>6, <1>7

\* The adapter marks what it wrote.
LEMMA MarkSentStep == AgentInv /\ MarkSent => QuestionsInv'
<1> SUFFICES ASSUME AgentInv, MarkSent PROVE QuestionsInv'
  OBVIOUS
<1> USE DEF AgentInv, QuestionsInv
<1>1. UNCHANGED <<turns, server, adapter, owner, owners, handed, wire, replies, idle, got>>
  BY DEF MarkSent, executionVars
<1>2. /\ rows' \in [Questions -> Row]
      /\ \A q \in Questions :
           \/ rows'[q] = rows[q]
           \/ rows[q].delivery = "sending" /\ rows'[q] = [rows[q] EXCEPT !.delivery = "sent"]
  BY DEF MarkSent, QuestionsTypeOK, Row
<1>3. \A q \in Questions : rows[q] \in Row
  BY DEF QuestionsTypeOK
<1>4. \A q \in Questions :
        /\ rows'[q].state = rows[q].state /\ rows'[q].turn = rows[q].turn /\ rows'[q].owner = rows[q].owner
        /\ \/ rows'[q].delivery = rows[q].delivery
           \/ rows[q].delivery = "sending" /\ rows'[q].delivery = "sent"
  <2> TAKE q \in Questions
  <2>1. CASE rows'[q] = rows[q]
    BY <2>1
  <2>2. CASE rows[q].delivery = "sending" /\ rows'[q] = [rows[q] EXCEPT !.delivery = "sent"]
    BY <1>3, <2>2 DEF Row
  <2> QED BY <1>2, <2>1, <2>2
<1>5. \A q \in Questions : Replied(q)' = Replied(q) /\ WithIdle(q)' = WithIdle(q)
  BY <1>1 DEF Replied, WithIdle
<1>6. \A r \in replies : r.question \in Questions
  BY DEF QuestionsTypeOK, Questions
<1>7. QuestionsTypeOK' /\ AnswersReachOnce'
  BY <1>1, <1>2, <1>4 DEF QuestionsTypeOK, AnswersReachOnce, Questions
<1>8. ReceivedIsTrue' /\ RowsFit'
  BY <1>1, <1>4 DEF ReceivedIsTrue, RowsFit
<1>9. OnePlace'
  BY <1>1, <1>4, <1>5 DEF OnePlace
<1>10. RepliesFit' /\ ConnectionFits'
  BY <1>1, <1>4, <1>6 DEF RepliesFit, ConnectionFits, QuestionsTypeOK
<1> QED BY <1>7, <1>8, <1>9, <1>10

\* The adapter believes what the server says of one question.
LEMMA HandleReplyStep == ASSUME AgentInv, NEW r \in replies, HandleReply(r) PROVE QuestionsInv'
<1> USE DEF AgentInv, QuestionsInv
<1> DEFINE q == r.question
<1>1. /\ handed = {} /\ replies' = replies \ {r}
      /\ UNCHANGED <<turns, server, adapter, owner, owners, handed, wire, idle, got>>
  BY DEF HandleReply, executionVars
<1>2. /\ q \in Questions /\ rows[q] \in Row /\ rows[q].state # "none"
      /\ \/ r.says = "resolved" /\ q \in Requests
         \/ r.says \in {"accepted", "rejected"} /\ q \in Asyncs
      /\ \A s \in replies : s.question \in Questions
  <2>1. /\ \A s \in replies : s.question \in Questions
        /\ \/ r.says = "resolved" /\ q \in Requests
           \/ r.says \in {"accepted", "rejected"} /\ q \in Asyncs
    BY DEF QuestionsTypeOK, Questions
  <2>2. q \in Questions
    BY <2>1
  <2> QED BY <2>1, <2>2 DEF QuestionsTypeOK, RowsFit
<1>3. \E row \in Row :
        /\ rows' = [rows EXCEPT ![q] = row]
        /\ row.turn = rows[q].turn /\ row.owner = rows[q].owner /\ row.state # "none"
        /\ \/ row = rows[q]
           \/ /\ r.says = "resolved" /\ row.delivery = rows[q].delivery
              /\ \/ row.state = "invalidated"
                 \/ row.state = "resolved" /\ row.delivery = "sent"
           \/ r.says = "accepted" /\ row.state = "resolved" /\ row.delivery = "sent"
              /\ rows[q].delivery = "sending"
           \/ r.says = "rejected" /\ row.state = rows[q].state /\ row.delivery = "queued"
              /\ rows[q].delivery = "sending"
  <2>1. CASE r.says = "resolved" /\ Open(q) /\ rows[q].owner = owner
    <3> DEFINE state == IF rows[q].delivery = "sent" THEN "resolved" ELSE "invalidated"
               row == [rows[q] EXCEPT !.state = state]
    <3>1. rows' = [rows EXCEPT ![q] = row]
      BY <1>2, <2>1 DEF HandleReply
    <3>2. /\ row \in Row /\ row.turn = rows[q].turn /\ row.owner = rows[q].owner /\ row.state # "none"
          /\ row.delivery = rows[q].delivery
          /\ row.state = "invalidated" \/ (row.state = "resolved" /\ row.delivery = "sent")
      <4>1. state = "invalidated" \/ (state = "resolved" /\ rows[q].delivery = "sent")
        OBVIOUS
      <4> HIDE DEF state
      <4> QED BY <1>2, <4>1 DEF Row
    <3> QED BY <2>1, <3>1, <3>2
  <2>2. CASE r.says = "accepted" /\ rows[q].delivery = "sending"
    <3> DEFINE row == [rows[q] EXCEPT !.state = "resolved", !.delivery = "sent"]
    <3>1. rows' = [rows EXCEPT ![q] = row]
      BY <1>2, <2>2 DEF HandleReply
    <3>2. /\ row \in Row /\ row.turn = rows[q].turn /\ row.owner = rows[q].owner
          /\ row.state = "resolved" /\ row.delivery = "sent"
      BY <1>2 DEF Row
    <3> QED BY <2>2, <3>1, <3>2
  <2>3. CASE r.says = "rejected" /\ rows[q].delivery = "sending"
    <3> DEFINE row == [rows[q] EXCEPT !.delivery = "queued"]
    <3>1. rows' = [rows EXCEPT ![q] = row]
      BY <1>2, <2>3 DEF HandleReply
    <3>2. /\ row \in Row /\ row.turn = rows[q].turn /\ row.owner = rows[q].owner
          /\ row.state = rows[q].state /\ row.delivery = "queued"
      BY <1>2 DEF Row
    <3> QED BY <1>2, <2>3, <3>1, <3>2
  <2>4. CASE ~(r.says = "resolved" /\ Open(q) /\ rows[q].owner = owner)
             /\ ~(r.says \in {"accepted", "rejected"} /\ rows[q].delivery = "sending")
    <3>1. rows' = [rows EXCEPT ![q] = rows[q]]
      BY <1>2, <2>4 DEF HandleReply
    <3> QED BY <1>2, <3>1
  <2> QED BY <2>1, <2>2, <2>3, <2>4
<1>4. /\ rows' \in [Questions -> Row] /\ rows'[q] \in Row
      /\ rows'[q].turn = rows[q].turn /\ rows'[q].owner = rows[q].owner /\ rows'[q].state # "none"
      /\ \/ rows'[q] = rows[q]
         \/ /\ r.says = "resolved" /\ rows'[q].delivery = rows[q].delivery
            /\ \/ rows'[q].state = "invalidated"
               \/ rows'[q].state = "resolved" /\ rows'[q].delivery = "sent"
         \/ r.says = "accepted" /\ rows'[q].state = "resolved" /\ rows'[q].delivery = "sent"
              /\ rows[q].delivery = "sending"
         \/ r.says = "rejected" /\ rows'[q].state = rows[q].state /\ rows'[q].delivery = "queued"
              /\ rows[q].delivery = "sending"
      /\ \A p \in Questions : p # q => rows'[p] = rows[p]
  BY <1>2, <1>3 DEF QuestionsTypeOK
<1> HIDE DEF q
<1>5. /\ r.says = "accepted" => got[q] = 1
      /\ r.says = "rejected" => got[q] = 0
      /\ r.says = "resolved" => got[q] = 1 \/ turns[rows[q].turn].status # "inProgress"
  BY DEF RepliesFit, q
<1>6. \A p \in Questions : rows'[p].turn = rows[p].turn /\ rows'[p].owner = rows[p].owner
  BY <1>4
<1>7. \A p \in Questions : (Replied(p)' => Replied(p)) /\ WithIdle(p)' = WithIdle(p)
  BY <1>1 DEF Replied, WithIdle
<1>8. r.says # "resolved" => Replied(q)
  BY <1>2 DEF Replied, q
<1>9. r.says = "rejected" => ~Replied(q)'
  <2> SUFFICES ASSUME r.says = "rejected", NEW s \in replies, s # r, s.question = q PROVE FALSE
    BY <1>1 DEF Replied
  <2>1. s.says = "accepted"
    <3>1. q \in Asyncs
      BY <1>2 DEF q
    <3>2. q \notin Requests
      BY <3>1, AgentQuestionsAssumption
    <3>3. /\ s \in [question : Asyncs, says : {"accepted", "rejected"}]
          /\ r \in [question : Asyncs, says : {"accepted", "rejected"}]
      BY <3>2 DEF QuestionsTypeOK, q
    <3>4. r.question = q
      BY DEF q
    <3> QED BY <3>3, <3>4
  <2> QED BY <1>5, <2>1 DEF RepliesFit
<1>10. q \in Questions /\ \A s \in replies' : s \in replies /\ s.question \in Questions
  BY <1>1, <1>2 DEF q
<1>11. QuestionsTypeOK' /\ AnswersReachOnce'
  BY <1>1, <1>4, <1>6 DEF QuestionsTypeOK, AnswersReachOnce, Questions
<1>12. RowsFit'
  BY <1>1, <1>2, <1>4, <1>10 DEF RowsFit
<1>13. ReceivedIsTrue'
  <2> SUFFICES ASSUME NEW p \in Questions, rows'[p].state = "resolved"
               PROVE  \/ got'[p] = 1
                      \/ /\ p \in Requests /\ rows'[p].delivery = "sent"
                         /\ turns'[rows'[p].turn].status # "inProgress"
    BY DEF ReceivedIsTrue
  <2>1. CASE rows'[p] = rows[p]
    BY <1>1, <2>1 DEF ReceivedIsTrue
  <2>2. CASE rows'[p] # rows[p] /\ p = q
    <3>1. r.says = "resolved" => q \in Requests
      BY <1>2 DEF q
    <3>2. r.says = "rejected" => rows[q].state # "resolved"
      BY <1>2, <1>5, AgentQuestionsAssumption DEF ReceivedIsTrue, q
    <3> QED BY <1>1, <1>4, <1>5, <2>2, <3>1, <3>2
  <2> QED BY <1>4, <2>1, <2>2
<1>14. OnePlace'
  <2> SUFFICES ASSUME NEW p \in Questions
               PROVE  /\ rows'[p].delivery \in {"none", "queued"} \/ p \in handed' \/ p \in wire' => got'[p] = 0
                      /\ rows'[p].delivery \in {"none", "queued"} => p \notin handed' /\ p \notin wire'
                      /\ rows'[p].delivery \in {"none", "queued"} \/ p \in handed' \/ p \in wire' =>
                           ~Replied(p)' /\ ~WithIdle(p)'
                      /\ p \in handed' => p \notin wire'
                      /\ Replied(p)' => ~WithIdle(p)'
                      /\ WithIdle(p)' => got'[p] = IF idle'.pc = "run" THEN 0 ELSE 1
    BY DEF OnePlace
  <2>1. CASE rows'[p].delivery = rows[p].delivery
    BY <1>1, <1>7, <2>1 DEF OnePlace
  <2>2. CASE rows'[p].delivery # rows[p].delivery
    <3>1. p = q /\ Replied(q)
      BY <1>4, <1>8, <1>10, <2>2
    <3> QED BY <1>1, <1>4, <1>5, <1>7, <1>9, <2>2, <3>1 DEF OnePlace
  <2> QED BY <2>1, <2>2
<1>15. RepliesFit' /\ ConnectionFits'
  BY <1>1, <1>6, <1>10 DEF RepliesFit, ConnectionFits
<1> QED BY <1>11, <1>12, <1>13, <1>14, <1>15

\* The server says that the requests of a turn are resolved once it has ended.
LEMMA ClearsRequestsStep == AgentInv /\ HistoryKept /\ EndTurn /\ ClearsRequests => QuestionsInv'
<1> SUFFICES ASSUME AgentInv, HistoryKept, EndTurn, ClearsRequests PROVE QuestionsInv'
  OBVIOUS
<1> USE DEF AgentInv, QuestionsInv
<1>1. UNCHANGED <<server, adapter, rows, owner, owners, handed, wire, idle, got>>
  BY DEF EndTurn, ClearsRequests
<1>2. Len(turns) \in DOMAIN turns' /\ turns'[Len(turns)].status # "inProgress"
  <2>1. turns \in Seq(Turn) /\ turns # <<>>
    BY DEF EndTurn, ExecutionInv, ExecutionTypeOK
  <2>2. Len(turns) \in DOMAIN turns /\ turns[Len(turns)] \in Turn
    BY <2>1, EmptySeq, ElementOfSeq
  <2>3. PICK status \in TurnStatuses \ {"inProgress"} : turns' = [turns EXCEPT ![Len(turns)].status = status]
    BY DEF EndTurn
  <2> QED BY <2>2, <2>3 DEF Turn
<1>3. \A r \in replies' :
        \/ r \in replies
        \/ /\ r.question \in Requests /\ r.says = "resolved" /\ rows[r.question].state = "open"
           /\ rows[r.question].turn = Len(turns)
           /\ r \in [question : Requests, says : {"resolved"}]
  BY DEF ClearsRequests, Open
<1>4. \A q \in Questions : (Replied(q)' => Replied(q)) /\ WithIdle(q)' = WithIdle(q)
  BY <1>1, <1>3, AgentQuestionsAssumption DEF Replied, WithIdle
<1>5. \A r \in replies' : r.question \in Questions
  BY <1>3 DEF QuestionsTypeOK, Questions
<1>6. QuestionsTypeOK' /\ AnswersReachOnce'
  BY <1>1, <1>3 DEF QuestionsTypeOK, AnswersReachOnce
<1>7. ReceivedIsTrue'
  BY <1>1 DEF ReceivedIsTrue, RowsFit, HistoryKept
<1>8. RowsFit'
  BY <1>1, <1>3 DEF RowsFit, HistoryKept
<1>9. OnePlace'
  BY <1>1, <1>4 DEF OnePlace
<1>10. RepliesFit'
  <2> SUFFICES ASSUME NEW r \in replies'
               PROVE  /\ r.says = "accepted" => got'[r.question] = 1
                      /\ r.says = "rejected" => got'[r.question] = 0
                      /\ r.says = "resolved" =>
                           got'[r.question] = 1 \/ turns'[rows'[r.question].turn].status # "inProgress"
    BY DEF RepliesFit
  <2>1. CASE r \in replies
    <3>1. rows[r.question].turn \in DOMAIN turns
      BY <1>5, <2>1 DEF RowsFit
    <3> QED BY <1>1, <2>1, <3>1 DEF RepliesFit, HistoryKept
  <2>2. CASE r \notin replies
    BY <1>1, <1>2, <1>3, <2>2
  <2> QED BY <2>1, <2>2
<1>11. ConnectionFits'
  BY <1>1 DEF ConnectionFits
<1> QED BY <1>6, <1>7, <1>8, <1>9, <1>10, <1>11

\* The server reads an answer, which nobody can give it again.
LEMMA TakeFromWireStep == ASSUME AgentInv, NEW q \in Questions, TakeFromWire(q) PROVE QuestionsInv'
<1> USE DEF AgentInv, QuestionsInv
<1> DEFINE taken == InTurn /\ rows[q].turn = Len(turns)
           says == CASE ~taken -> "rejected" [] taken /\ q \in Requests -> "resolved"
                     [] OTHER -> "accepted"
<1>1. /\ q \in wire /\ wire' = wire \ {q} /\ server = "up"
      /\ got' = IF taken THEN [got EXCEPT ![q] = @ + 1] ELSE got
      /\ replies' = IF adapter.pc = "none" \/ (q \in Requests /\ ~taken) THEN replies
                    ELSE replies \cup {[question |-> q, says |-> says]}
      /\ UNCHANGED <<turns, server, adapter, rows, owner, owners, handed, idle>>
  BY DEF TakeFromWire, executionVars
<1>2. /\ got[q] = 0 /\ q \notin handed /\ ~Replied(q) /\ ~WithIdle(q)
      /\ rows[q].delivery \notin {"none", "queued"} /\ rows[q].state # "none"
  BY <1>1 DEF OnePlace, RowsFit
<1>3. says = IF ~taken THEN "rejected" ELSE IF q \in Requests THEN "resolved" ELSE "accepted"
  OBVIOUS
<1> HIDE DEF taken, says
<1>4. /\ got' \in [Questions -> Nat] /\ got'[q] = (IF taken THEN 1 ELSE 0)
      /\ \A p \in Questions : p # q => got'[p] = got[p]
  BY <1>1, <1>2 DEF QuestionsTypeOK
<1>5. \A r \in replies' :
        \/ r \in replies
        \/ r.question = q /\ r.says = says /\ r = [question |-> q, says |-> says]
           /\ (q \in Requests => taken)
  BY <1>1
<1>6. \A p \in Questions : (p # q /\ Replied(p)' => Replied(p)) /\ WithIdle(p)' = WithIdle(p)
  BY <1>1, <1>5 DEF Replied, WithIdle
<1>7. QuestionsTypeOK'
  <2>1. [question |-> q, says |-> says] \in
          [question : Requests, says : {"resolved"}] \cup [question : Asyncs, says : {"accepted", "rejected"}]
        \/ (q \in Requests /\ ~taken)
    BY <1>3 DEF Questions
  <2> QED BY <1>1, <1>4, <2>1 DEF QuestionsTypeOK
<1>8. AnswersReachOnce'
  BY <1>1, <1>4 DEF AnswersReachOnce, Questions
<1>9. ReceivedIsTrue'
  BY <1>1, <1>2, <1>4 DEF ReceivedIsTrue
<1>10. RowsFit'
  BY <1>1, <1>2, <1>5 DEF RowsFit
<1>11. OnePlace'
  BY <1>1, <1>2, <1>4, <1>6 DEF OnePlace
<1>12. RepliesFit'
  <2> SUFFICES ASSUME NEW r \in replies'
               PROVE  /\ r.says = "accepted" => got'[r.question] = 1
                      /\ r.says = "rejected" => got'[r.question] = 0
                      /\ r.says = "resolved" =>
                           got'[r.question] = 1 \/ turns'[rows'[r.question].turn].status # "inProgress"
    BY DEF RepliesFit
  <2>1. CASE r \in replies
    <3>1. r.question \in Questions /\ (r.question = q => r.says = "resolved")
      BY <1>2, <2>1 DEF QuestionsTypeOK, Questions, Replied
    <3>2. r.says = "resolved" =>
            got[r.question] = 1 \/ turns[rows[r.question].turn].status # "inProgress"
      BY <2>1 DEF RepliesFit
    <3>3. CASE r.question = q
      BY <1>1, <1>2, <3>1, <3>2, <3>3
    <3>4. CASE r.question # q
      BY <1>1, <1>4, <2>1, <3>1, <3>4 DEF RepliesFit
    <3> QED BY <3>3, <3>4
  <2>2. CASE r \notin replies
    BY <1>3, <1>4, <1>5, <2>2
  <2> QED BY <2>1, <2>2
<1>13. ConnectionFits'
  BY <1>1 DEF ConnectionFits
<1> QED BY <1>7, <1>8, <1>9, <1>10, <1>11, <1>12, <1>13

\* The worker that delivers to an idle agent is the only one who has the answer it claimed.
LEMMA IdleStepKeeps == AgentInv /\ IdleStep => QuestionsInv'
<1> SUFFICES ASSUME AgentInv, IdleStep PROVE QuestionsInv'
  OBVIOUS
<1> USE DEF AgentInv, QuestionsInv
<1> DEFINE q == idle.question
<1>1. UNCHANGED <<turns, server, adapter, owner, owners, handed, wire, replies>>
  BY DEF IdleStep, DispatchIdle, ArchiveIdle, ClaimIdle, RunIdle, EndIdle, executionVars, deliveryVars
<1>2. \A r \in replies : r.question \in Questions
  BY DEF QuestionsTypeOK, Questions
<1>3. \A p \in Questions : Replied(p)' = Replied(p)
  BY <1>1 DEF Replied
<1>4. idle.pc # "none" => q \in Asyncs /\ q \in Questions /\ q \notin Requests /\ rows[q] \in Row
  BY AgentQuestionsAssumption DEF QuestionsTypeOK, Questions
<1>5. ASSUME rows' = rows, got' = got, idle' \in [pc : {"none", "archive", "claim"}, question : Asyncs \cup {"none"}],
             idle'.pc # "none" => idle'.question \in Asyncs
      PROVE  QuestionsInv'
  <2>1. \A p \in Questions : ~WithIdle(p)'
    BY <1>5 DEF WithIdle
  <2>2. QuestionsTypeOK' /\ AnswersReachOnce'
    BY <1>1, <1>5 DEF QuestionsTypeOK, AnswersReachOnce
  <2>3. ReceivedIsTrue' /\ RowsFit' /\ RepliesFit' /\ ConnectionFits'
    BY <1>1, <1>5 DEF ReceivedIsTrue, RowsFit, RepliesFit, ConnectionFits
  <2>4. OnePlace'
    BY <1>1, <1>3, <1>5, <2>1 DEF OnePlace
  <2> QED BY <2>2, <2>3, <2>4
<1>6. CASE (\E p \in Asyncs : DispatchIdle(p)) \/ ArchiveIdle
  <2>1. CASE \E p \in Asyncs : DispatchIdle(p)
    BY <1>5, <2>1 DEF DispatchIdle
  <2>2. CASE ArchiveIdle
    BY <1>5, <2>2 DEF ArchiveIdle, QuestionsTypeOK
  <2> QED BY <1>6, <2>1, <2>2
<1>7. ASSUME NEW row \in Row, idle.pc # "none", rows' = [rows EXCEPT ![q] = row],
             row.turn = rows[q].turn, row.owner = rows[q].owner,
             row.state \in {rows[q].state, "resolved"}, rows[q].state # "none",
             row.delivery \notin {"none", "queued"},
             row.state = "resolved" => got'[q] = 1, got' = got,
             q \notin handed, q \notin wire, ~Replied(q), idle' = NotIdle \/ (idle' = [idle EXCEPT !.pc = "run"] /\ got[q] = 0)
      PROVE  QuestionsInv'
  <2>1. /\ rows' \in [Questions -> Row] /\ rows'[q] = row
        /\ \A p \in Questions : p # q => rows'[p] = rows[p]
    BY <1>4, <1>7 DEF QuestionsTypeOK
  <2>2. \A p \in Questions : rows'[p].turn = rows[p].turn /\ rows'[p].owner = rows[p].owner
    BY <1>7, <2>1
  <2>3. \A p \in Questions : WithIdle(p)' => p = q /\ got[q] = 0 /\ idle'.pc = "run"
    BY <1>7 DEF WithIdle, NotIdle, QuestionsTypeOK
  <2>4. QuestionsTypeOK'
    BY <1>1, <1>4, <1>7, <2>1 DEF QuestionsTypeOK, NotIdle
  <2>5. AnswersReachOnce'
    BY <1>1, <1>7, <2>2 DEF AnswersReachOnce, Questions
  <2>6. ReceivedIsTrue' /\ RowsFit'
    BY <1>1, <1>4, <1>7, <2>1 DEF ReceivedIsTrue, RowsFit
  <2>7. OnePlace'
    BY <1>1, <1>3, <1>4, <1>7, <2>1, <2>3 DEF OnePlace
  <2>8. RepliesFit' /\ ConnectionFits'
    BY <1>1, <1>2, <1>7, <2>2 DEF RepliesFit, ConnectionFits, QuestionsTypeOK, Questions
  <2> QED BY <2>4, <2>5, <2>6, <2>7, <2>8
<1>8. CASE ClaimIdle
  <2>1. CASE rows[q].delivery = "queued"
    <3> DEFINE row == [rows[q] EXCEPT !.delivery = "sending"]
    <3>1. /\ idle.pc = "claim" /\ rows' = [rows EXCEPT ![q] = row]
          /\ idle' = [idle EXCEPT !.pc = "run"] /\ got' = got
      BY <1>4, <1>8, <2>1 DEF ClaimIdle
    <3>2. /\ row \in Row /\ row.turn = rows[q].turn /\ row.owner = rows[q].owner
          /\ row.state = rows[q].state /\ row.delivery = "sending"
      BY <1>4, <3>1 DEF Row
    <3>3. /\ got[q] = 0 /\ q \notin handed /\ q \notin wire /\ ~Replied(q)
          /\ rows[q].state # "none"
      BY <1>4, <2>1, <3>1 DEF OnePlace, RowsFit
    <3>4. row.state # "resolved"
      BY <1>4, <3>1, <3>2, <3>3 DEF ReceivedIsTrue
    <3> QED BY <1>7, <3>1, <3>2, <3>3, <3>4
  <2>2. CASE rows[q].delivery # "queued"
    BY <1>5, <1>8, <2>2 DEF ClaimIdle, NotIdle
  <2> QED BY <2>1, <2>2
<1>9. ASSUME WithIdle(q)
      PROVE  /\ idle.pc \in {"run", "started"} /\ q \in Questions
             /\ q \notin handed /\ q \notin wire /\ ~Replied(q) /\ rows[q].state # "none"
             /\ rows[q].delivery \notin {"none", "queued"}
             /\ got[q] = IF idle.pc = "run" THEN 0 ELSE 1
  BY <1>4, <1>9 DEF OnePlace, RowsFit, WithIdle
<1>10. CASE RunIdle
  <2>1. WithIdle(q) /\ idle.pc = "run"
    BY <1>10 DEF RunIdle, WithIdle
  <2>2. CASE rows' = [rows EXCEPT ![q].delivery = "unknown"] /\ idle' = NotIdle /\ got' = got
    <3> DEFINE row == [rows[q] EXCEPT !.delivery = "unknown"]
    <3>1. rows' = [rows EXCEPT ![q] = row]
      BY <2>2
    <3>2. /\ row \in Row /\ row.turn = rows[q].turn /\ row.owner = rows[q].owner
          /\ row.state = rows[q].state /\ row.delivery = "unknown"
      BY <1>4, <2>1 DEF Row
    <3>3. row.state # "resolved"
      BY <1>4, <1>9, <2>1, <3>2 DEF ReceivedIsTrue
    <3> QED BY <1>7, <1>9, <2>1, <2>2, <3>1, <3>2, <3>3
  <2>3. CASE got' = [got EXCEPT ![q] = @ + 1] /\ idle' = [idle EXCEPT !.pc = "started"] /\ rows' = rows
    <3>1. /\ got' \in [Questions -> Nat] /\ got'[q] = 1
          /\ \A p \in Questions : p # q => got'[p] = got[p]
      BY <1>9, <2>1, <2>3 DEF QuestionsTypeOK
    <3>2. idle'.pc = "started" /\ idle'.question = q
      BY <2>3 DEF QuestionsTypeOK
    <3>3. \A p \in Questions : WithIdle(p)' => p = q
      BY <3>2 DEF WithIdle
    <3>4. QuestionsTypeOK'
      BY <1>1, <1>4, <2>1, <2>3, <3>1 DEF QuestionsTypeOK
    <3>5. AnswersReachOnce' /\ ReceivedIsTrue' /\ RowsFit' /\ ConnectionFits'
      BY <1>1, <2>3, <3>1 DEF AnswersReachOnce, ReceivedIsTrue, RowsFit, ConnectionFits
    <3>6. OnePlace'
      BY <1>1, <1>3, <1>9, <2>1, <2>3, <3>1, <3>2, <3>3 DEF OnePlace
    <3>7. \A r \in replies : r.question = q => r.question \in Requests
      BY <1>4, <1>9, <2>1 DEF Replied
    <3>8. \A r \in replies : r.question \in Requests => r.says = "resolved"
      BY AgentQuestionsAssumption DEF QuestionsTypeOK
    <3>9. RepliesFit'
      BY <1>1, <1>2, <2>3, <3>1, <3>7, <3>8 DEF RepliesFit
    <3> QED BY <3>4, <3>5, <3>6, <3>9
  <2> QED BY <1>10, <2>2, <2>3 DEF RunIdle
<1>11. CASE EndIdle
  <2>1. WithIdle(q) /\ idle.pc = "started"
    BY <1>11 DEF EndIdle, WithIdle
  <2>2. PICK delivery \in {"sent", "unknown"} :
          rows' = [rows EXCEPT ![q].delivery = delivery,
                               ![q].state = IF delivery = "sent" THEN "resolved" ELSE @]
    BY <1>11 DEF EndIdle
  <2>3. PICK state \in {rows[q].state, "resolved"} :
          rows' = [rows EXCEPT ![q] = [rows[q] EXCEPT !.delivery = delivery, !.state = state]]
    BY <1>4, <2>1, <2>2 DEF QuestionsTypeOK, Row
  <2> DEFINE row == [rows[q] EXCEPT !.delivery = delivery, !.state = state]
  <2>4. /\ row \in Row /\ row.turn = rows[q].turn /\ row.owner = rows[q].owner
        /\ row.state = state /\ row.delivery = delivery
    BY <1>4, <2>1 DEF Row
  <2>5. idle' = NotIdle /\ got' = got
    BY <1>11 DEF EndIdle
  <2> HIDE DEF row
  <2> QED BY <1>7, <1>9, <2>1, <2>3, <2>4, <2>5 DEF row
<1> QED BY <1>6, <1>8, <1>10, <1>11 DEF IdleStep

-----------------------------------------------------------------------------
(* The execution of an agent that asks: every step.                         *)

\* A question interrupts nothing: its adapter has printed an event, and that is all.
LEMMA AskKeepsExecution == ASSUME ExecutionInv, NEW q, Ask(q) PROVE ExecutionInv'
<1> USE DEF ExecutionInv
<1>1. /\ adapter.pc \in {"await", "run"} /\ adapter.turn # 0 /\ adapter.exit = "none"
      /\ adapter' = Emitted(adapter) /\ incidents' \in Nat
      /\ UNCHANGED <<receipt, turns, server, request, events, supervisor, stop, messages>>
  BY DEF Ask, Running, Incident, ExecutionTypeOK
<1>2. adapter' \in AdapterState
  BY <1>1, EmittedTyped DEF ExecutionTypeOK
<1>3. adapter' = adapter \/ adapter' = [adapter EXCEPT !.pc = "closing", !.outcome = "blocked"]
  BY <1>1 DEF Emitted, Closing
<1>4. /\ adapter'.turn = adapter.turn /\ adapter'.exit = adapter.exit /\ adapter'.kind = adapter.kind
      /\ adapter'.pc \in {adapter.pc, "closing"} /\ adapter'.outcome \in {adapter.outcome, "blocked"}
      /\ adapter'.pc # "closing" => adapter'.outcome = adapter.outcome
  BY <1>1, <1>3 DEF ExecutionTypeOK, AdapterState
<1>5. ExecutionTypeOK' /\ ReceiptIsTrue'
  BY <1>1, <1>2 DEF ExecutionTypeOK, ReceiptIsTrue
<1>6. ServerFits' /\ RequestFits' /\ EventsFit'
  BY <1>1, <1>4 DEF ServerFits, RequestFits, EventsFit, AllPassed
<1>7. ReceiptFits' /\ AdapterFits' /\ SuccessFits'
  BY <1>1, <1>4 DEF ReceiptFits, AdapterFits, SuccessFits
<1> QED BY <1>5, <1>6, <1>7

\* A step is one of the execution, or a question, or the death of the idle worker.
LEMMA QuestionsStep ==
  ASSUME [QuestionsNext]_agentVars
  PROVE  \/ [ExecutionNext]_executionVars
         \/ \E q \in Questions : Ask(q)
         \/ IdleDies
<1>1. CASE AdapterStep \/ ServerStep \/ SupervisorStep \/ Faults \/ ((Resume \/ Stop) /\ UNCHANGED questionVars)
  BY <1>1 DEF AdapterStep, ServerStep, SupervisorStep, Faults, TakeFromWire, ExecutionNext, Adapter, Server,
     Supervisor
<1>2. CASE Delivery
  BY <1>2 DEF Delivery, TakeAnswers, MarkSent, TakeAsync, WriteAnswer, HandleReply
<1>3. CASE IdleStep
  BY <1>3 DEF IdleStep, DispatchIdle, ArchiveIdle, ClaimIdle, RunIdle, EndIdle
<1>4. CASE \E q \in Questions : AnswerQuestion(q)
  BY <1>4 DEF AnswerQuestion
<1>5. CASE UNCHANGED agentVars
  BY <1>5 DEF agentVars
<1> QED BY <1>1, <1>2, <1>3, <1>4, <1>5 DEF QuestionsNext

\* To the execution, questions and answers change nothing.
LEMMA AgentExecutionKept == AgentInv /\ [QuestionsNext]_agentVars => ExecutionInv' /\ HistoryKept
<1> SUFFICES ASSUME AgentInv, [QuestionsNext]_agentVars PROVE ExecutionInv' /\ HistoryKept
  OBVIOUS
<1>1. CASE [ExecutionNext]_executionVars
  BY <1>1, ExecutionKept, HistoryGrows DEF AgentInv
<1>2. CASE \E q \in Questions : Ask(q)
  <2>1. turns' = turns
    BY <1>2 DEF Ask
  <2> QED BY <1>2, <2>1, AskKeepsExecution DEF AgentInv, HistoryKept
<1>3. CASE IdleDies
  <2>1. /\ UNCHANGED <<receipt, turns, server, request, events, adapter, supervisor, stop, messages>>
        /\ incidents' \in Nat
    BY <1>3 DEF IdleDies, AgentInv, ExecutionInv, ExecutionTypeOK
  <2> QED BY <2>1, ExecutionUnchanged DEF AgentInv, HistoryKept
<1> QED BY <1>1, <1>2, <1>3, QuestionsStep

\* Before the first step.
LEMMA AgentStarts == QuestionsInit => AgentInv
<1> SUFFICES ASSUME QuestionsInit PROVE AgentInv
  OBVIOUS
<1> USE DEF QuestionsInit, NoRow, NotIdle
<1>1. QuestionsTypeOK
  BY DEF QuestionsTypeOK, Row
<1>2. AnswersReachOnce /\ ReceivedIsTrue /\ RowsFit /\ OnePlace /\ RepliesFit /\ ConnectionFits
  BY DEF AnswersReachOnce, ReceivedIsTrue, RowsFit, OnePlace, Replied, WithIdle, RepliesFit, ConnectionFits
<1> QED BY <1>1, <1>2, ExecutionStarts DEF AgentInv, QuestionsInv

\* Every step.
LEMMA AgentKept == AgentInv /\ [QuestionsNext]_agentVars => AgentInv'
<1> SUFFICES ASSUME AgentInv, [QuestionsNext]_agentVars PROVE QuestionsInv'
  BY AgentExecutionKept DEF AgentInv
<1>1. HistoryKept
  BY AgentExecutionKept
<1>2. CASE AdapterStep
  BY <1>1, <1>2, AdapterStepKeeps
<1>3. CASE ServerStep \/ SupervisorStep \/ Faults \/ IdleDies \/ ((Resume \/ Stop) /\ UNCHANGED questionVars)
  BY <1>1, <1>3, OthersKeep, ClearsRequestsStep, TakeFromWireStep DEF ServerStep, SupervisorStep
<1>4. CASE Delivery
  BY <1>4, TakeAnswersStep, TakeAsyncStep, WriteAnswerStep, MarkSentStep, HandleReplyStep DEF Delivery
<1>5. CASE IdleStep
  BY <1>5, IdleStepKeeps
<1>6. CASE \E q \in Questions : Ask(q) \/ AnswerQuestion(q)
  BY <1>6, AskStep, AnswerQuestionStep
<1>7. CASE UNCHANGED agentVars
  <2>1. server' = server /\ adapter' = adapter /\ UNCHANGED questionVars
    BY <1>7 DEF agentVars, executionVars
  <2>2. ConnectionFits'
    BY <2>1, ConnectionKept DEF questionVars, deliveryVars
  <2> QED BY <1>1, <2>1, <2>2, QuestionsUnchanged
<1> QED BY <1>2, <1>3, <1>4, <1>5, <1>6, <1>7 DEF QuestionsNext

-----------------------------------------------------------------------------
(* The theorems.                                                            *)

\* The execution on its own keeps its invariant, the receipt's truth with it.
THEOREM ExecutionInvariant == ExecutionSpec => []ExecutionInv
<1>1. ExecutionInit => ExecutionInv
  BY ExecutionStarts
<1>2. ExecutionInv /\ [ExecutionNext]_executionVars => ExecutionInv'
  BY ExecutionKept
<1> QED BY <1>1, <1>2, PTL DEF ExecutionSpec

\* So does an execution with questions and answers, with the parts about where each answer
\* is.
THEOREM AgentInvariant == QuestionsSpec => []AgentInv
<1>1. QuestionsInit => AgentInv
  BY AgentStarts
<1>2. AgentInv /\ [QuestionsNext]_agentVars => AgentInv'
  BY AgentKept
<1> QED BY <1>1, <1>2, PTL DEF QuestionsSpec

\* Whichever of the three processes died in between, execution_recovery.json never says
\* more than the thread's history, and success is reported of its last turn only.
THEOREM ReceiptIsTrueHolds == QuestionsSpec => []ReceiptIsTrue
<1>1. AgentInv => ReceiptIsTrue
  BY DEF AgentInv, ExecutionInv
<1> QED BY <1>1, AgentInvariant, PTL

\* A turn is submitted only when it is due: the prompt at most once, never after a stop, and
\* never while an earlier turn runs or after one that ended for good.
THEOREM SubmissionIsDueHolds == QuestionsSpec => SubmissionIsDue
<1> DEFINE Due == /\ ~stop
                  /\ \A n \in DOMAIN turns : turns[n].status \in {"overloaded", "interrupted"}
                  /\ request'.kind = "prompt" <=> request'.msg = 1
                  /\ request'.kind = "prompt" <=> turns = <<>>
<1>1. ASSUME AgentInv, [QuestionsNext]_agentVars, request' # NoRequest, request = NoRequest PROVE Due
  <2>1. CASE Send
    <3>1. adapter.pc = "send" /\ AdapterFits /\ ReceiptFits
      BY <1>1, <2>1 DEF Send, AgentInv, ExecutionInv
    <3>2. /\ AllPassed /\ receipt.msg = messages
          /\ (adapter.kind = "prompt" <=> messages = 1) /\ (adapter.kind = "prompt" <=> turns = <<>>)
      BY <3>1 DEF AdapterFits, ReceiptFits
    <3>3. ~stop /\ request' = [msg |-> receipt.msg, kind |-> adapter.kind]
      BY <2>1 DEF Send
    <3> QED BY <3>2, <3>3 DEF AllPassed, Passing
  <2>2. request' = request \/ request' = NoRequest \/ Send
    <3>1. CASE [ExecutionNext]_executionVars
      BY <3>1 DEF ExecutionNext, executionVars, Adapter, Connect, Check, Submit, Handle, Finish, EndWait,
         Reconnect, Cancelled, Close, AdapterDies, Server, Accept, Reject, EndTurn, OrphanExits, ServerDies,
         Supervisor, StartAdapter, StopAgent, AdapterExited, SupervisorDies, Resume, Stop, ServerGone
    <3>2. CASE (\E q \in Questions : Ask(q)) \/ IdleDies
      BY <3>2 DEF Ask, IdleDies
    <3> QED BY <1>1, <3>1, <3>2, QuestionsStep
  <2> QED BY <1>1, <2>1, <2>2
<1>2. AgentInv /\ [QuestionsNext]_agentVars => [request' # NoRequest /\ request = NoRequest => Due]_executionVars
  BY <1>1
<1> QED BY <1>2, AgentInvariant, PTL DEF QuestionsSpec, SubmissionIsDue

\* Whatever was lost or repeated on its way: the agent takes an answer at most once, and one
\* to a request never over another connection than that of the question.
THEOREM AnswersReachOnceHolds == QuestionsSpec => []AnswersReachOnce
<1>1. AgentInv => AnswersReachOnce
  BY DEF AgentInv, QuestionsInv
<1> QED BY <1>1, AgentInvariant, PTL

\* An answer that is shown as received was taken by the agent, or its request was resolved by
\* the end of its turn.
THEOREM ReceivedIsTrueHolds == QuestionsSpec => []ReceivedIsTrue
<1>1. AgentInv => ReceivedIsTrue
  BY DEF AgentInv, QuestionsInv
<1> QED BY <1>1, AgentInvariant, PTL

=============================================================================

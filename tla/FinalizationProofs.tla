-------------------------- MODULE FinalizationProofs --------------------------
(***************************************************************************)
(* Finalization for any agents, settings, requests, deaths and managers:   *)
(* the record, the journal and the workspace agree however the processes   *)
(* that write them are interleaved and die.                                *)
(***************************************************************************)
EXTENDS Finalization, TLAPS

\* A manager under construction is not the one there is when none is.
LEMMA LoadingIsNone == ASSUME NEW l \in Loading PROVE l # NoLoader
  BY DEF Loading, NoLoader

\* A manager under construction that will still save has seen the newest record.
LEMMA OvertakenIsStale ==
  ASSUME TypeOK, Overtakes
  PROVE  /\ Fresh' => Fresh /\ loader' = loader /\ run' = run
         /\ loader' = NoLoader \/ loader' \in Loading
<1>1. CASE run' = run \/ loader = NoLoader
  BY <1>1 DEF TypeOK, Overtakes, Fresh
<1>2. CASE run' # run /\ loader \in Loading
  <2>1. loader' = [loader EXCEPT !.stale = TRUE]
    BY <1>2, LoadingIsNone DEF Overtakes
  <2> QED
    BY <1>2, <2>1 DEF Loading, Fresh
<1> QED
  BY <1>1, <1>2 DEF TypeOK

\* What it found stays true while the journal and the workspace stay as they are.
LEMMA LoaderStaysFit ==
  ASSUME TypeOK, LoaderFits, Overtakes, journal' = journal, files' = files, alive' => alive
  PROVE  LoaderFits'
<1> SUFFICES ASSUME Fresh' PROVE LoaderFits'
  BY DEF LoaderFits
<1>1. Fresh /\ loader' = loader /\ run' = run
  BY OvertakenIsStale
<1> QED
  BY <1>1 DEF LoaderFits, WorkerFits, AmbiguityFits, AdoptionFits, Result

\* No agent is one of the values an agent's field may have.
LEMMA NoAgentIsChoice == NoAgent \in Choices
  BY DEF Choices, NoAgent

\* An executor without an operation is idle.
LEMMA NoOpIsIdle ==
  /\ NoOp \in Op
  /\ NoOp.task = "none" /\ NoOp.by = "none" /\ NoOp.pc = "idle" /\ NoOp.agent = NoAgent
  BY DEF Steps, NoOp, Choices, Op, Tasks, NoAgent

\* What a failure makes of a record.
LEMMA FailedFacts ==
  ASSUME NEW r \in Record
  PROVE  /\ Failed(r) \in Record /\ Failed(r).agent = r.agent
         /\ op.by = "manager" => Failed(r) = r
         /\ op.by # "manager" => Failed(r).worker = "idle" /\ Failed(r).task = "none"
         /\ \/ Failed(r).status = r.status
            \/ /\ op.task = "finalize" /\ r.status = "finalizing" /\ r.agent = NoAgent
               /\ Failed(r).status = "completed"
<1> DEFINE st == IF op.task = "finalize" /\ r.status = "finalizing" /\ r.agent = NoAgent
                 THEN "completed" ELSE r.status
<1>1. st \in Statuses
  BY DEF Record, Statuses
<1>2. Failed(r) = IF op.by = "manager" THEN r
                  ELSE [r EXCEPT !.worker = "idle", !.task = "none", !.status = st]
  BY DEF Failed, Record
<1> QED
  <2>1. "none" \in Tasks
    BY DEF Tasks
  <2> QED
    BY <1>1, <1>2, <2>1 DEF Record

\* An operation ends: what it makes of the record fits what it leaves elsewhere.
Ends(r) ==
  /\ r \in Record /\ op.by # "none" /\ op.pc # "reserved"
  /\ AmbiguityFits(r) /\ AdoptionFits(r)
  /\ r.worker = run.worker /\ r.task = run.task
  /\ r.status = "interrupted" => ~alive
  /\ journal.phase = "sync_started" => r.status = "sync_ambiguous" \/ ~alive
  /\ journal.phase \in Synced => r.agent = journal.agent \/ (r.agent = NoAgent /\ ~alive)
  /\ journal.phase = "sync_started" /\ begun # NoAgent => r.status \in Unsettled /\ r.agent = begun

\* An operation that ends in failure keeps the invariant.
LEMMA FailureKeeps ==
  ASSUME FinalizationInv, NEW r, Ends(r), Fails(r), Overtakes,
         UNCHANGED <<journal, files, begun, Elsewhere>>, copies' \in BOOLEAN, dropped' \in BOOLEAN
  PROVE  FinalizationInv'
<1> USE DEF FinalizationInv
<1>1. /\ op' = NoOp /\ run' = Failed(r) /\ alive' = alive /\ journal' = journal /\ files' = files
      /\ begun' = begun /\ up' = up /\ clean' = (clean /\ op.by = "manager")
  BY DEF Fails, Elsewhere
<1>2. TypeOK'
  BY <1>1, FailedFacts, NoOpIsIdle, OvertakenIsStale DEF TypeOK, Ends
<1>3. /\ run'.agent = r.agent
      /\ run'.status = r.status
           \/ (r.status = "finalizing" /\ r.agent = NoAgent /\ run'.status = "completed")
      /\ IF op.by = "manager" THEN run'.worker = run.worker /\ run'.task = run.task
         ELSE run'.worker = "idle" /\ run'.task = "none"
  BY <1>1, FailedFacts DEF Ends
<1>4. /\ op'.task = "none" /\ op'.by = "none" /\ op'.pc = "idle" /\ op' = NoOp
  BY <1>1, NoOpIsIdle
<1>5. OperationFits'
  BY <1>3, <1>4 DEF OperationFits
<1>6. WorkerFits(run)' /\ AmbiguityFits(run)' /\ AdoptionFits(run)'
  BY <1>1, <1>3, <1>4 DEF WorkerFits, AmbiguityFits, AdoptionFits, Ends, Result
<1>7. LoaderFits'
  BY <1>1, LoaderStaysFit
<1>8. JournalFits'
  BY <1>1, <1>3, <1>4 DEF JournalFits, Ends, Untouched, Copying, Adopted, At
<1>9. ChoiceFits'
  BY <1>1, <1>3, <1>4 DEF ChoiceFits, Ends, Untouched, At
<1>10. FilesFit'
  BY <1>1, <1>3, <1>4 DEF FilesFit, Untouched, Copying, At, Result
<1>11. DoubtFits' /\ RecoveryFits'
  BY <1>1, <1>3, <1>4 DEF DoubtFits, RecoveryFits, Unsettled, Ends
<1> QED
  BY <1>2, <1>5, <1>6, <1>7, <1>8, <1>9, <1>10, <1>11

\* An operation that ends well keeps the invariant.
LEMMA SuccessKeeps ==
  ASSUME FinalizationInv, NEW r, Ends(r), Succeeds(r), Overtakes,
         UNCHANGED <<files, copies, begun, dropped, Elsewhere>>,
         journal' \in Journal,
         \/ journal' = journal
         \/ /\ journal.phase \in Synced /\ journal'.phase = "complete"
            /\ journal'.agent = journal.agent
  PROVE  FinalizationInv'
<1> USE DEF FinalizationInv
<1>1. /\ op' = NoOp /\ files' = files /\ copies' = copies /\ begun' = begun
      /\ dropped' = dropped /\ up' = up
  BY DEF Succeeds, Elsewhere
<1>2. alive' \in BOOLEAN /\ clean' \in BOOLEAN
  BY DEF Succeeds, TypeOK
<1>3. /\ alive' => alive
      /\ run' \in Record /\ run'.agent = r.agent /\ run'.status = r.status
      /\ IF op.by = "manager"
         THEN alive' = alive /\ run'.worker = run.worker /\ run'.task = run.task
         ELSE alive' = FALSE
  <2>1. CASE op.by = "manager"
    BY <2>1 DEF Succeeds, Ends, TypeOK
  <2>2. CASE op.by # "manager"
    <3>1. run' = [r EXCEPT !.worker = "stopped", !.task = "none"] /\ ~alive' /\ ~clean'
          /\ alive' = FALSE
      BY <2>2 DEF Succeeds
    <3> QED
      BY <2>2, <3>1 DEF Ends, Record, Tasks
  <2> QED
    BY <2>1, <2>2
<1>4. TypeOK'
  <2>1. loader' = NoLoader \/ loader' \in Loading
    BY OvertakenIsStale
  <2> QED
    BY <1>1, <1>2, <1>3, <2>1, NoOpIsIdle DEF TypeOK
<1>5. op'.task = "none" /\ op'.by = "none" /\ op'.pc = "idle" /\ op' = NoOp
  BY <1>1, NoOpIsIdle
<1>6. /\ journal'.agent = journal.agent
      /\ journal'.phase = journal.phase \/ (journal.phase \in Synced /\ journal'.phase = "complete")
  OBVIOUS
<1>7. OperationFits'
  BY <1>3, <1>5 DEF OperationFits
<1>8. WorkerFits(run)' /\ AmbiguityFits(run)' /\ AdoptionFits(run)'
  BY <1>1, <1>3, <1>5, <1>6 DEF WorkerFits, AmbiguityFits, AdoptionFits, Ends, Result, Synced
<1>9. LoaderFits'
  <2>1. Fresh' => Fresh /\ loader' = loader /\ run' = run
    BY OvertakenIsStale
  <2> QED
    BY <2>1, <1>1, <1>3, <1>6 DEF LoaderFits, WorkerFits, AmbiguityFits, AdoptionFits, Result, Synced
<1>10. JournalFits'
  BY <1>1, <1>3, <1>5, <1>6 DEF JournalFits, Ends, Untouched, Copying, Adopted, At, Synced
<1>11. ChoiceFits'
  BY <1>1, <1>3, <1>5, <1>6 DEF ChoiceFits, Ends, Untouched, At, Synced
<1>12. FilesFit'
  BY <1>1, <1>3, <1>5, <1>6 DEF FilesFit, Untouched, Copying, At, Result, Synced
<1>13. DoubtFits' /\ RecoveryFits'
  BY <1>1, <1>3, <1>5, <1>6 DEF DoubtFits, RecoveryFits, Unsettled, Ends, Synced
<1> QED
  BY <1>4, <1>7, <1>8, <1>9, <1>10, <1>11, <1>12, <1>13

\* An operation that goes on changes only its point.
LEMMA OpGoes ==
  ASSUME op \in Op, NEW pc \in Steps, GoTo(pc)
  PROVE  /\ op' \in Op /\ op'.pc = pc /\ op'.task = op.task /\ op'.by = op.by
         /\ op'.agent = op.agent /\ op'.sync = op.sync /\ op'.already = op.already
         /\ op'.applied = op.applied
  BY DEF GoTo, Op

\* Begin keeps the invariant.
LEMMA BeginKeeps ==
  ASSUME FinalizationInv, Begin, Overtakes PROVE FinalizationInv'
<1> USE DEF FinalizationInv
<1> DEFINE already == \/ journal.phase \in Synced
                      \/ run.status = "cleanup_failed" /\ run.agent = op.agent /\ run.synced
           refused == \/ run.status = "sync_ambiguous" \/ run.agent \notin {NoAgent, op.agent}
                      \/ ~already /\ ~copies
<1>1. op.task = "finalize" /\ op.pc = "begin" /\ op.by # "none" /\ op.agent # NoAgent
      /\ op \in Op /\ run \in Record
  BY NoOpIsIdle DEF Begin, At, OperationFits, TypeOK
<1>2. UNCHANGED <<Files, Elsewhere>>
  BY DEF Begin
<1>3. Ends(run)
  BY <1>1 DEF Ends, WorkerFits, JournalFits, ChoiceFits, DoubtFits, Untouched, Copying, At
<1>4. already <=> journal.phase \in Synced
  BY DEF AdoptionFits
<1>5. CASE refused /\ Fails(run)
  BY <1>2, <1>3, <1>5, FailureKeeps DEF Files, TypeOK
<1>6. CASE Succeeds(run)
  BY <1>2, <1>3, <1>6, SuccessKeeps DEF Files, TypeOK
<1>7. CASE /\ ~refused /\ run.status # "finalized"
           /\ run' = IF already THEN run
                     ELSE [run EXCEPT !.saving = op.agent, !.status = "finalizing"]
           /\ op' = [op EXCEPT !.pc = "preserve", !.sync = run.sync, !.keep = run.keep,
                               !.already = already]
           /\ clean' = (clean /\ op.by = "manager") /\ UNCHANGED alive
  <2>1. /\ run' \in Record /\ run'.agent = run.agent /\ run'.worker = run.worker
        /\ run'.task = run.task
        /\ run'.status = IF already THEN run.status ELSE "finalizing"
    BY <1>1, <1>7 DEF Record, Op, Statuses
  <2>2. /\ op' \in Op /\ op'.pc = "preserve" /\ op'.task = "finalize" /\ op'.by = op.by
        /\ op'.agent = op.agent /\ op'.already = already
    BY <1>1, <1>7 DEF Op, Record, Steps
  <2>3. /\ journal' = journal /\ files' = files /\ copies' = copies /\ begun' = begun
        /\ dropped' = dropped /\ up' = up /\ alive' = alive
    BY <1>2, <1>7 DEF Files, Elsewhere
  <2>4. ~refused
    BY <1>7
  <2> HIDE DEF already, refused
  <2>5. TypeOK'
    BY <1>7, <2>1, <2>2, <2>3, OvertakenIsStale DEF TypeOK
  <2>6. OperationFits' /\ WorkerFits(run)'
    BY <1>1, <2>1, <2>2, <2>3 DEF OperationFits, WorkerFits
  <2>7. AmbiguityFits(run)' /\ AdoptionFits(run)'
    BY <2>1, <2>2, <2>3 DEF AmbiguityFits, AdoptionFits, Result
  <2>8. LoaderFits'
    BY <2>3, LoaderStaysFit
  <2>9. JournalFits'
    <3>1. journal.phase \in {"none", "sync_started", "sync_not_applied"} \cup Synced
      BY DEF TypeOK, Journal, Phases, Synced
    <3> QED
      BY <3>1, <1>1, <1>4, <2>1, <2>2, <2>3, <2>4
         DEF JournalFits, ChoiceFits, Untouched, Copying, Adopted, At, refused, Synced
  <2>10. ChoiceFits'
    BY <1>1, <1>4, <2>1, <2>2, <2>3, <2>4 DEF ChoiceFits, Untouched, Copying, Adopted, At, refused
  <2>11. FilesFit'
    BY <1>1, <1>4, <2>1, <2>2, <2>3, <2>4 DEF FilesFit, Untouched, Copying, Adopted, At, refused, Result, Part
  <2>12. DoubtFits' /\ RecoveryFits'
    BY <1>1, <1>4, <2>1, <2>2, <2>3, <2>4 DEF DoubtFits, RecoveryFits, JournalFits
  <2> QED
    BY <2>5, <2>6, <2>7, <2>8, <2>9, <2>10, <2>11, <2>12
<1> QED
  BY <1>5, <1>6, <1>7 DEF Begin
\* JournalStart keeps the invariant.
LEMMA JournalStartKeeps ==
  ASSUME FinalizationInv, JournalStart, Overtakes PROVE FinalizationInv'
<1> USE DEF FinalizationInv
<1>1. op.task = "finalize" /\ op.pc = "journal" /\ op.by # "none" /\ op \in Op
      /\ op # NoOp
  BY NoOpIsIdle DEF JournalStart, At, OperationFits, TypeOK
<1>2. /\ op' \in Op /\ op'.pc = "mark" /\ op'.task = op.task /\ op'.by = op.by
      /\ op'.agent = op.agent /\ op'.sync = op.sync /\ op'.already = op.already
      /\ op'.applied = op.applied
  BY <1>1, OpGoes DEF JournalStart, Steps
<1>3. run' = run /\ alive' = alive /\ clean' = clean /\ files' = files
      /\ copies' = copies /\ begun' = begun /\ dropped' = dropped /\ up' = up
  BY DEF JournalStart, Files, Elsewhere
<1>4. journal' \in Journal /\ journal'.phase = (IF op.sync THEN "sync_started" ELSE "sync_complete") /\ journal'.agent = op.agent
  BY <1>1 DEF JournalStart, Journal, Phases, Op, TypeOK
<1>5. TypeOK'
  BY <1>1, <1>2, <1>3, <1>4, OvertakenIsStale DEF TypeOK
<1>6. OperationFits' /\ WorkerFits(run)'
  BY <1>1, <1>2, <1>3, <1>4 DEF OperationFits, WorkerFits
<1>7. AmbiguityFits(run)' /\ AdoptionFits(run)'
  BY <1>1, <1>2, <1>3, <1>4
     DEF AmbiguityFits, AdoptionFits, JournalFits, Untouched, Copying, Adopted, At, FilesFit, Result, Synced
<1>8. LoaderFits'
  <2> SUFFICES ASSUME Fresh' PROVE LoaderFits'
    BY DEF LoaderFits
  <2>1. Fresh /\ loader' = loader
    BY OvertakenIsStale
  <2> QED
    BY <1>1, <1>2, <1>3, <1>4, <2>1
       DEF LoaderFits, WorkerFits, AmbiguityFits, AdoptionFits, JournalFits, RecoveryFits, FilesFit,
           Untouched, Copying, Adopted, At, Synced, Unsettled, Result, Part
<1>9. JournalFits'
  BY <1>1, <1>2, <1>3, <1>4
     DEF JournalFits, ChoiceFits, OperationFits, Untouched, Copying, Adopted, At, Synced, Unsettled
<1>10. ChoiceFits'
  BY <1>1, <1>2, <1>3, <1>4
     DEF ChoiceFits, JournalFits, Untouched, Copying, Adopted, At, Synced
<1>11. FilesFit'
  BY <1>1, <1>2, <1>3, <1>4
     DEF FilesFit, JournalFits, Untouched, Copying, Adopted, At, Synced, Result, Part
<1>12. DoubtFits' /\ RecoveryFits'
  BY <1>1, <1>2, <1>3, <1>4
     DEF DoubtFits, RecoveryFits, JournalFits, FilesFit, Untouched, Copying, Adopted, At, Unsettled, Synced
<1> QED
  BY <1>5, <1>6, <1>7, <1>8, <1>9, <1>10, <1>11, <1>12

\* Mark keeps the invariant.
LEMMA MarkKeeps ==
  ASSUME FinalizationInv, Mark, Overtakes PROVE FinalizationInv'
<1> USE DEF FinalizationInv
<1>1. op.task = "finalize" /\ op.pc = "mark" /\ op.by # "none" /\ op \in Op
      /\ op # NoOp
  BY NoOpIsIdle DEF Mark, At, OperationFits, TypeOK
<1>2. /\ op' \in Op /\ (op'.pc = "receipt" \/ op'.pc = "promote") /\ op'.task = op.task /\ op'.by = op.by
      /\ op'.agent = op.agent /\ op'.sync = op.sync /\ op'.already = op.already
      /\ op'.applied = op.applied
  BY <1>1, OpGoes DEF Mark, Steps
<1>3. journal' = journal /\ alive' = alive /\ clean' = clean /\ files' = files
      /\ copies' = copies /\ begun' = begun /\ dropped' = dropped /\ up' = up
  BY DEF Mark, Files, Elsewhere
<1>4. IF op.sync THEN op'.pc = "receipt" ELSE op'.pc = "promote"
  BY <1>1, OpGoes DEF Mark, Steps
<1>5. /\ run' \in Record /\ run'.agent = op.agent /\ run'.status = "finalizing"
      /\ run'.worker = run.worker /\ run'.task = run.task
  BY <1>1 DEF Mark, Record, Statuses, Op, TypeOK
<1>6. TypeOK'
  BY <1>1, <1>2, <1>3, <1>4, <1>5, OvertakenIsStale DEF TypeOK
<1>7. OperationFits' /\ WorkerFits(run)'
  BY <1>1, <1>2, <1>3, <1>4, <1>5 DEF OperationFits, WorkerFits
<1>8. AmbiguityFits(run)' /\ AdoptionFits(run)'
  BY <1>1, <1>2, <1>3, <1>4, <1>5
     DEF AmbiguityFits, AdoptionFits, JournalFits, Untouched, Copying, Adopted, At, FilesFit, Result, Synced
<1>9. LoaderFits'
  BY <1>1, <1>2, <1>3, <1>4, <1>5, LoaderStaysFit
<1>10. JournalFits'
  BY <1>1, <1>2, <1>3, <1>4, <1>5
     DEF JournalFits, ChoiceFits, OperationFits, Untouched, Copying, Adopted, At, Synced, Unsettled
<1>11. ChoiceFits'
  BY <1>1, <1>2, <1>3, <1>4, <1>5
     DEF ChoiceFits, JournalFits, Untouched, Copying, Adopted, At, Synced
<1>12. FilesFit'
  BY <1>1, <1>2, <1>3, <1>4, <1>5
     DEF FilesFit, JournalFits, Untouched, Copying, Adopted, At, Synced, Result, Part
<1>13. DoubtFits' /\ RecoveryFits'
  BY <1>1, <1>2, <1>3, <1>4, <1>5
     DEF DoubtFits, RecoveryFits, JournalFits, FilesFit, Untouched, Copying, Adopted, At, Unsettled, Synced
<1> QED
  BY <1>6, <1>7, <1>8, <1>9, <1>10, <1>11, <1>12, <1>13

\* Receipt keeps the invariant.
LEMMA ReceiptKeeps ==
  ASSUME FinalizationInv, Receipt, Overtakes PROVE FinalizationInv'
<1> USE DEF FinalizationInv
<1>1. op.task = "finalize" /\ op.pc = "receipt" /\ op.by # "none" /\ op \in Op
      /\ op # NoOp
  BY NoOpIsIdle DEF Receipt, At, OperationFits, TypeOK
<1>2. /\ op' \in Op /\ op'.pc = "sync" /\ op'.task = op.task /\ op'.by = op.by
      /\ op'.agent = op.agent /\ op'.sync = op.sync /\ op'.already = op.already
      /\ op'.applied = op.applied
  BY <1>1, OpGoes DEF Receipt, Steps
<1>3. run' = run /\ alive' = alive /\ clean' = clean /\ files' = files
      /\ copies' = copies /\ begun' = begun /\ dropped' = dropped /\ up' = up
  BY DEF Receipt, Files, Elsewhere
<1>4. journal' \in Journal /\ journal'.phase = journal.phase /\ journal'.agent = journal.agent
  BY DEF Receipt, Journal, TypeOK
<1>5. TypeOK'
  BY <1>1, <1>2, <1>3, <1>4, OvertakenIsStale DEF TypeOK
<1>6. OperationFits' /\ WorkerFits(run)'
  BY <1>1, <1>2, <1>3, <1>4 DEF OperationFits, WorkerFits
<1>7. AmbiguityFits(run)' /\ AdoptionFits(run)'
  BY <1>1, <1>2, <1>3, <1>4
     DEF AmbiguityFits, AdoptionFits, JournalFits, Untouched, Copying, Adopted, At, FilesFit, Result, Synced
<1>8. LoaderFits'
  <2> SUFFICES ASSUME Fresh' PROVE LoaderFits'
    BY DEF LoaderFits
  <2>1. Fresh /\ loader' = loader
    BY OvertakenIsStale
  <2> QED
    BY <1>1, <1>2, <1>3, <1>4, <2>1
       DEF LoaderFits, WorkerFits, AmbiguityFits, AdoptionFits, JournalFits, RecoveryFits, FilesFit,
           Untouched, Copying, Adopted, At, Synced, Unsettled, Result, Part
<1>9. JournalFits'
  BY <1>1, <1>2, <1>3, <1>4
     DEF JournalFits, ChoiceFits, OperationFits, Untouched, Copying, Adopted, At, Synced, Unsettled
<1>10. ChoiceFits'
  BY <1>1, <1>2, <1>3, <1>4
     DEF ChoiceFits, JournalFits, Untouched, Copying, Adopted, At, Synced
<1>11. FilesFit'
  BY <1>1, <1>2, <1>3, <1>4
     DEF FilesFit, JournalFits, Untouched, Copying, Adopted, At, Synced, Result, Part
<1>12. DoubtFits' /\ RecoveryFits'
  BY <1>1, <1>2, <1>3, <1>4
     DEF DoubtFits, RecoveryFits, JournalFits, FilesFit, Untouched, Copying, Adopted, At, Unsettled, Synced
<1> QED
  BY <1>5, <1>6, <1>7, <1>8, <1>9, <1>10, <1>11, <1>12

\* SyncWrites keeps the invariant.
LEMMA SyncWritesKeeps ==
  ASSUME FinalizationInv, SyncWrites, Overtakes PROVE FinalizationInv'
<1> USE DEF FinalizationInv
<1>1. op.task = "finalize" /\ op.pc = "sync" /\ op.by # "none" /\ op \in Op
      /\ op # NoOp
  BY NoOpIsIdle DEF SyncWrites, At, OperationFits, TypeOK
<1>2. /\ op' \in Op /\ op'.pc = "writing" /\ op'.task = op.task /\ op'.by = op.by
      /\ op'.agent = op.agent /\ op'.sync = op.sync /\ op'.already = op.already
      /\ op'.applied = op.applied
  BY <1>1, OpGoes DEF SyncWrites, Steps
<1>3. run' = run /\ journal' = journal /\ alive' = alive /\ clean' = clean
      /\ copies' = copies /\ dropped' = dropped /\ up' = up
  BY DEF SyncWrites, Files, Elsewhere
<1>4. files' = Part(op.agent) /\ begun' = op.agent /\ op.agent # NoAgent /\ op.agent \in Choices
  BY <1>1 DEF SyncWrites, OperationFits, Op
<1>5. TypeOK'
  BY <1>1, <1>2, <1>3, <1>4, OvertakenIsStale DEF TypeOK, Part
<1>6. OperationFits' /\ WorkerFits(run)'
  BY <1>1, <1>2, <1>3, <1>4 DEF OperationFits, WorkerFits
<1>7. AmbiguityFits(run)' /\ AdoptionFits(run)'
  BY <1>1, <1>2, <1>3, <1>4
     DEF AmbiguityFits, AdoptionFits, JournalFits, Untouched, Copying, Adopted, At, FilesFit, Result, Synced
<1>8. LoaderFits'
  <2> SUFFICES ASSUME Fresh' PROVE LoaderFits'
    BY DEF LoaderFits
  <2>1. Fresh /\ loader' = loader
    BY OvertakenIsStale
  <2> QED
    BY <1>1, <1>2, <1>3, <1>4, <2>1
       DEF LoaderFits, WorkerFits, AmbiguityFits, AdoptionFits, JournalFits, RecoveryFits, FilesFit,
           Untouched, Copying, Adopted, At, Synced, Unsettled, Result, Part
<1>9. JournalFits'
  BY <1>1, <1>2, <1>3, <1>4
     DEF JournalFits, ChoiceFits, OperationFits, Untouched, Copying, Adopted, At, Synced, Unsettled
<1>10. ChoiceFits'
  BY <1>1, <1>2, <1>3, <1>4
     DEF ChoiceFits, JournalFits, Untouched, Copying, Adopted, At, Synced
<1>11. FilesFit'
  BY <1>1, <1>2, <1>3, <1>4
     DEF FilesFit, JournalFits, Untouched, Copying, Adopted, At, Synced, Result, Part
<1>12. DoubtFits' /\ RecoveryFits'
  BY <1>1, <1>2, <1>3, <1>4
     DEF DoubtFits, RecoveryFits, JournalFits, FilesFit, Untouched, Copying, Adopted, At, Unsettled, Synced
<1> QED
  BY <1>5, <1>6, <1>7, <1>8, <1>9, <1>10, <1>11, <1>12

\* SyncEnds keeps the invariant.
LEMMA SyncEndsKeeps ==
  ASSUME FinalizationInv, SyncEnds, Overtakes PROVE FinalizationInv'
<1> USE DEF FinalizationInv
<1>1. op.task = "finalize" /\ op.pc = "writing" /\ op.by # "none" /\ op \in Op
      /\ op # NoOp
  BY NoOpIsIdle DEF SyncEnds, At, OperationFits, TypeOK
<1>2. /\ op' \in Op /\ op'.pc = "synced" /\ op'.task = op.task /\ op'.by = op.by
      /\ op'.agent = op.agent /\ op'.sync = op.sync /\ op'.already = op.already
      /\ op'.applied = op.applied
  BY <1>1, OpGoes DEF SyncEnds, Steps
<1>3. run' = run /\ journal' = journal /\ alive' = alive /\ clean' = clean
      /\ copies' = copies /\ begun' = begun /\ dropped' = dropped /\ up' = up
  BY DEF SyncEnds, Files, Elsewhere
<1>4. files' = Result(op.agent) /\ op.agent # NoAgent /\ op.agent \in Choices
  BY <1>1 DEF SyncEnds, OperationFits, Op
<1>5. TypeOK'
  BY <1>1, <1>2, <1>3, <1>4, OvertakenIsStale DEF TypeOK, Result
<1>6. OperationFits' /\ WorkerFits(run)'
  BY <1>1, <1>2, <1>3, <1>4 DEF OperationFits, WorkerFits
<1>7. AmbiguityFits(run)' /\ AdoptionFits(run)'
  BY <1>1, <1>2, <1>3, <1>4
     DEF AmbiguityFits, AdoptionFits, JournalFits, Untouched, Copying, Adopted, At, FilesFit, Result, Synced
<1>8. LoaderFits'
  <2> SUFFICES ASSUME Fresh' PROVE LoaderFits'
    BY DEF LoaderFits
  <2>1. Fresh /\ loader' = loader
    BY OvertakenIsStale
  <2> QED
    BY <1>1, <1>2, <1>3, <1>4, <2>1
       DEF LoaderFits, WorkerFits, AmbiguityFits, AdoptionFits, JournalFits, RecoveryFits, FilesFit,
           Untouched, Copying, Adopted, At, Synced, Unsettled, Result, Part
<1>9. JournalFits'
  BY <1>1, <1>2, <1>3, <1>4
     DEF JournalFits, ChoiceFits, OperationFits, Untouched, Copying, Adopted, At, Synced, Unsettled
<1>10. ChoiceFits'
  BY <1>1, <1>2, <1>3, <1>4
     DEF ChoiceFits, JournalFits, Untouched, Copying, Adopted, At, Synced
<1>11. FilesFit'
  BY <1>1, <1>2, <1>3, <1>4
     DEF FilesFit, JournalFits, Untouched, Copying, Adopted, At, Synced, Result, Part
<1>12. DoubtFits' /\ RecoveryFits'
  BY <1>1, <1>2, <1>3, <1>4
     DEF DoubtFits, RecoveryFits, JournalFits, FilesFit, Untouched, Copying, Adopted, At, Unsettled, Synced
<1> QED
  BY <1>5, <1>6, <1>7, <1>8, <1>9, <1>10, <1>11, <1>12

\* AfterSync keeps the invariant.
LEMMA AfterSyncKeeps ==
  ASSUME FinalizationInv, AfterSync, Overtakes PROVE FinalizationInv'
<1> USE DEF FinalizationInv
<1>1. op.task = "finalize" /\ op.pc = "synced" /\ op.by # "none" /\ op \in Op
      /\ op # NoOp
  BY NoOpIsIdle DEF AfterSync, At, OperationFits, TypeOK
<1>2. /\ op' \in Op /\ op'.pc = "promote" /\ op'.task = op.task /\ op'.by = op.by
      /\ op'.agent = op.agent /\ op'.sync = op.sync /\ op'.already = op.already
      /\ op'.applied = op.applied
  BY <1>1, OpGoes DEF AfterSync, Steps
<1>3. run' = run /\ alive' = alive /\ clean' = clean /\ files' = files
      /\ copies' = copies /\ begun' = begun /\ dropped' = dropped /\ up' = up
  BY DEF AfterSync, Files, Elsewhere
<1>4. journal' \in Journal /\ journal'.phase = "sync_complete" /\ journal'.agent = op.agent
  BY <1>1 DEF AfterSync, Journal, Phases, Op, TypeOK
<1>5. TypeOK'
  BY <1>1, <1>2, <1>3, <1>4, OvertakenIsStale DEF TypeOK
<1>6. OperationFits' /\ WorkerFits(run)'
  BY <1>1, <1>2, <1>3, <1>4 DEF OperationFits, WorkerFits
<1>7. AmbiguityFits(run)' /\ AdoptionFits(run)'
  BY <1>1, <1>2, <1>3, <1>4
     DEF AmbiguityFits, AdoptionFits, JournalFits, Untouched, Copying, Adopted, At, FilesFit, Result, Synced
<1>8. LoaderFits'
  <2> SUFFICES ASSUME Fresh' PROVE LoaderFits'
    BY DEF LoaderFits
  <2>1. Fresh /\ loader' = loader
    BY OvertakenIsStale
  <2> QED
    BY <1>1, <1>2, <1>3, <1>4, <2>1
       DEF LoaderFits, WorkerFits, AmbiguityFits, AdoptionFits, JournalFits, RecoveryFits, FilesFit,
           Untouched, Copying, Adopted, At, Synced, Unsettled, Result, Part
<1>9. JournalFits'
  BY <1>1, <1>2, <1>3, <1>4
     DEF JournalFits, ChoiceFits, OperationFits, Untouched, Copying, Adopted, At, Synced, Unsettled
<1>10. ChoiceFits'
  BY <1>1, <1>2, <1>3, <1>4
     DEF ChoiceFits, JournalFits, Untouched, Copying, Adopted, At, Synced
<1>11. FilesFit'
  BY <1>1, <1>2, <1>3, <1>4
     DEF FilesFit, JournalFits, Untouched, Copying, Adopted, At, Synced, Result, Part
<1>12. DoubtFits' /\ RecoveryFits'
  BY <1>1, <1>2, <1>3, <1>4
     DEF DoubtFits, RecoveryFits, JournalFits, FilesFit, Untouched, Copying, Adopted, At, Unsettled, Synced
<1> QED
  BY <1>5, <1>6, <1>7, <1>8, <1>9, <1>10, <1>11, <1>12

\* Promote keeps the invariant.
LEMMA PromoteKeeps ==
  ASSUME FinalizationInv, Promote, Overtakes PROVE FinalizationInv'
<1> USE DEF FinalizationInv
<1>1. op.task = "finalize" /\ op.pc = "promote" /\ op.by # "none" /\ op \in Op
      /\ op # NoOp
  BY NoOpIsIdle DEF Promote, At, OperationFits, TypeOK
<1>2. /\ op' \in Op /\ (op'.pc = "finish" \/ op'.pc = "cleanup") /\ op'.task = op.task /\ op'.by = op.by
      /\ op'.agent = op.agent /\ op'.sync = op.sync /\ op'.already = op.already
      /\ op'.applied = op.applied
  BY <1>1, OpGoes DEF Promote, Steps
<1>3. journal' = journal /\ alive' = alive /\ clean' = clean /\ files' = files
      /\ copies' = copies /\ begun' = begun /\ dropped' = dropped /\ up' = up
  BY DEF Promote, Files, Elsewhere
<1>4. /\ run' \in Record /\ run'.worker = run.worker /\ run'.task = run.task
      /\ run' = run \/ (run'.agent = op.agent /\ run'.status = "finalizing")
  BY <1>1 DEF Promote, Record, Statuses, Op, TypeOK
<1>5. TypeOK'
  BY <1>1, <1>2, <1>3, <1>4, OvertakenIsStale DEF TypeOK
<1>6. OperationFits' /\ WorkerFits(run)'
  BY <1>1, <1>2, <1>3, <1>4 DEF OperationFits, WorkerFits
<1>7. AmbiguityFits(run)' /\ AdoptionFits(run)'
  BY <1>1, <1>2, <1>3, <1>4
     DEF AmbiguityFits, AdoptionFits, JournalFits, Untouched, Copying, Adopted, At, FilesFit, Result, Synced
<1>8. LoaderFits'
  BY <1>1, <1>2, <1>3, <1>4, LoaderStaysFit
<1>9. JournalFits'
  BY <1>1, <1>2, <1>3, <1>4
     DEF JournalFits, ChoiceFits, OperationFits, Untouched, Copying, Adopted, At, Synced, Unsettled
<1>10. ChoiceFits'
  BY <1>1, <1>2, <1>3, <1>4
     DEF ChoiceFits, JournalFits, Untouched, Copying, Adopted, At, Synced
<1>11. FilesFit'
  BY <1>1, <1>2, <1>3, <1>4
     DEF FilesFit, JournalFits, Untouched, Copying, Adopted, At, Synced, Result, Part
<1>12. DoubtFits' /\ RecoveryFits'
  BY <1>1, <1>2, <1>3, <1>4
     DEF DoubtFits, RecoveryFits, JournalFits, FilesFit, Untouched, Copying, Adopted, At, Unsettled, Synced
<1> QED
  BY <1>5, <1>6, <1>7, <1>8, <1>9, <1>10, <1>11, <1>12

\* CleanupStart keeps the invariant.
LEMMA CleanupStartKeeps ==
  ASSUME FinalizationInv, CleanupStart, Overtakes PROVE FinalizationInv'
<1> USE DEF FinalizationInv
<1>1. op.task = "finalize" /\ op.pc = "cleanup" /\ op.by # "none" /\ op \in Op
      /\ op # NoOp
  BY NoOpIsIdle DEF CleanupStart, At, OperationFits, TypeOK
<1>2. /\ op' \in Op /\ op'.pc = "deleting" /\ op'.task = op.task /\ op'.by = op.by
      /\ op'.agent = op.agent /\ op'.sync = op.sync /\ op'.already = op.already
      /\ op'.applied = op.applied
  BY <1>1, OpGoes DEF CleanupStart, Steps
<1>3. run' = run /\ alive' = alive /\ clean' = clean /\ files' = files
      /\ copies' = copies /\ begun' = begun /\ dropped' = dropped /\ up' = up
  BY DEF CleanupStart, Files, Elsewhere
<1>4. journal' \in Journal /\ journal'.phase = "cleanup_started" /\ journal'.agent = op.agent
  BY <1>1 DEF CleanupStart, Journal, Phases, Op, TypeOK
<1>5. TypeOK'
  BY <1>1, <1>2, <1>3, <1>4, OvertakenIsStale DEF TypeOK
<1>6. OperationFits' /\ WorkerFits(run)'
  BY <1>1, <1>2, <1>3, <1>4 DEF OperationFits, WorkerFits
<1>7. AmbiguityFits(run)' /\ AdoptionFits(run)'
  BY <1>1, <1>2, <1>3, <1>4
     DEF AmbiguityFits, AdoptionFits, JournalFits, Untouched, Copying, Adopted, At, FilesFit, Result, Synced
<1>8. LoaderFits'
  <2> SUFFICES ASSUME Fresh' PROVE LoaderFits'
    BY DEF LoaderFits
  <2>1. Fresh /\ loader' = loader
    BY OvertakenIsStale
  <2> QED
    BY <1>1, <1>2, <1>3, <1>4, <2>1
       DEF LoaderFits, WorkerFits, AmbiguityFits, AdoptionFits, JournalFits, RecoveryFits, FilesFit,
           Untouched, Copying, Adopted, At, Synced, Unsettled, Result, Part
<1>9. JournalFits'
  BY <1>1, <1>2, <1>3, <1>4
     DEF JournalFits, ChoiceFits, OperationFits, Untouched, Copying, Adopted, At, Synced, Unsettled
<1>10. ChoiceFits'
  BY <1>1, <1>2, <1>3, <1>4
     DEF ChoiceFits, JournalFits, Untouched, Copying, Adopted, At, Synced
<1>11. FilesFit'
  BY <1>1, <1>2, <1>3, <1>4
     DEF FilesFit, JournalFits, Untouched, Copying, Adopted, At, Synced, Result, Part
<1>12. DoubtFits' /\ RecoveryFits'
  BY <1>1, <1>2, <1>3, <1>4
     DEF DoubtFits, RecoveryFits, JournalFits, FilesFit, Untouched, Copying, Adopted, At, Unsettled, Synced
<1> QED
  BY <1>5, <1>6, <1>7, <1>8, <1>9, <1>10, <1>11, <1>12

\* Delete keeps the invariant.
LEMMA DeleteKeeps ==
  ASSUME FinalizationInv, Delete, Overtakes PROVE FinalizationInv'
<1> USE DEF FinalizationInv
<1>1. op.task = "finalize" /\ op.pc = "deleting" /\ op.by # "none" /\ op \in Op
      /\ op # NoOp
  BY NoOpIsIdle DEF Delete, At, OperationFits, TypeOK
<1>2. /\ op' \in Op /\ op'.pc = "finish" /\ op'.task = op.task /\ op'.by = op.by
      /\ op'.agent = op.agent /\ op'.sync = op.sync /\ op'.already = op.already
      /\ op'.applied = op.applied
  BY <1>1, OpGoes DEF Delete, Steps
<1>3. run' = run /\ journal' = journal /\ alive' = alive /\ clean' = clean
      /\ files' = files /\ begun' = begun /\ dropped' = dropped /\ up' = up
  BY DEF Delete, Files, Elsewhere
<1>4. copies' \in BOOLEAN
  BY DEF Delete, TypeOK
<1>5. TypeOK'
  BY <1>1, <1>2, <1>3, <1>4, OvertakenIsStale DEF TypeOK
<1>6. OperationFits' /\ WorkerFits(run)'
  BY <1>1, <1>2, <1>3, <1>4 DEF OperationFits, WorkerFits
<1>7. AmbiguityFits(run)' /\ AdoptionFits(run)'
  BY <1>1, <1>2, <1>3, <1>4
     DEF AmbiguityFits, AdoptionFits, JournalFits, Untouched, Copying, Adopted, At, FilesFit, Result, Synced
<1>8. LoaderFits'
  BY <1>1, <1>2, <1>3, <1>4, LoaderStaysFit
<1>9. JournalFits'
  BY <1>1, <1>2, <1>3, <1>4
     DEF JournalFits, ChoiceFits, OperationFits, Untouched, Copying, Adopted, At, Synced, Unsettled
<1>10. ChoiceFits'
  BY <1>1, <1>2, <1>3, <1>4
     DEF ChoiceFits, JournalFits, Untouched, Copying, Adopted, At, Synced
<1>11. FilesFit'
  BY <1>1, <1>2, <1>3, <1>4
     DEF FilesFit, JournalFits, Untouched, Copying, Adopted, At, Synced, Result, Part
<1>12. DoubtFits' /\ RecoveryFits'
  BY <1>1, <1>2, <1>3, <1>4
     DEF DoubtFits, RecoveryFits, JournalFits, FilesFit, Untouched, Copying, Adopted, At, Unsettled, Synced
<1> QED
  BY <1>5, <1>6, <1>7, <1>8, <1>9, <1>10, <1>11, <1>12

\* Finish keeps the invariant.
LEMMA FinishKeeps ==
  ASSUME FinalizationInv, Finish, Overtakes PROVE FinalizationInv'
<1> USE DEF FinalizationInv
<1>1. op.task = "finalize" /\ op.pc = "finish" /\ op.by # "none" /\ op \in Op
      /\ op # NoOp
  BY NoOpIsIdle DEF Finish, At, OperationFits, TypeOK
<1>2. /\ op' \in Op /\ op'.pc = "complete" /\ op'.task = op.task /\ op'.by = op.by
      /\ op'.agent = op.agent /\ op'.sync = op.sync /\ op'.already = op.already
      /\ op'.applied = op.applied
  BY <1>1, OpGoes DEF Finish, Steps
<1>3. journal' = journal /\ alive' = alive /\ clean' = clean /\ files' = files
      /\ copies' = copies /\ begun' = begun /\ dropped' = dropped /\ up' = up
  BY DEF Finish, Files, Elsewhere
<1>4. /\ run' \in Record /\ run'.worker = run.worker /\ run'.task = run.task
      /\ run'.agent = op.agent /\ run'.status = "finalized"
  BY <1>1, NoAgentIsChoice DEF Finish, Finalized, Record, Statuses, Op, TypeOK
<1>5. TypeOK'
  BY <1>1, <1>2, <1>3, <1>4, OvertakenIsStale DEF TypeOK
<1>6. OperationFits' /\ WorkerFits(run)'
  BY <1>1, <1>2, <1>3, <1>4 DEF OperationFits, WorkerFits
<1>7. AmbiguityFits(run)' /\ AdoptionFits(run)'
  BY <1>1, <1>2, <1>3, <1>4
     DEF AmbiguityFits, AdoptionFits, JournalFits, Untouched, Copying, Adopted, At, FilesFit, Result, Synced
<1>8. LoaderFits'
  BY <1>1, <1>2, <1>3, <1>4, LoaderStaysFit
<1>9. JournalFits'
  BY <1>1, <1>2, <1>3, <1>4
     DEF JournalFits, ChoiceFits, OperationFits, Untouched, Copying, Adopted, At, Synced, Unsettled
<1>10. ChoiceFits'
  BY <1>1, <1>2, <1>3, <1>4
     DEF ChoiceFits, JournalFits, Untouched, Copying, Adopted, At, Synced
<1>11. FilesFit'
  BY <1>1, <1>2, <1>3, <1>4
     DEF FilesFit, JournalFits, Untouched, Copying, Adopted, At, Synced, Result, Part
<1>12. DoubtFits' /\ RecoveryFits'
  BY <1>1, <1>2, <1>3, <1>4
     DEF DoubtFits, RecoveryFits, JournalFits, FilesFit, Untouched, Copying, Adopted, At, Unsettled, Synced
<1> QED
  BY <1>5, <1>6, <1>7, <1>8, <1>9, <1>10, <1>11, <1>12

\* CleanupDelete keeps the invariant.
LEMMA CleanupDeleteKeeps ==
  ASSUME FinalizationInv, CleanupDelete, Overtakes PROVE FinalizationInv'
<1> USE DEF FinalizationInv
<1>1. op.task = "cleanup" /\ op.pc = "begin" /\ op.by # "none" /\ op \in Op
      /\ op # NoOp
  BY NoOpIsIdle DEF CleanupDelete, At, OperationFits, TypeOK
<1>2. /\ op' \in Op /\ op'.pc = "finish" /\ op'.task = op.task /\ op'.by = op.by
      /\ op'.agent = op.agent /\ op'.sync = op.sync /\ op'.already = op.already
      /\ op'.applied = op.applied
  BY <1>1, OpGoes DEF CleanupDelete, Steps
<1>3. run' = run /\ journal' = journal /\ alive' = alive /\ clean' = clean
      /\ files' = files /\ begun' = begun /\ dropped' = dropped /\ up' = up
  BY DEF CleanupDelete, Files, Elsewhere
<1>4. copies' \in BOOLEAN
  BY DEF CleanupDelete, TypeOK
<1>5. TypeOK'
  BY <1>1, <1>2, <1>3, <1>4, OvertakenIsStale DEF TypeOK
<1>6. OperationFits' /\ WorkerFits(run)'
  BY <1>1, <1>2, <1>3, <1>4 DEF OperationFits, WorkerFits
<1>7. AmbiguityFits(run)' /\ AdoptionFits(run)'
  BY <1>1, <1>2, <1>3, <1>4
     DEF AmbiguityFits, AdoptionFits, JournalFits, Untouched, Copying, Adopted, At, FilesFit, Result, Synced
<1>8. LoaderFits'
  BY <1>1, <1>2, <1>3, <1>4, LoaderStaysFit
<1>9. JournalFits'
  BY <1>1, <1>2, <1>3, <1>4
     DEF JournalFits, ChoiceFits, OperationFits, Untouched, Copying, Adopted, At, Synced, Unsettled
<1>10. ChoiceFits'
  BY <1>1, <1>2, <1>3, <1>4
     DEF ChoiceFits, JournalFits, Untouched, Copying, Adopted, At, Synced
<1>11. FilesFit'
  BY <1>1, <1>2, <1>3, <1>4
     DEF FilesFit, JournalFits, Untouched, Copying, Adopted, At, Synced, Result, Part
<1>12. DoubtFits' /\ RecoveryFits'
  BY <1>1, <1>2, <1>3, <1>4
     DEF DoubtFits, RecoveryFits, JournalFits, FilesFit, Untouched, Copying, Adopted, At, Unsettled, Synced
<1> QED
  BY <1>5, <1>6, <1>7, <1>8, <1>9, <1>10, <1>11, <1>12

\* The fields of an operation that begins.
LEMMA OperationFacts ==
  ASSUME NEW task \in Tasks, NEW by \in {"worker", "manager"}, NEW agent \in Choices
  PROVE  LET new == Operation(task, by, agent) IN
         /\ new \in Op /\ new.task = task /\ new.by = by /\ new.agent = agent
         /\ new.pc = IF by = "worker" THEN "reserved" ELSE "begin"
         /\ ~new.already
  BY DEF Operation, NoOp, Op, Steps, Tasks, NoAgent, Choices

\* A request finds no operation, or that of the worker.
LEMMA RequestFacts ==
  ASSUME FinalizationInv, op.by # "manager", op.pc # "reserved"
  PROVE  /\ op = NoOp \/ (op.by = "worker" /\ alive /\ run.worker = "busy")
         /\ ~Active \/ ~alive => op = NoOp /\ op.task = "none" /\ op.pc = "idle"
  BY NoOpIsIdle DEF FinalizationInv, OperationFits, Active, TypeOK, Op

\* Preserve, when the worktrees could be copied.
LEMMA PreserveGoesOnKeeps ==
  ASSUME FinalizationInv, At("finalize", "preserve"), Overtakes,
         GoTo(IF op.already THEN "promote" ELSE "journal"), UNCHANGED <<run, alive, clean>>,
         UNCHANGED <<Files, Elsewhere>>
  PROVE FinalizationInv'
<1> USE DEF FinalizationInv
<1>1. /\ op.task = "finalize" /\ op.pc = "preserve" /\ op.by # "none" /\ op \in Op /\ op # NoOp
  BY NoOpIsIdle DEF At, OperationFits, TypeOK
<1>2. /\ op' \in Op /\ op'.pc = (IF op.already THEN "promote" ELSE "journal") /\ op'.task = op.task
      /\ op'.by = op.by /\ op'.agent = op.agent /\ op'.sync = op.sync /\ op'.already = op.already
      /\ op'.applied = op.applied
  BY <1>1, OpGoes DEF Steps
<1>3. run' = run /\ journal' = journal /\ alive' = alive /\ clean' = clean
      /\ files' = files /\ copies' = copies /\ begun' = begun /\ dropped' = dropped /\ up' = up
  BY DEF Files, Elsewhere
<1>4. TypeOK'
  BY <1>1, <1>2, <1>3, OvertakenIsStale DEF TypeOK
<1>5. OperationFits' /\ WorkerFits(run)'
  BY <1>1, <1>2, <1>3 DEF OperationFits, WorkerFits
<1>6. AmbiguityFits(run)' /\ AdoptionFits(run)'
  BY <1>1, <1>2, <1>3
     DEF AmbiguityFits, AdoptionFits, JournalFits, Untouched, Copying, Adopted, At, FilesFit, Result, Synced
<1>7. LoaderFits'
  BY <1>1, <1>2, <1>3, LoaderStaysFit
<1>8. JournalFits'
  BY <1>1, <1>2, <1>3
     DEF JournalFits, ChoiceFits, AdoptionFits, OperationFits, Untouched, Copying, Adopted, At, Synced, Unsettled
<1>9. ChoiceFits'
  BY <1>1, <1>2, <1>3
     DEF ChoiceFits, JournalFits, AdoptionFits, Untouched, Copying, Adopted, At, Synced
<1>10. FilesFit'
  BY <1>1, <1>2, <1>3
     DEF FilesFit, JournalFits, Untouched, Copying, Adopted, At, Synced, Result, Part
<1>11. DoubtFits' /\ RecoveryFits'
  BY <1>1, <1>2, <1>3
     DEF DoubtFits, RecoveryFits, JournalFits, AmbiguityFits, FilesFit, Untouched, Copying, Adopted, At, Unsettled, Synced, Result
<1> QED
  BY <1>4, <1>5, <1>6, <1>7, <1>8, <1>9, <1>10, <1>11

\* Preserve keeps the invariant.
LEMMA PreserveKeeps ==
  ASSUME FinalizationInv, Preserve, Overtakes PROVE FinalizationInv'
<1> USE DEF FinalizationInv
<1> DEFINE r == IF op.already THEN [run EXCEPT !.status = "cleanup_failed"]
                ELSE [run EXCEPT !.status = "completed", !.agent = NoAgent]
<1>1. UNCHANGED <<Files, Elsewhere>> /\ At("finalize", "preserve")
  BY DEF Preserve
<1>2. CASE GoTo(IF op.already THEN "promote" ELSE "journal") /\ UNCHANGED <<run, alive, clean>>
  BY <1>1, <1>2, PreserveGoesOnKeeps
<1>3. CASE Fails(r)
  <2>1. /\ r \in Record /\ r.worker = run.worker /\ r.task = run.task
        /\ r.status = IF op.already THEN "cleanup_failed" ELSE "completed"
        /\ r.agent = IF op.already THEN run.agent ELSE NoAgent
    BY NoAgentIsChoice DEF Record, Statuses, TypeOK
  <2>2. op.task = "finalize" /\ op.pc = "preserve" /\ op.by # "none"
    BY <1>1, NoOpIsIdle DEF At, OperationFits
  <2> HIDE DEF r
  <2>3. Ends(r)
    BY <2>1, <2>2 DEF Ends, AmbiguityFits, AdoptionFits, JournalFits, ChoiceFits, DoubtFits, WorkerFits,
                      Untouched, Copying, Adopted, At, Synced, Unsettled
  <2> QED
    BY <1>1, <1>3, <2>3, FailureKeeps DEF Files, TypeOK
<1> QED
  BY <1>2, <1>3 DEF Preserve

\* Preflight keeps the invariant.
LEMMA PreflightKeeps ==
  ASSUME FinalizationInv, Preflight, Overtakes PROVE FinalizationInv'
<1> USE DEF FinalizationInv
<1> DEFINE r == [run EXCEPT !.agent = op.agent, !.status = "sync_ambiguous"]
<1>1. /\ r \in Record /\ r.worker = run.worker /\ r.task = run.task
      /\ r.status = "sync_ambiguous" /\ r.agent = op.agent
  BY DEF Record, Statuses, TypeOK, Op
<1>2. /\ op.task = "finalize" /\ op.pc \in {"receipt", "sync"} /\ op.by # "none"
      /\ op.agent # NoAgent
  BY NoOpIsIdle DEF Preflight, OperationFits
<1>3. Fails(r) /\ UNCHANGED <<Files, Elsewhere>>
  BY DEF Preflight
<1> HIDE DEF r
<1>4. Ends(r)
  BY <1>1, <1>2 DEF Ends, AmbiguityFits, AdoptionFits, JournalFits, FilesFit,
                    Untouched, Copying, Adopted, At, Synced, Unsettled
<1> QED
  BY <1>3, <1>4, FailureKeeps DEF Files, TypeOK

\* SyncFails keeps the invariant.
LEMMA SyncFailsKeeps ==
  ASSUME FinalizationInv, SyncFails, Overtakes PROVE FinalizationInv'
<1> USE DEF FinalizationInv
<1> DEFINE r == [run EXCEPT !.status = "sync_ambiguous"]
<1>1. /\ r \in Record /\ r.worker = run.worker /\ r.task = run.task
      /\ r.status = "sync_ambiguous" /\ r.agent = run.agent
  BY DEF Record, Statuses, TypeOK, Op
<1>2. op.task = "finalize" /\ op.pc = "writing" /\ op.by # "none" /\ op.agent # NoAgent
  BY NoOpIsIdle DEF SyncFails, OperationFits, At
<1>3. Fails(r) /\ UNCHANGED <<Files, Elsewhere>>
  BY DEF SyncFails
<1> HIDE DEF r
<1>4. Ends(r)
  BY <1>1, <1>2 DEF Ends, AmbiguityFits, AdoptionFits, JournalFits, FilesFit,
                    Untouched, Copying, Adopted, At, Synced, Unsettled
<1> QED
  BY <1>3, <1>4, FailureKeeps DEF Files, TypeOK

\* Complete keeps the invariant.
LEMMA CompleteKeeps ==
  ASSUME FinalizationInv, Complete, Overtakes PROVE FinalizationInv'
<1> USE DEF FinalizationInv
<1>1. op.task = "finalize" /\ op.pc = "complete" /\ op.by # "none" /\ op.agent # NoAgent
  BY NoOpIsIdle DEF Complete, OperationFits, At
<1>2. journal.phase \in Synced /\ journal.agent = op.agent
  BY <1>1 DEF JournalFits, Adopted
<1>3. journal' \in Journal /\ journal'.phase = "complete" /\ journal'.agent = journal.agent
  BY <1>2 DEF Complete, Journal, Phases, Op, TypeOK
<1>4. UNCHANGED <<files, copies, begun, dropped, Elsewhere>>
  BY DEF Complete
<1>5. Ends(run)
  BY <1>1, <1>2 DEF Ends, WorkerFits, ChoiceFits, At, Synced, TypeOK
<1>6. /\ Finalized(run) \in Record /\ Finalized(run).worker = run.worker
      /\ Finalized(run).task = run.task /\ Finalized(run).status = "finalized"
      /\ Finalized(run).agent = op.agent
  BY NoAgentIsChoice DEF Finalized, Record, Statuses, Op, TypeOK
<1>7. Ends(Finalized(run))
  BY <1>1, <1>2, <1>6 DEF Ends, AmbiguityFits, AdoptionFits, Synced
<1> QED
  BY <1>2, <1>3, <1>4, <1>5, <1>7, SuccessKeeps DEF Complete

\* RecoverSave keeps the invariant.
LEMMA RecoverSaveKeeps ==
  ASSUME FinalizationInv, RecoverSave, Overtakes PROVE FinalizationInv'
<1> USE DEF FinalizationInv
<1> DEFINE r == IF op.applied THEN [run EXCEPT !.synced = TRUE, !.status = "cleanup_failed"]
                ELSE [run EXCEPT !.agent = NoAgent, !.synced = FALSE, !.status = "completed"]
<1>1. /\ r \in Record /\ r.worker = run.worker /\ r.task = run.task
      /\ r.status = IF op.applied THEN "cleanup_failed" ELSE "completed"
      /\ r.agent = IF op.applied THEN run.agent ELSE NoAgent
  BY NoAgentIsChoice DEF Record, Statuses, TypeOK
<1>2. op.task = "recover" /\ op.pc = "answer" /\ op.by # "none" /\ op.agent # NoAgent
  BY NoOpIsIdle DEF RecoverSave, OperationFits, At
<1>3. Fails(r) /\ UNCHANGED <<Files, Elsewhere>>
  BY DEF RecoverSave
<1> HIDE DEF r
<1>4. Ends(r)
  BY <1>1, <1>2 DEF Ends, AmbiguityFits, AdoptionFits, RecoveryFits, Synced, Unsettled
<1> QED
  BY <1>3, <1>4, FailureKeeps DEF Files, TypeOK

\* DiscardSave keeps the invariant.
LEMMA DiscardSaveKeeps ==
  ASSUME FinalizationInv, DiscardSave, Overtakes PROVE FinalizationInv'
<1> USE DEF FinalizationInv
<1> DEFINE r == [run EXCEPT !.status = "discarded", !.deleted = ~copies]
<1>1. /\ r \in Record /\ r.worker = run.worker /\ r.task = run.task
      /\ r.status = "discarded" /\ r.agent = run.agent
  BY DEF Record, Statuses, TypeOK, Op
<1>2. op.task = "discard" /\ op.pc = "dropped" /\ op.by # "none" /\ op # NoOp
  BY NoOpIsIdle DEF DiscardSave, OperationFits, At
<1>3. Succeeds(r) /\ UNCHANGED <<Files, Elsewhere>>
  BY DEF DiscardSave
<1> HIDE DEF r
<1>4. Ends(r)
  BY <1>1, <1>2 DEF Ends, AmbiguityFits, AdoptionFits, ChoiceFits, JournalFits, DoubtFits,
                    Untouched, Copying, Adopted, At, Synced, Unsettled
<1> QED
  BY <1>3, <1>4, SuccessKeeps DEF Files, TypeOK

\* RecoverJournal, when there is a decision to write.
LEMMA RecoverJournalGoesOnKeeps ==
  ASSUME FinalizationInv, At("recover", "begin"), Overtakes,
         run.status = "sync_ambiguous", run.agent # NoAgent,
         journal' = [journal EXCEPT !.phase = IF op.applied THEN "sync_complete" ELSE "sync_not_applied",
                                   !.agent = run.agent, !.synced = op.applied],
         begun' = IF op.applied THEN begun ELSE NoAgent,
         op' = [op EXCEPT !.pc = "answer", !.agent = run.agent],
         clean' = (clean /\ op.by = "manager"), UNCHANGED <<run, alive, files, copies, dropped, Elsewhere>>
  PROVE FinalizationInv'
<1> USE DEF FinalizationInv
<1>1. op.task = "recover" /\ op.pc = "begin" /\ op.by # "none" /\ op \in Op
  BY NoOpIsIdle DEF At, OperationFits, TypeOK
<1>2. /\ op' \in Op /\ op'.pc = "answer" /\ op'.task = op.task /\ op'.by = op.by
      /\ op'.agent = run.agent /\ op'.applied = op.applied
  BY <1>1 DEF Op, Steps, Record, TypeOK
<1>3. /\ journal' \in Journal /\ journal'.agent = run.agent
      /\ journal'.phase = IF op.applied THEN "sync_complete" ELSE "sync_not_applied"
  BY <1>1 DEF Journal, Phases, Record, Op, TypeOK
<1>4. begun' = (IF op.applied THEN begun ELSE NoAgent) /\ begun' \in Choices
  BY NoAgentIsChoice DEF TypeOK
<1>5. run' = run /\ alive' = alive /\ files' = files /\ copies' = copies
      /\ dropped' = dropped /\ up' = up
  BY DEF Elsewhere
<1>6. /\ journal.agent = run.agent /\ run.agent # NoAgent /\ run.status = "sync_ambiguous"
      /\ (op.applied <=> files = Result(journal.agent))
  BY <1>1 DEF AmbiguityFits, RecoveryFits
<1>7. /\ journal.phase \in {"none", "sync_not_applied", "sync_started"} \cup Synced
      /\ files.whole /\ files.of = journal.agent => files = Result(journal.agent)
  BY DEF TypeOK, Journal, Phases, Synced, Result
<1>8. TypeOK'
  BY <1>1, <1>2, <1>3, <1>4, <1>5, <1>6, <1>7, OvertakenIsStale DEF TypeOK
<1>9. OperationFits' /\ WorkerFits(run)'
  BY <1>1, <1>2, <1>3, <1>4, <1>5, <1>6, <1>7 DEF OperationFits, WorkerFits
<1>10. AmbiguityFits(run)' /\ AdoptionFits(run)'
  BY <1>1, <1>2, <1>3, <1>4, <1>5, <1>6, <1>7
     DEF AmbiguityFits, AdoptionFits, JournalFits, Untouched, Copying, Adopted, At, FilesFit, Result, Synced
<1>11. LoaderFits'
  <2> SUFFICES ASSUME Fresh' PROVE LoaderFits'
    BY DEF LoaderFits
  <2>1. Fresh /\ loader' = loader
    BY OvertakenIsStale
  <2> QED
    BY <1>1, <1>2, <1>3, <1>4, <1>5, <1>6, <1>7, <2>1
       DEF LoaderFits, WorkerFits, AmbiguityFits, AdoptionFits, JournalFits, RecoveryFits, FilesFit,
           Untouched, Copying, Adopted, At, Synced, Unsettled, Result, Part
<1>12. JournalFits'
  BY <1>1, <1>2, <1>3, <1>4, <1>5, <1>6, <1>7
     DEF JournalFits, ChoiceFits, AdoptionFits, OperationFits, Untouched, Copying, Adopted, At, Synced, Unsettled
<1>13. ChoiceFits'
  BY <1>1, <1>2, <1>3, <1>4, <1>5, <1>6, <1>7
     DEF ChoiceFits, JournalFits, AdoptionFits, Untouched, Copying, Adopted, At, Synced
<1>14. FilesFit'
  BY <1>1, <1>2, <1>3, <1>4, <1>5, <1>6, <1>7
     DEF FilesFit, JournalFits, Untouched, Copying, Adopted, At, Synced, Result, Part
<1>15. DoubtFits' /\ RecoveryFits'
  BY <1>1, <1>2, <1>3, <1>4, <1>5, <1>6, <1>7
     DEF DoubtFits, RecoveryFits, JournalFits, AmbiguityFits, FilesFit, Untouched, Copying, Adopted, At, Unsettled, Synced, Result
<1> QED
  BY <1>8, <1>9, <1>10, <1>11, <1>12, <1>13, <1>14, <1>15

\* RecoverJournal keeps the invariant.
LEMMA RecoverJournalKeeps ==
  ASSUME FinalizationInv, RecoverJournal, Overtakes PROVE FinalizationInv'
<1> USE DEF FinalizationInv
<1>1. CASE /\ run.status # "sync_ambiguous" \/ run.agent = NoAgent
           /\ Fails(run) /\ UNCHANGED <<journal, begun>>
  <2>1. op.task = "recover" /\ op.pc = "begin" /\ op.by # "none" /\ op # NoOp
    BY NoOpIsIdle DEF RecoverJournal, At, OperationFits
  <2>2. Ends(run)
    BY <1>1, <2>1 DEF Ends, TypeOK, AdoptionFits, WorkerFits, JournalFits, ChoiceFits, DoubtFits,
                      Copying, At
  <2>3. UNCHANGED <<Files, Elsewhere>>
    BY <1>1 DEF RecoverJournal, Files
  <2> QED
    BY <1>1, <2>2, <2>3, FailureKeeps DEF Files, TypeOK
<1>2. CASE ~(/\ run.status # "sync_ambiguous" \/ run.agent = NoAgent
             /\ Fails(run) /\ UNCHANGED <<journal, begun>>)
  BY <1>2, RecoverJournalGoesOnKeeps DEF RecoverJournal
<1> QED
  BY <1>1, <1>2

\* DiscardDelete, when there is something to delete or nothing at all.
LEMMA DiscardGoesOnKeeps ==
  ASSUME FinalizationInv, At("discard", "begin"), Overtakes,
         GoTo("dropped"), UNCHANGED <<run, alive>>, clean' = (clean /\ op.by = "manager"),
         copies' \in {copies, FALSE}, dropped' = (dropped \/ Droppable), UNCHANGED <<journal, files, begun, Elsewhere>>
  PROVE FinalizationInv'
<1> USE DEF FinalizationInv
<1>1. op.task = "discard" /\ op.pc = "begin" /\ op.by # "none" /\ op \in Op /\ op # NoOp
  BY NoOpIsIdle DEF At, OperationFits, TypeOK
<1>2. /\ op' \in Op /\ op'.pc = "dropped" /\ op'.task = op.task /\ op'.by = op.by
      /\ op'.agent = op.agent
  BY <1>1, OpGoes DEF Steps
<1>3. copies' \in BOOLEAN /\ dropped' \in BOOLEAN /\ clean' \in BOOLEAN
  BY DEF TypeOK, Droppable
<1>4. run' = run /\ journal' = journal /\ alive' = alive /\ files' = files
      /\ begun' = begun /\ up' = up
  BY DEF Elsewhere
<1>5. TypeOK'
  BY <1>1, <1>2, <1>3, <1>4, OvertakenIsStale DEF TypeOK
<1>6. OperationFits' /\ WorkerFits(run)'
  BY <1>1, <1>2, <1>3, <1>4 DEF OperationFits, WorkerFits
<1>7. AmbiguityFits(run)' /\ AdoptionFits(run)'
  BY <1>1, <1>2, <1>3, <1>4
     DEF AmbiguityFits, AdoptionFits, JournalFits, Untouched, Copying, Adopted, At, FilesFit, Result, Synced
<1>8. LoaderFits'
  BY <1>1, <1>2, <1>3, <1>4, LoaderStaysFit
<1>9. JournalFits'
  BY <1>1, <1>2, <1>3, <1>4
     DEF JournalFits, ChoiceFits, AdoptionFits, OperationFits, Untouched, Copying, Adopted, At, Synced, Unsettled
<1>10. ChoiceFits'
  BY <1>1, <1>2, <1>3, <1>4
     DEF ChoiceFits, JournalFits, AdoptionFits, Untouched, Copying, Adopted, At, Synced
<1>11. FilesFit'
  BY <1>1, <1>2, <1>3, <1>4
     DEF FilesFit, JournalFits, Untouched, Copying, Adopted, At, Synced, Result, Part
<1>12. DoubtFits' /\ RecoveryFits'
  BY <1>1, <1>2, <1>3, <1>4
     DEF DoubtFits, RecoveryFits, JournalFits, AmbiguityFits, FilesFit, Untouched, Copying, Adopted, At, Unsettled, Synced, Result
<1> QED
  BY <1>5, <1>6, <1>7, <1>8, <1>9, <1>10, <1>11, <1>12

\* DiscardDelete keeps the invariant.
LEMMA DiscardDeleteKeeps ==
  ASSUME FinalizationInv, DiscardDelete, Overtakes PROVE FinalizationInv'
<1> USE DEF FinalizationInv
<1>1. CASE GoTo("dropped") /\ UNCHANGED <<run, alive>> /\ clean' = (clean /\ op.by = "manager") /\ Droppable
  BY <1>1, DiscardGoesOnKeeps DEF DiscardDelete
<1>2. CASE Fails(run)
  <2>1. op.task = "discard" /\ op.pc = "begin" /\ op.by # "none" /\ op # NoOp
    BY NoOpIsIdle DEF DiscardDelete, At, OperationFits
  <2>2. Ends(run)
    BY <1>2, <2>1 DEF Ends, TypeOK, AdoptionFits, WorkerFits, JournalFits, ChoiceFits, DoubtFits,
                      Copying, At
  <2>3. /\ UNCHANGED <<journal, files, begun, Elsewhere>>
        /\ copies' \in BOOLEAN /\ dropped' \in BOOLEAN
    BY DEF DiscardDelete, Droppable, TypeOK
  <2> QED
    BY <1>2, <2>2, <2>3, FailureKeeps
<1> QED
  BY <1>1, <1>2 DEF DiscardDelete

\* CleanupSave keeps the invariant.
LEMMA CleanupSaveKeeps ==
  ASSUME FinalizationInv, CleanupSave, Overtakes PROVE FinalizationInv'
<1> USE DEF FinalizationInv
<1>1. op.task = "cleanup" /\ op.pc = "finish" /\ op.by # "none"
  BY NoOpIsIdle DEF CleanupSave, At, OperationFits
<1>2. op' = NoOp /\ op' \in Op /\ op'.task = "none" /\ op'.by = "none" /\ op'.pc = "idle"
  BY NoOpIsIdle DEF CleanupSave
<1>3. /\ run' \in Record /\ run'.agent = run.agent /\ run'.status = run.status
      /\ run'.worker = run.worker /\ run'.task = run.task
  BY DEF CleanupSave, Record, TypeOK
<1>4. /\ journal' \in Journal /\ journal'.agent = journal.agent
      /\ journal'.phase = journal.phase \/ (journal.phase \in Synced /\ journal'.phase = "complete")
  BY DEF CleanupSave, CleanupPending, AdoptionFits, Journal, Record, Phases, TypeOK
<1>5. alive' = alive /\ clean' = clean /\ files' = files /\ copies' = copies
      /\ begun' = begun /\ dropped' = dropped /\ up' = up
  BY DEF CleanupSave, Elsewhere
<1>6. TypeOK'
  BY <1>1, <1>2, <1>3, <1>4, <1>5, OvertakenIsStale DEF TypeOK
<1>7. OperationFits' /\ WorkerFits(run)'
  BY <1>1, <1>2, <1>3, <1>4, <1>5 DEF OperationFits, WorkerFits
<1>8. AmbiguityFits(run)' /\ AdoptionFits(run)'
  BY <1>1, <1>2, <1>3, <1>4, <1>5
     DEF AmbiguityFits, AdoptionFits, JournalFits, Untouched, Copying, Adopted, At, FilesFit, Result, Synced
<1>9. LoaderFits'
  <2> SUFFICES ASSUME Fresh' PROVE LoaderFits'
    BY DEF LoaderFits
  <2>1. Fresh /\ loader' = loader
    BY OvertakenIsStale
  <2> QED
    BY <1>1, <1>2, <1>3, <1>4, <1>5, <2>1
       DEF LoaderFits, WorkerFits, AmbiguityFits, AdoptionFits, JournalFits, RecoveryFits, FilesFit,
           Untouched, Copying, Adopted, At, Synced, Unsettled, Result, Part
<1>10. JournalFits'
  BY <1>1, <1>2, <1>3, <1>4, <1>5
     DEF JournalFits, ChoiceFits, AdoptionFits, OperationFits, Untouched, Copying, Adopted, At, Synced, Unsettled
<1>11. ChoiceFits'
  BY <1>1, <1>2, <1>3, <1>4, <1>5
     DEF ChoiceFits, JournalFits, AdoptionFits, Untouched, Copying, Adopted, At, Synced
<1>12. FilesFit'
  BY <1>1, <1>2, <1>3, <1>4, <1>5
     DEF FilesFit, JournalFits, Untouched, Copying, Adopted, At, Synced, Result, Part
<1>13. DoubtFits' /\ RecoveryFits'
  BY <1>1, <1>2, <1>3, <1>4, <1>5
     DEF DoubtFits, RecoveryFits, JournalFits, AmbiguityFits, FilesFit, Untouched, Copying, Adopted, At, Unsettled, Synced, Result
<1> QED
  BY <1>6, <1>7, <1>8, <1>9, <1>10, <1>11, <1>12, <1>13

\* AcceptHere keeps the invariant.
LEMMA AcceptHereKeeps ==
  ASSUME FinalizationInv, NEW a \in Agents, NEW s \in Settings, AcceptHere(a, s), Overtakes PROVE FinalizationInv'
<1> USE DEF FinalizationInv
<1>1. a \in Choices /\ a # NoAgent
  BY FinalizationAssumption DEF Choices, NoAgent
<1>2. op = NoOp /\ op.task = "none" /\ op.pc = "idle" /\ op.by = "none"
  BY RequestFacts, NoOpIsIdle DEF AcceptHere, Request, Recoverable
<1>3. /\ op' \in Op /\ op'.task = "finalize" /\ op'.by = "manager" /\ op'.agent = a
      /\ op'.pc = "begin" /\ ~op'.already
  BY <1>1, OperationFacts DEF AcceptHere, Tasks
<1>4. /\ run' \in Record /\ run'.agent = run.agent /\ run'.status = run.status
      /\ run'.worker = run.worker /\ run'.task = run.task
  BY FinalizationAssumption DEF AcceptHere, Configured, Record, TypeOK
<1>5. journal' = journal /\ alive' = alive /\ clean' = clean /\ files' = files
      /\ copies' = copies /\ begun' = begun /\ dropped' = dropped /\ up' = up
  BY DEF AcceptHere, Files, Processes
<1>6. /\ ~alive \/ run.worker # "busy"
      /\ \/ run.status = "cleanup_failed" /\ run.agent = a
         \/ /\ run.status = "completed" /\ run.agent = NoAgent /\ ~alive
            /\ journal.phase \in {"none", "sync_not_applied"}
  BY DEF AcceptHere, Recoverable, Active
<1>7. TypeOK'
  BY <1>1, <1>2, <1>3, <1>4, <1>5, <1>6, OvertakenIsStale DEF TypeOK
<1>8. OperationFits' /\ WorkerFits(run)'
  BY <1>1, <1>2, <1>3, <1>4, <1>5, <1>6 DEF OperationFits, WorkerFits
<1>9. AmbiguityFits(run)' /\ AdoptionFits(run)'
  BY <1>1, <1>2, <1>3, <1>4, <1>5, <1>6
     DEF AmbiguityFits, AdoptionFits, JournalFits, Untouched, Copying, Adopted, At, FilesFit, Result, Synced
<1>10. LoaderFits'
  BY <1>1, <1>2, <1>3, <1>4, <1>5, <1>6, LoaderStaysFit
<1>11. JournalFits'
  BY <1>1, <1>2, <1>3, <1>4, <1>5, <1>6
     DEF JournalFits, ChoiceFits, AdoptionFits, OperationFits, Untouched, Copying, Adopted, At, Synced, Unsettled
<1>12. ChoiceFits'
  BY <1>1, <1>2, <1>3, <1>4, <1>5, <1>6
     DEF ChoiceFits, JournalFits, AdoptionFits, Untouched, Copying, Adopted, At, Synced
<1>13. FilesFit'
  BY <1>1, <1>2, <1>3, <1>4, <1>5, <1>6
     DEF FilesFit, JournalFits, Untouched, Copying, Adopted, At, Synced, Result, Part
<1>14. DoubtFits' /\ RecoveryFits'
  BY <1>1, <1>2, <1>3, <1>4, <1>5, <1>6
     DEF DoubtFits, RecoveryFits, JournalFits, AmbiguityFits, FilesFit, Untouched, Copying, Adopted, At, Unsettled, Synced, Result
<1> QED
  BY <1>7, <1>8, <1>9, <1>10, <1>11, <1>12, <1>13, <1>14

\* AcceptByWorker keeps the invariant.
LEMMA AcceptByWorkerKeeps ==
  ASSUME FinalizationInv, NEW a \in Agents, NEW s \in Settings, AcceptByWorker(a, s), Overtakes PROVE FinalizationInv'
<1> USE DEF FinalizationInv
<1>1. a \in Choices /\ a # NoAgent
  BY FinalizationAssumption DEF Choices, NoAgent
<1>2. op = NoOp /\ op.task = "none" /\ op.pc = "idle" /\ op.by = "none" /\ alive
  BY RequestFacts, NoOpIsIdle DEF AcceptByWorker, Request, Available
<1>3. /\ op' \in Op /\ op'.task = "finalize" /\ op'.by = "worker" /\ op'.agent = a
      /\ op'.pc = "reserved" /\ ~op'.already
  BY <1>1, OperationFacts DEF AcceptByWorker, Tasks
<1>4. /\ run' \in Record /\ run'.agent = run.agent /\ run'.status = "finalizing"
      /\ run'.worker = "busy" /\ run'.task = "finalize"
  BY <1>1, FinalizationAssumption DEF AcceptByWorker, Busy, Configured, Record, Statuses, Tasks, TypeOK
<1>5. journal' = journal /\ alive' = alive /\ clean' = clean /\ files' = files
      /\ copies' = copies /\ begun' = begun /\ dropped' = dropped /\ up' = up
  BY DEF AcceptByWorker, Files, Processes
<1>6. run.status # "sync_ambiguous"
  BY DEF AcceptByWorker
<1>7. TypeOK'
  BY <1>1, <1>2, <1>3, <1>4, <1>5, <1>6, OvertakenIsStale DEF TypeOK
<1>8. OperationFits' /\ WorkerFits(run)'
  BY <1>1, <1>2, <1>3, <1>4, <1>5, <1>6 DEF OperationFits, WorkerFits
<1>9. AmbiguityFits(run)' /\ AdoptionFits(run)'
  BY <1>1, <1>2, <1>3, <1>4, <1>5, <1>6
     DEF AmbiguityFits, AdoptionFits, JournalFits, Untouched, Copying, Adopted, At, FilesFit, Result, Synced
<1>10. LoaderFits'
  BY <1>1, <1>2, <1>3, <1>4, <1>5, <1>6, LoaderStaysFit
<1>11. JournalFits'
  BY <1>1, <1>2, <1>3, <1>4, <1>5, <1>6
     DEF JournalFits, ChoiceFits, AdoptionFits, OperationFits, Untouched, Copying, Adopted, At, Synced, Unsettled
<1>12. ChoiceFits'
  BY <1>1, <1>2, <1>3, <1>4, <1>5, <1>6
     DEF ChoiceFits, JournalFits, AdoptionFits, Untouched, Copying, Adopted, At, Synced
<1>13. FilesFit'
  BY <1>1, <1>2, <1>3, <1>4, <1>5, <1>6
     DEF FilesFit, JournalFits, Untouched, Copying, Adopted, At, Synced, Result, Part
<1>14. DoubtFits' /\ RecoveryFits'
  BY <1>1, <1>2, <1>3, <1>4, <1>5, <1>6
     DEF DoubtFits, RecoveryFits, JournalFits, AmbiguityFits, FilesFit, Untouched, Copying, Adopted, At, Unsettled, Synced, Result
<1> QED
  BY <1>7, <1>8, <1>9, <1>10, <1>11, <1>12, <1>13, <1>14

\* AcceptRefused keeps the invariant.
LEMMA AcceptRefusedKeeps ==
  ASSUME FinalizationInv, NEW a \in Agents, NEW s \in Settings, AcceptRefused(a, s), Overtakes PROVE FinalizationInv'
<1> USE DEF FinalizationInv
<1>1. /\ run' \in Record /\ run'.agent = run.agent /\ run'.status = run.status
      /\ run'.worker = run.worker /\ run'.task = run.task
  BY FinalizationAssumption DEF AcceptRefused, Configured, Record, TypeOK
<1>2. op' = op /\ journal' = journal /\ alive' = alive /\ clean' = clean
      /\ files' = files /\ copies' = copies /\ begun' = begun /\ dropped' = dropped /\ up' = up
  BY DEF AcceptRefused, Files, Processes
<1>3. TypeOK'
  BY <1>1, <1>2, OvertakenIsStale DEF TypeOK
<1>4. OperationFits' /\ WorkerFits(run)'
  BY <1>1, <1>2 DEF OperationFits, WorkerFits
<1>5. AmbiguityFits(run)' /\ AdoptionFits(run)'
  BY <1>1, <1>2
     DEF AmbiguityFits, AdoptionFits, JournalFits, Untouched, Copying, Adopted, At, FilesFit, Result, Synced
<1>6. LoaderFits'
  BY <1>1, <1>2, LoaderStaysFit
<1>7. JournalFits'
  BY <1>1, <1>2
     DEF JournalFits, ChoiceFits, AdoptionFits, OperationFits, Untouched, Copying, Adopted, At, Synced, Unsettled
<1>8. ChoiceFits'
  BY <1>1, <1>2
     DEF ChoiceFits, JournalFits, AdoptionFits, Untouched, Copying, Adopted, At, Synced
<1>9. FilesFit'
  BY <1>1, <1>2
     DEF FilesFit, JournalFits, Untouched, Copying, Adopted, At, Synced, Result, Part
<1>10. DoubtFits' /\ RecoveryFits'
  BY <1>1, <1>2
     DEF DoubtFits, RecoveryFits, JournalFits, AmbiguityFits, FilesFit, Untouched, Copying, Adopted, At, Unsettled, Synced, Result
<1> QED
  BY <1>3, <1>4, <1>5, <1>6, <1>7, <1>8, <1>9, <1>10

\* StopFirst keeps the invariant.
LEMMA StopFirstKeeps ==
  ASSUME FinalizationInv, StopFirst, Overtakes PROVE FinalizationInv'
<1> USE DEF FinalizationInv
<1>1. /\ run' \in Record /\ run'.agent = run.agent /\ run'.status = "stopping"
      /\ run'.worker = run.worker /\ run'.task = run.task
  BY DEF StopFirst, Record, Statuses, TypeOK
<1>2. op' = op /\ journal' = journal /\ alive' = alive /\ clean' = clean
      /\ files' = files /\ copies' = copies /\ begun' = begun /\ dropped' = dropped /\ up' = up
  BY DEF StopFirst, Files, Processes
<1>3. run.task = "agents" /\ run.status = "running" /\ alive /\ op.by # "manager"
  BY DEF StopFirst, Active, Request
<1>4. op = NoOp /\ op.task = "none" /\ op.pc = "idle" /\ op.by = "none"
  BY <1>3, RequestFacts, NoOpIsIdle DEF StopFirst, Request, OperationFits
<1>5. TypeOK'
  BY <1>1, <1>2, <1>3, <1>4, OvertakenIsStale DEF TypeOK
<1>6. OperationFits' /\ WorkerFits(run)'
  BY <1>1, <1>2, <1>3, <1>4 DEF OperationFits, WorkerFits
<1>7. AmbiguityFits(run)' /\ AdoptionFits(run)'
  BY <1>1, <1>2, <1>3, <1>4
     DEF AmbiguityFits, AdoptionFits, JournalFits, Untouched, Copying, Adopted, At, FilesFit, Result, Synced
<1>8. LoaderFits'
  BY <1>1, <1>2, <1>3, <1>4, LoaderStaysFit
<1>9. JournalFits'
  BY <1>1, <1>2, <1>3, <1>4
     DEF JournalFits, ChoiceFits, AdoptionFits, OperationFits, Untouched, Copying, Adopted, At, Synced, Unsettled
<1>10. ChoiceFits'
  BY <1>1, <1>2, <1>3, <1>4
     DEF ChoiceFits, JournalFits, AdoptionFits, Untouched, Copying, Adopted, At, Synced
<1>11. FilesFit'
  BY <1>1, <1>2, <1>3, <1>4
     DEF FilesFit, JournalFits, Untouched, Copying, Adopted, At, Synced, Result, Part
<1>12. DoubtFits' /\ RecoveryFits'
  BY <1>1, <1>2, <1>3, <1>4
     DEF DoubtFits, RecoveryFits, JournalFits, AmbiguityFits, FilesFit, Untouched, Copying, Adopted, At, Unsettled, Synced, Result
<1> QED
  BY <1>5, <1>6, <1>7, <1>8, <1>9, <1>10, <1>11, <1>12

\* Recover keeps the invariant.
LEMMA RecoverKeeps ==
  ASSUME FinalizationInv, NEW applied \in BOOLEAN, NEW verified \in BOOLEAN, Recover(applied, verified),
         Overtakes PROVE FinalizationInv'
<1> USE DEF FinalizationInv
<1>1. op = NoOp /\ op.task = "none" /\ op.pc = "idle" /\ op.by = "none"
  BY RequestFacts, NoOpIsIdle DEF Recover, Request, Available, WorkerFits, Active
<1>2. run.agent \in Choices /\ run.agent # NoAgent
  BY DEF Recover, TypeOK, Record
<1>3. run.status = "sync_ambiguous" /\ (applied <=> files = Result(run.agent)) /\ journal.agent = run.agent
  BY DEF Recover, AmbiguityFits
<1>4. /\ op' \in Op /\ op'.task = "recover" /\ op'.agent = run.agent /\ op'.applied = applied
      /\ op'.by = (IF Available THEN "worker" ELSE "manager")
      /\ op'.pc = (IF Available THEN "reserved" ELSE "begin")
  BY <1>2, OperationFacts DEF Recover, Tasks, Op
<1>5. /\ run' \in Record /\ run'.agent = run.agent /\ run'.status = run.status
      /\ IF Available THEN run'.worker = "busy" /\ run'.task = "recover" ELSE run' = run
  BY DEF Recover, Busy, Record, Tasks, TypeOK
<1>6. Available => alive
  BY DEF Available
<1>7. ~Available => ~alive
  BY DEF Available, WorkerFits
<1>8. journal' = journal /\ alive' = alive /\ clean' = clean /\ files' = files
      /\ copies' = copies /\ begun' = begun /\ dropped' = dropped /\ up' = up
  BY DEF Recover, Files, Processes
<1>9. TypeOK'
  BY <1>1, <1>2, <1>3, <1>4, <1>5, <1>6, <1>7, <1>8, OvertakenIsStale DEF TypeOK
<1>10. OperationFits' /\ WorkerFits(run)'
  BY <1>1, <1>2, <1>3, <1>4, <1>5, <1>6, <1>7, <1>8 DEF OperationFits, WorkerFits
<1>11. AmbiguityFits(run)' /\ AdoptionFits(run)'
  BY <1>1, <1>2, <1>3, <1>4, <1>5, <1>6, <1>7, <1>8
     DEF AmbiguityFits, AdoptionFits, JournalFits, Untouched, Copying, Adopted, At, FilesFit, Result, Synced
<1>12. LoaderFits'
  BY <1>1, <1>2, <1>3, <1>4, <1>5, <1>6, <1>7, <1>8, LoaderStaysFit
<1>13. JournalFits'
  BY <1>1, <1>2, <1>3, <1>4, <1>5, <1>6, <1>7, <1>8
     DEF JournalFits, ChoiceFits, AdoptionFits, OperationFits, Untouched, Copying, Adopted, At, Synced, Unsettled
<1>14. ChoiceFits'
  BY <1>1, <1>2, <1>3, <1>4, <1>5, <1>6, <1>7, <1>8
     DEF ChoiceFits, JournalFits, AdoptionFits, Untouched, Copying, Adopted, At, Synced
<1>15. FilesFit'
  BY <1>1, <1>2, <1>3, <1>4, <1>5, <1>6, <1>7, <1>8
     DEF FilesFit, JournalFits, Untouched, Copying, Adopted, At, Synced, Result, Part
<1>16. DoubtFits' /\ RecoveryFits'
  BY <1>1, <1>2, <1>3, <1>4, <1>5, <1>6, <1>7, <1>8
     DEF DoubtFits, RecoveryFits, JournalFits, AmbiguityFits, FilesFit, Untouched, Copying, Adopted, At, Unsettled, Synced, Result
<1> QED
  BY <1>9, <1>10, <1>11, <1>12, <1>13, <1>14, <1>15, <1>16

\* Discard keeps the invariant.
LEMMA DiscardKeeps ==
  ASSUME FinalizationInv, Discard, Overtakes PROVE FinalizationInv'
<1> USE DEF FinalizationInv
<1>1. op = NoOp /\ op.task = "none" /\ op.pc = "idle" /\ op.by = "none"
  BY RequestFacts, NoOpIsIdle DEF Discard, Request
<1>2. run.agent = NoAgent /\ run.status # "sync_ambiguous"
  BY DEF Discard, Droppable, AdoptionFits
<1>3. /\ op' \in Op /\ op'.task = "discard" /\ op'.agent = NoAgent
      /\ op'.by = (IF Available THEN "worker" ELSE "manager")
      /\ op'.pc = (IF Available THEN "reserved" ELSE "begin")
  BY NoAgentIsChoice, OperationFacts DEF Discard, Tasks, Op
<1>4. /\ run' \in Record /\ run'.agent = run.agent /\ run'.status = run.status
      /\ IF Available THEN run'.worker = "busy" /\ run'.task = "discard" ELSE run' = run
  BY DEF Discard, Busy, Record, Tasks, TypeOK
<1>5. Available => alive
  BY DEF Available
<1>6. ~Available => ~alive
  BY DEF Available, WorkerFits
<1>7. journal' = journal /\ alive' = alive /\ clean' = clean /\ files' = files
      /\ copies' = copies /\ begun' = begun /\ dropped' = dropped /\ up' = up
  BY DEF Discard, Files, Processes
<1>8. TypeOK'
  BY <1>1, <1>2, <1>3, <1>4, <1>5, <1>6, <1>7, OvertakenIsStale DEF TypeOK
<1>9. OperationFits' /\ WorkerFits(run)'
  BY <1>1, <1>2, <1>3, <1>4, <1>5, <1>6, <1>7 DEF OperationFits, WorkerFits
<1>10. AmbiguityFits(run)' /\ AdoptionFits(run)'
  BY <1>1, <1>2, <1>3, <1>4, <1>5, <1>6, <1>7
     DEF AmbiguityFits, AdoptionFits, JournalFits, Untouched, Copying, Adopted, At, FilesFit, Result, Synced
<1>11. LoaderFits'
  BY <1>1, <1>2, <1>3, <1>4, <1>5, <1>6, <1>7, LoaderStaysFit
<1>12. JournalFits'
  BY <1>1, <1>2, <1>3, <1>4, <1>5, <1>6, <1>7
     DEF JournalFits, ChoiceFits, AdoptionFits, OperationFits, Untouched, Copying, Adopted, At, Synced, Unsettled
<1>13. ChoiceFits'
  BY <1>1, <1>2, <1>3, <1>4, <1>5, <1>6, <1>7
     DEF ChoiceFits, JournalFits, AdoptionFits, Untouched, Copying, Adopted, At, Synced
<1>14. FilesFit'
  BY <1>1, <1>2, <1>3, <1>4, <1>5, <1>6, <1>7
     DEF FilesFit, JournalFits, Untouched, Copying, Adopted, At, Synced, Result, Part
<1>15. DoubtFits' /\ RecoveryFits'
  BY <1>1, <1>2, <1>3, <1>4, <1>5, <1>6, <1>7
     DEF DoubtFits, RecoveryFits, JournalFits, AmbiguityFits, FilesFit, Untouched, Copying, Adopted, At, Unsettled, Synced, Result
<1> QED
  BY <1>8, <1>9, <1>10, <1>11, <1>12, <1>13, <1>14, <1>15

\* Enqueue keeps the invariant.
LEMMA EnqueueKeeps ==
  ASSUME FinalizationInv, Enqueue PROVE FinalizationInv'
<1> USE DEF FinalizationInv
<1>1. op.pc = "reserved" /\ op.by = "worker" /\ op # NoOp
  BY NoOpIsIdle DEF Enqueue, OperationFits
<1>2. /\ op' \in Op
      /\ IF alive THEN /\ op'.pc = "begin" /\ op'.task = op.task /\ op'.by = op.by
                       /\ op'.agent = op.agent /\ op'.applied = op.applied
         ELSE op' = NoOp /\ op'.task = "none" /\ op'.by = "none" /\ op'.pc = "idle"
  BY NoOpIsIdle DEF Enqueue, Op, Steps, TypeOK
<1>3. clean' \in BOOLEAN /\ loader' = loader /\ Overtakes
  BY DEF Enqueue, Overtakes, TypeOK
<1>4. run' = run /\ journal' = journal /\ alive' = alive /\ files' = files
      /\ copies' = copies /\ begun' = begun /\ dropped' = dropped /\ up' = up
  BY DEF Enqueue, Files
<1>5. TypeOK'
  BY <1>1, <1>2, <1>3, <1>4 DEF TypeOK
<1>6. OperationFits' /\ WorkerFits(run)'
  BY <1>1, <1>2, <1>3, <1>4 DEF OperationFits, WorkerFits
<1>7. AmbiguityFits(run)' /\ AdoptionFits(run)'
  BY <1>1, <1>2, <1>3, <1>4
     DEF AmbiguityFits, AdoptionFits, JournalFits, Untouched, Copying, Adopted, At, FilesFit, Result, Synced
<1>8. LoaderFits'
  BY <1>1, <1>2, <1>3, <1>4, LoaderStaysFit
<1>9. JournalFits'
  BY <1>1, <1>2, <1>3, <1>4
     DEF JournalFits, ChoiceFits, AdoptionFits, OperationFits, Untouched, Copying, Adopted, At, Synced, Unsettled
<1>10. ChoiceFits'
  BY <1>1, <1>2, <1>3, <1>4
     DEF ChoiceFits, JournalFits, AdoptionFits, Untouched, Copying, Adopted, At, Synced
<1>11. FilesFit'
  BY <1>1, <1>2, <1>3, <1>4
     DEF FilesFit, JournalFits, Untouched, Copying, Adopted, At, Synced, Result, Part
<1>12. DoubtFits' /\ RecoveryFits'
  BY <1>1, <1>2, <1>3, <1>4
     DEF DoubtFits, RecoveryFits, JournalFits, AmbiguityFits, FilesFit, Untouched, Copying, Adopted, At, Unsettled, Synced, Result
<1> QED
  BY <1>5, <1>6, <1>7, <1>8, <1>9, <1>10, <1>11, <1>12

\* RetryCleanup keeps the invariant.
LEMMA RetryCleanupKeeps ==
  ASSUME FinalizationInv, RetryCleanup PROVE FinalizationInv'
<1> USE DEF FinalizationInv
<1>1. op = NoOp /\ op.task = "none" /\ op.pc = "idle" /\ op.by = "none"
  BY RequestFacts, NoOpIsIdle DEF RetryCleanup
<1>2. run.status = "finalized" /\ journal.phase \in Synced
  BY DEF RetryCleanup, CleanupPending, AdoptionFits
<1>3. ~Active /\ run.agent \in Choices
  BY DEF RetryCleanup, TypeOK, Record
<1>4. /\ op' \in Op /\ op'.task = "cleanup" /\ op'.by = "manager" /\ op'.agent = run.agent
      /\ op'.pc = "begin" /\ ~op'.already
  BY <1>3, OperationFacts DEF RetryCleanup, Tasks
<1>5. loader' = loader /\ Overtakes
  BY DEF RetryCleanup, Overtakes
<1>6. ~(alive /\ run.worker = "busy")
  BY <1>3 DEF Active
<1>7. run' = run /\ journal' = journal /\ alive' = alive /\ clean' = clean
      /\ files' = files /\ copies' = copies /\ begun' = begun /\ dropped' = dropped /\ up' = up
  BY DEF RetryCleanup, Files, Processes
<1>8. TypeOK'
  BY <1>1, <1>2, <1>3, <1>4, <1>5, <1>6, <1>7 DEF TypeOK
<1>9. OperationFits' /\ WorkerFits(run)'
  BY <1>1, <1>2, <1>3, <1>4, <1>5, <1>6, <1>7 DEF OperationFits, WorkerFits
<1>10. AmbiguityFits(run)' /\ AdoptionFits(run)'
  BY <1>1, <1>2, <1>3, <1>4, <1>5, <1>6, <1>7
     DEF AmbiguityFits, AdoptionFits, JournalFits, Untouched, Copying, Adopted, At, FilesFit, Result, Synced
<1>11. LoaderFits'
  BY <1>1, <1>2, <1>3, <1>4, <1>5, <1>6, <1>7, LoaderStaysFit
<1>12. JournalFits'
  BY <1>1, <1>2, <1>3, <1>4, <1>5, <1>6, <1>7
     DEF JournalFits, ChoiceFits, AdoptionFits, OperationFits, Untouched, Copying, Adopted, At, Synced, Unsettled
<1>13. ChoiceFits'
  BY <1>1, <1>2, <1>3, <1>4, <1>5, <1>6, <1>7
     DEF ChoiceFits, JournalFits, AdoptionFits, Untouched, Copying, Adopted, At, Synced
<1>14. FilesFit'
  BY <1>1, <1>2, <1>3, <1>4, <1>5, <1>6, <1>7
     DEF FilesFit, JournalFits, Untouched, Copying, Adopted, At, Synced, Result, Part
<1>15. DoubtFits' /\ RecoveryFits'
  BY <1>1, <1>2, <1>3, <1>4, <1>5, <1>6, <1>7
     DEF DoubtFits, RecoveryFits, JournalFits, AmbiguityFits, FilesFit, Untouched, Copying, Adopted, At, Unsettled, Synced, Result
<1> QED
  BY <1>8, <1>9, <1>10, <1>11, <1>12, <1>13, <1>14, <1>15

\* BatchEnds keeps the invariant.
LEMMA BatchEndsKeeps ==
  ASSUME FinalizationInv, BatchEnds PROVE FinalizationInv'
<1> USE DEF FinalizationInv
<1>1. run.task = "agents" /\ run.status \in {"running", "stopping"} /\ alive
  BY DEF BatchEnds
<1>2. op = NoOp /\ op.task = "none" /\ op.pc = "idle" /\ op.by = "none"
  BY <1>1, NoOpIsIdle DEF OperationFits, WorkerFits, TypeOK, Op
<1>3. /\ run' \in Record /\ run'.agent = run.agent /\ run'.status = "completed"
      /\ run'.worker = "idle" /\ run'.task = "none"
  BY DEF BatchEnds, Record, Statuses, Tasks, TypeOK
<1>4. clean' \in BOOLEAN /\ Overtakes
  BY DEF BatchEnds
<1>5. op' = op /\ journal' = journal /\ alive' = alive /\ files' = files
      /\ copies' = copies /\ begun' = begun /\ dropped' = dropped /\ up' = up
  BY DEF BatchEnds, Files, Elsewhere
<1>6. TypeOK'
  BY <1>1, <1>2, <1>3, <1>4, <1>5, OvertakenIsStale DEF TypeOK
<1>7. OperationFits' /\ WorkerFits(run)'
  BY <1>1, <1>2, <1>3, <1>4, <1>5 DEF OperationFits, WorkerFits
<1>8. AmbiguityFits(run)' /\ AdoptionFits(run)'
  BY <1>1, <1>2, <1>3, <1>4, <1>5
     DEF AmbiguityFits, AdoptionFits, JournalFits, Untouched, Copying, Adopted, At, FilesFit, Result, Synced
<1>9. LoaderFits'
  BY <1>1, <1>2, <1>3, <1>4, <1>5, LoaderStaysFit
<1>10. JournalFits'
  BY <1>1, <1>2, <1>3, <1>4, <1>5
     DEF JournalFits, ChoiceFits, AdoptionFits, OperationFits, Untouched, Copying, Adopted, At, Synced, Unsettled
<1>11. ChoiceFits'
  BY <1>1, <1>2, <1>3, <1>4, <1>5
     DEF ChoiceFits, JournalFits, AdoptionFits, Untouched, Copying, Adopted, At, Synced
<1>12. FilesFit'
  BY <1>1, <1>2, <1>3, <1>4, <1>5
     DEF FilesFit, JournalFits, Untouched, Copying, Adopted, At, Synced, Result, Part
<1>13. DoubtFits' /\ RecoveryFits'
  BY <1>1, <1>2, <1>3, <1>4, <1>5
     DEF DoubtFits, RecoveryFits, JournalFits, AmbiguityFits, FilesFit, Untouched, Copying, Adopted, At, Unsettled, Synced, Result
<1> QED
  BY <1>6, <1>7, <1>8, <1>9, <1>10, <1>11, <1>12, <1>13

\* WorkerDies keeps the invariant.
LEMMA WorkerDiesKeeps ==
  ASSUME FinalizationInv, WorkerDies PROVE FinalizationInv'
<1> USE DEF FinalizationInv
<1>1. alive /\ ~alive' /\ alive' \in BOOLEAN /\ clean' \in BOOLEAN
  BY DEF WorkerDies, TypeOK
<1>2. op' \in Op /\ (op' = op \/ (op' = NoOp /\ op.by = "worker" /\ op.pc # "reserved" /\ op'.task = "none" /\ op'.by = "none" /\ op'.pc = "idle"))
  BY NoOpIsIdle DEF WorkerDies, TypeOK
<1>3. op.by = "worker" /\ op.pc # "reserved" => op' = NoOp /\ op'.by = "none"
  BY NoOpIsIdle DEF WorkerDies
<1>4. loader' = loader /\ run' = run /\ Overtakes
  BY DEF WorkerDies, Overtakes
<1>5. journal' = journal /\ files' = files /\ copies' = copies /\ begun' = begun
      /\ dropped' = dropped /\ up' = up
  BY DEF WorkerDies, Files
<1>6. TypeOK'
  BY <1>1, <1>2, <1>3, <1>4, <1>5 DEF TypeOK
<1>7. OperationFits' /\ WorkerFits(run)'
  BY <1>1, <1>2, <1>3, <1>4, <1>5 DEF OperationFits, WorkerFits
<1>8. AmbiguityFits(run)' /\ AdoptionFits(run)'
  BY <1>1, <1>2, <1>3, <1>4, <1>5
     DEF AmbiguityFits, AdoptionFits, JournalFits, Untouched, Copying, Adopted, At, FilesFit, Result, Synced
<1>9. LoaderFits'
  BY <1>1, <1>2, <1>3, <1>4, <1>5, LoaderStaysFit
<1>10. JournalFits'
  BY <1>1, <1>2, <1>3, <1>4, <1>5
     DEF JournalFits, ChoiceFits, AdoptionFits, OperationFits, Untouched, Copying, Adopted, At, Synced, Unsettled
<1>11. ChoiceFits'
  BY <1>1, <1>2, <1>3, <1>4, <1>5
     DEF ChoiceFits, JournalFits, AdoptionFits, Untouched, Copying, Adopted, At, Synced
<1>12. FilesFit'
  BY <1>1, <1>2, <1>3, <1>4, <1>5
     DEF FilesFit, JournalFits, Untouched, Copying, Adopted, At, Synced, Result, Part
<1>13. DoubtFits' /\ RecoveryFits'
  BY <1>1, <1>2, <1>3, <1>4, <1>5
     DEF DoubtFits, RecoveryFits, JournalFits, AmbiguityFits, FilesFit, Untouched, Copying, Adopted, At, Unsettled, Synced, Result
<1> QED
  BY <1>6, <1>7, <1>8, <1>9, <1>10, <1>11, <1>12, <1>13

\* A record in which the worker's death was noticed keeps its agent.
LEMMA NoticedFacts ==
  ASSUME NEW r \in Record
  PROVE  /\ Noticed(r) \in Record /\ Noticed(r).agent = r.agent
         /\ Noticed(r).worker \in {"stopped", "crashed"} /\ Noticed(r).task = "none"
         /\ \/ Noticed(r).status = r.status
            \/ r.status \in {"running", "stopping", "finalizing"} /\ Noticed(r).status = "interrupted"
<1> DEFINE st == IF r.status \in {"running", "stopping", "finalizing"} THEN "interrupted" ELSE r.status
<1>1. st \in Statuses /\ "none" \in Tasks
  BY DEF Record, Statuses, Tasks
<1>2. Noticed(r) = IF r.status \in Final \/ Recoverable
                   THEN [r EXCEPT !.worker = "stopped", !.task = "none"]
                   ELSE [r EXCEPT !.worker = "crashed", !.task = "none", !.status = st]
  BY DEF Noticed, Record
<1> HIDE DEF st
<1>3. \/ Noticed(r) = [r EXCEPT !.worker = "stopped", !.task = "none"]
      \/ Noticed(r) = [r EXCEPT !.worker = "crashed", !.task = "none", !.status = st]
  BY <1>2
<1>4. /\ Noticed(r) \in Record /\ Noticed(r).agent = r.agent
      /\ Noticed(r).worker \in {"stopped", "crashed"} /\ Noticed(r).task = "none"
      /\ Noticed(r).status = r.status \/ Noticed(r).status = st
  BY <1>1, <1>3 DEF Record
<1> QED
  BY <1>4 DEF st

\* What the journal makes of a record.
LEMMA ReclassifiedFacts ==
  ASSUME TypeOK, NEW r \in Record
  PROVE  LET new == Reclassified(r) IN
         /\ new \in Record /\ new.worker = r.worker /\ new.task = r.task
         /\ IF journal.phase \in {"sync_started"} \cup Synced
            THEN /\ new.agent = journal.agent
                 /\ new.status = IF journal.phase = "sync_started" THEN "sync_ambiguous"
                                 ELSE IF journal.phase = "sync_complete" THEN "cleanup_failed"
                                 ELSE "finalized"
            ELSE new = r
<1>1. /\ journal.agent \in Choices /\ journal.synced \in BOOLEAN /\ journal.deleted \in BOOLEAN
      /\ journal.phase \in Phases
  BY DEF TypeOK, Journal
<1>2. {"sync_ambiguous", "cleanup_failed", "finalized"} \subseteq Statuses
  BY DEF Statuses
<1>3. CASE journal.phase = "sync_started"
  <2>1. Reclassified(r) = [r EXCEPT !.agent = journal.agent, !.status = "sync_ambiguous"]
    BY <1>3 DEF Reclassified
  <2> QED
    BY <1>1, <1>2, <1>3, <2>1 DEF Record
<1>4. CASE journal.phase = "sync_complete"
  <2>1. Reclassified(r) = [r EXCEPT !.agent = journal.agent, !.synced = journal.synced,
                                    !.status = "cleanup_failed"]
    BY <1>4 DEF Reclassified
  <2> QED
    BY <1>1, <1>2, <1>4, <2>1 DEF Record, Synced
<1>5. CASE journal.phase = "cleanup_started"
  <2>1. Reclassified(r) = [r EXCEPT !.agent = journal.agent, !.synced = journal.synced,
                                    !.status = "finalized"]
    BY <1>5 DEF Reclassified
  <2> QED
    BY <1>1, <1>2, <1>5, <2>1 DEF Record, Synced
<1>6. CASE journal.phase = "complete"
  <2>1. Reclassified(r) = [r EXCEPT !.agent = journal.agent, !.synced = journal.synced,
                                    !.status = "finalized", !.deleted = journal.deleted]
    BY <1>6 DEF Reclassified
  <2> QED
    BY <1>1, <1>2, <1>6, <2>1 DEF Record, Synced
<1>7. CASE journal.phase \in {"none", "sync_not_applied"}
  <2>1. Reclassified(r) = r
    BY <1>7 DEF Reclassified
  <2> QED
    BY <1>7, <2>1 DEF Synced
<1> QED
  BY <1>1, <1>3, <1>4, <1>5, <1>6, <1>7 DEF Phases

\* A manager that is constructed finds a record that it may save.
LEMMA LoadedFits ==
  ASSUME FinalizationInv, loader'.found = Loaded, loader' \in Loading,
         UNCHANGED <<run, op, Files, alive>>
  PROVE  LoaderFits'
<1> USE DEF FinalizationInv
<1> DEFINE r == IF Unnoticed THEN Noticed(run) ELSE run
<1>1. /\ r \in Record /\ r.agent = run.agent
      /\ alive => r = run
      /\ \/ r.status = run.status
         \/ ~alive /\ run.status \in {"running", "stopping", "finalizing"} /\ r.status = "interrupted"
  BY NoticedFacts DEF Unnoticed, TypeOK
<1> HIDE DEF r
<1>2. Loaded = Reclassified(r)
  BY DEF Loaded, r
<1>3. /\ Loaded \in Record /\ Loaded.worker = r.worker /\ Loaded.task = r.task
      /\ IF journal.phase \in {"sync_started"} \cup Synced
         THEN /\ Loaded.agent = journal.agent
              /\ Loaded.status = IF journal.phase = "sync_started" THEN "sync_ambiguous"
                                 ELSE IF journal.phase = "sync_complete" THEN "cleanup_failed"
                                 ELSE "finalized"
         ELSE Loaded = r
  BY <1>1, <1>2, ReclassifiedFacts
<1> HIDE DEF Loaded
<1>4. loader'.found = Loaded /\ run' = run /\ journal' = journal /\ files' = files /\ alive' = alive
  BY DEF Files
<1>5. WorkerFits(Loaded) /\ AmbiguityFits(Loaded) /\ AdoptionFits(Loaded)
  BY <1>1, <1>3 DEF WorkerFits, AmbiguityFits, AdoptionFits, JournalFits, Synced
<1>6. WorkerFits(loader.found)' /\ AmbiguityFits(loader.found)' /\ AdoptionFits(loader.found)'
  BY <1>4, <1>5 DEF WorkerFits, AmbiguityFits, AdoptionFits, Result
<1>7. /\ alive => Loaded.worker = run.worker /\ Loaded.task = run.task
      /\ \/ Loaded.agent = run.agent
         \/ Loaded.agent = journal.agent /\ journal.phase \in {"sync_started"} \cup Synced
      /\ Loaded.status = "sync_ambiguous" =>
           run.status = "sync_ambiguous" \/ journal.phase \in {"sync_started"} \cup Synced
      /\ run.status = "sync_ambiguous" =>
           Loaded.status = "sync_ambiguous" \/ journal.phase \in Synced
      /\ run.status \in Unsettled => Loaded.status \in Unsettled \/ journal.phase \in Synced
  BY <1>1, <1>3 DEF Unsettled
<1> QED
  BY <1>4, <1>6, <1>7 DEF LoaderFits

\* Notice keeps the invariant.
LEMMA NoticeKeeps ==
  ASSUME FinalizationInv, Notice PROVE FinalizationInv'
<1> USE DEF FinalizationInv
<1>1. ~alive /\ Overtakes
  BY DEF Notice, Unnoticed
<1>2. /\ run' \in Record /\ run'.agent = run.agent /\ run'.worker \in {"stopped", "crashed"}
      /\ run'.task = "none"
      /\ \/ run'.status = run.status
         \/ run.status \in {"running", "stopping", "finalizing"} /\ run'.status = "interrupted"
  BY NoticedFacts DEF Notice, TypeOK
<1>3. op' = op /\ journal' = journal /\ alive' = alive /\ clean' = clean
      /\ files' = files /\ copies' = copies /\ begun' = begun /\ dropped' = dropped /\ up' = up
  BY DEF Notice, Files, Processes
<1>4. TypeOK'
  BY <1>1, <1>2, <1>3, OvertakenIsStale DEF TypeOK
<1>5. OperationFits' /\ WorkerFits(run)'
  BY <1>1, <1>2, <1>3 DEF OperationFits, WorkerFits
<1>6. AmbiguityFits(run)' /\ AdoptionFits(run)'
  BY <1>1, <1>2, <1>3
     DEF AmbiguityFits, AdoptionFits, JournalFits, Untouched, Copying, Adopted, At, FilesFit, Result, Synced
<1>7. LoaderFits'
  BY <1>1, <1>2, <1>3, LoaderStaysFit
<1>8. JournalFits'
  BY <1>1, <1>2, <1>3
     DEF JournalFits, ChoiceFits, AdoptionFits, OperationFits, Untouched, Copying, Adopted, At, Synced, Unsettled
<1>9. ChoiceFits'
  BY <1>1, <1>2, <1>3
     DEF ChoiceFits, JournalFits, AdoptionFits, Untouched, Copying, Adopted, At, Synced
<1>10. FilesFit'
  BY <1>1, <1>2, <1>3
     DEF FilesFit, JournalFits, Untouched, Copying, Adopted, At, Synced, Result, Part
<1>11. DoubtFits' /\ RecoveryFits'
  BY <1>1, <1>2, <1>3
     DEF DoubtFits, RecoveryFits, JournalFits, AmbiguityFits, FilesFit, Untouched, Copying, Adopted, At, Unsettled, Synced, Result
<1> QED
  BY <1>4, <1>5, <1>6, <1>7, <1>8, <1>9, <1>10, <1>11

\* Crash keeps the invariant.
LEMMA CrashKeeps ==
  ASSUME FinalizationInv, Crash PROVE FinalizationInv'
<1> USE DEF FinalizationInv
<1>1. up' \in BOOLEAN
  BY DEF Crash
<1>2. op' \in Op /\ (op' = op \/ (op' = NoOp /\ (op.by = "manager" \/ op.pc = "reserved") /\ op'.task = "none" /\ op'.by = "none" /\ op'.pc = "idle"))
  BY NoOpIsIdle DEF Crash, TypeOK
<1>3. loader' = loader /\ run' = run /\ Overtakes
  BY DEF Crash, Overtakes
<1>4. journal' = journal /\ alive' = alive /\ clean' = clean /\ files' = files
      /\ copies' = copies /\ begun' = begun /\ dropped' = dropped
  BY DEF Crash, Files
<1>5. TypeOK'
  BY <1>1, <1>2, <1>3, <1>4 DEF TypeOK
<1>6. OperationFits' /\ WorkerFits(run)'
  BY <1>1, <1>2, <1>3, <1>4 DEF OperationFits, WorkerFits
<1>7. AmbiguityFits(run)' /\ AdoptionFits(run)'
  BY <1>1, <1>2, <1>3, <1>4
     DEF AmbiguityFits, AdoptionFits, JournalFits, Untouched, Copying, Adopted, At, FilesFit, Result, Synced
<1>8. LoaderFits'
  BY <1>1, <1>2, <1>3, <1>4, LoaderStaysFit
<1>9. JournalFits'
  BY <1>1, <1>2, <1>3, <1>4
     DEF JournalFits, ChoiceFits, AdoptionFits, OperationFits, Untouched, Copying, Adopted, At, Synced, Unsettled
<1>10. ChoiceFits'
  BY <1>1, <1>2, <1>3, <1>4
     DEF ChoiceFits, JournalFits, AdoptionFits, Untouched, Copying, Adopted, At, Synced
<1>11. FilesFit'
  BY <1>1, <1>2, <1>3, <1>4
     DEF FilesFit, JournalFits, Untouched, Copying, Adopted, At, Synced, Result, Part
<1>12. DoubtFits' /\ RecoveryFits'
  BY <1>1, <1>2, <1>3, <1>4
     DEF DoubtFits, RecoveryFits, JournalFits, AmbiguityFits, FilesFit, Untouched, Copying, Adopted, At, Unsettled, Synced, Result
<1> QED
  BY <1>5, <1>6, <1>7, <1>8, <1>9, <1>10, <1>11, <1>12

\* A manager that starts to load reads the record as it is.
LEMMA LoaderStartsKeeps ==
  ASSUME FinalizationInv, loader' \in Loading, loader'.found = Loaded,
         UNCHANGED <<run, op, Files, alive, clean, up>>
  PROVE  FinalizationInv'
<1> USE DEF FinalizationInv
<1>1. LoaderFits'
  BY LoadedFits
<1>2. run' = run /\ op' = op /\ alive' = alive /\ clean' = clean /\ up' = up /\ journal' = journal
      /\ files' = files /\ copies' = copies /\ begun' = begun /\ dropped' = dropped
  BY DEF Files
<1>3. TypeOK'
  BY <1>2 DEF TypeOK
<1>4. OperationFits' /\ WorkerFits(run)' /\ AmbiguityFits(run)' /\ AdoptionFits(run)'
  BY <1>2 DEF OperationFits, WorkerFits, AmbiguityFits, AdoptionFits, Result
<1>5. JournalFits' /\ ChoiceFits' /\ FilesFit'
  BY <1>2 DEF JournalFits, ChoiceFits, FilesFit, Untouched, Copying, Adopted, At, Result, Part
<1>6. DoubtFits' /\ RecoveryFits'
  BY <1>2 DEF DoubtFits, RecoveryFits, At, Result
<1> QED
  BY <1>1, <1>3, <1>4, <1>5, <1>6

\* What a manager loads is a record.
LEMMA LoadedIsRecord == ASSUME FinalizationInv PROVE Loaded \in Record
  BY NoticedFacts, ReclassifiedFacts DEF FinalizationInv, Loaded, TypeOK

\* Restart keeps the invariant.
LEMMA RestartKeeps == ASSUME FinalizationInv, Restart PROVE FinalizationInv'
<1>1. loader' = [who |-> "daemon", found |-> Loaded, stale |-> FALSE]
  BY DEF Restart
<1>2. loader' \in Loading /\ loader'.found = Loaded
  BY <1>1, LoadedIsRecord DEF Loading
<1> QED
  BY <1>2, LoaderStartsKeeps DEF Restart

\* PeerLoads keeps the invariant.
LEMMA PeerLoadsKeeps == ASSUME FinalizationInv, PeerLoads PROVE FinalizationInv'
<1>1. loader' = [who |-> "peer", found |-> Loaded, stale |-> FALSE]
  BY DEF PeerLoads
<1>2. loader' \in Loading /\ loader'.found = Loaded
  BY <1>1, LoadedIsRecord DEF Loading
<1> QED
  BY <1>2, LoaderStartsKeeps DEF PeerLoads

\* LoaderSaves keeps the invariant.
LEMMA LoaderSavesKeeps ==
  ASSUME FinalizationInv, LoaderSaves PROVE FinalizationInv'
<1> USE DEF FinalizationInv
<1>1. loader \in Loading /\ loader' = NoLoader /\ ~Fresh'
  BY DEF LoaderSaves, Fresh, TypeOK
<1>2. run' \in Record /\ (run' = run \/ (Fresh /\ run' = loader.found)) /\ run \in Record
  BY <1>1 DEF LoaderSaves, Fresh, Loading, TypeOK
<1>3. up' \in BOOLEAN
  BY <1>1 DEF LoaderSaves, TypeOK
<1>4. op' = op /\ journal' = journal /\ alive' = alive /\ clean' = clean
      /\ files' = files /\ copies' = copies /\ begun' = begun /\ dropped' = dropped
  BY DEF LoaderSaves, Files
<1>5. /\ alive => run'.worker = run.worker /\ run'.task = run.task
      /\ \/ run'.agent = run.agent
         \/ run'.agent = journal.agent /\ journal.phase \in {"sync_started"} \cup Synced
      /\ run'.status = "sync_ambiguous" =>
           run.status = "sync_ambiguous" \/ journal.phase \in {"sync_started"} \cup Synced
      /\ run.status = "sync_ambiguous" =>
           run'.status = "sync_ambiguous" \/ journal.phase \in Synced
      /\ run.status \in Unsettled => run'.status \in Unsettled \/ journal.phase \in Synced
  BY <1>2 DEF LoaderFits
<1>6. TypeOK'
  BY <1>1, <1>2, <1>3, <1>4 DEF TypeOK
<1>7. OperationFits'
  BY <1>4, <1>5 DEF OperationFits
<1>8. WorkerFits(run)' /\ AmbiguityFits(run)' /\ AdoptionFits(run)'
  <2>1. CASE run' = run
    BY <1>4, <2>1 DEF WorkerFits, AmbiguityFits, AdoptionFits, Result
  <2>2. CASE Fresh /\ run' = loader.found
    <3>1. WorkerFits(loader.found) /\ AmbiguityFits(loader.found) /\ AdoptionFits(loader.found)
      BY <2>2 DEF LoaderFits
    <3> QED
      BY <1>4, <2>2, <3>1 DEF WorkerFits, AmbiguityFits, AdoptionFits, Result
  <2> QED
    BY <1>2, <2>1, <2>2
<1>9. LoaderFits'
  BY <1>1 DEF LoaderFits
<1>10. JournalFits'
  BY <1>4, <1>5 DEF JournalFits, Untouched, Copying, Adopted, At, Synced, Unsettled
<1>11. ChoiceFits'
  BY <1>4, <1>5 DEF ChoiceFits, JournalFits, Untouched, Copying, At, Synced
<1>12. FilesFit'
  BY <1>4 DEF FilesFit, Untouched, Copying, At, Result, Part
<1>13. DoubtFits' /\ RecoveryFits'
  BY <1>4, <1>5 DEF DoubtFits, RecoveryFits, FilesFit, At, Synced, Result, Unsettled
<1> QED
  BY <1>6, <1>7, <1>8, <1>9, <1>10, <1>11, <1>12, <1>13

\* Every step of an operation keeps the invariant.
LEMMA ExecutorKeeps ==
  ASSUME FinalizationInv, Executor PROVE FinalizationInv'
BY BeginKeeps, PreserveKeeps, JournalStartKeeps, MarkKeeps, ReceiptKeeps, PreflightKeeps,
   SyncWritesKeeps, SyncEndsKeeps, SyncFailsKeeps, AfterSyncKeeps, PromoteKeeps,
   CleanupStartKeeps, DeleteKeeps, FinishKeeps, CompleteKeeps, RecoverJournalKeeps,
   RecoverSaveKeeps, DiscardDeleteKeeps, DiscardSaveKeeps, CleanupDeleteKeeps, CleanupSaveKeeps
   DEF Executor

\* Every request keeps the invariant.
LEMMA ClientKeeps ==
  ASSUME FinalizationInv, Client PROVE FinalizationInv'
BY AcceptHereKeeps, AcceptByWorkerKeeps, AcceptRefusedKeeps, StopFirstKeeps, RecoverKeeps,
   DiscardKeeps DEF Client

\* A step that changes nothing keeps the invariant.
LEMMA NothingKeeps ==
  ASSUME FinalizationInv, UNCHANGED vars PROVE FinalizationInv'
<1> USE DEF FinalizationInv
<1>1. run' = run /\ op' = op /\ alive' = alive /\ clean' = clean /\ up' = up /\ journal' = journal
      /\ files' = files /\ copies' = copies /\ begun' = begun /\ dropped' = dropped /\ loader' = loader
  BY DEF vars
<1>2. TypeOK' /\ OperationFits'
  BY <1>1 DEF TypeOK, OperationFits
<1>3. WorkerFits(run)' /\ AmbiguityFits(run)' /\ AdoptionFits(run)'
  BY <1>1 DEF WorkerFits, AmbiguityFits, AdoptionFits, Result
<1>4. LoaderFits'
  BY <1>1, LoaderStaysFit DEF Overtakes
<1>5. JournalFits' /\ ChoiceFits' /\ FilesFit'
  BY <1>1 DEF JournalFits, ChoiceFits, FilesFit, Untouched, Copying, Adopted, At, Result, Part
<1>6. DoubtFits' /\ RecoveryFits'
  BY <1>1 DEF DoubtFits, RecoveryFits, At, Result
<1> QED
  BY <1>2, <1>3, <1>4, <1>5, <1>6

\* Every step keeps the invariant.
LEMMA NextKeeps ==
  ASSUME FinalizationInv, [Next]_vars PROVE FinalizationInv'
BY ClientKeeps, ExecutorKeeps, EnqueueKeeps, RetryCleanupKeeps, BatchEndsKeeps, WorkerDiesKeeps,
   NoticeKeeps, CrashKeeps, RestartKeeps, PeerLoadsKeeps, LoaderSavesKeeps, NothingKeeps DEF Next

\* The invariant holds at the start.
LEMMA InitFits == ASSUME Init PROVE FinalizationInv
<1>1. PICK s \in {"running", "completed"}, c \in Settings :
        run = [status |-> s, saving |-> NoAgent, agent |-> NoAgent, synced |-> FALSE,
               deleted |-> FALSE, sync |-> c.sync, keep |-> c.keep,
               worker |-> IF s = "running" THEN "busy" ELSE "idle",
               task |-> IF s = "running" THEN "agents" ELSE "none"]
  BY DEF Init
<1>2. c.sync \in BOOLEAN /\ c.keep \in BOOLEAN
  BY FinalizationAssumption
<1>3. s \in Statuses /\ {"agents", "none"} \subseteq Tasks
  BY DEF Statuses, Tasks
<1>4. run \in Record /\ run.status \in {"running", "completed"} /\ run.agent = NoAgent
      /\ run.worker = (IF run.status = "running" THEN "busy" ELSE "idle")
  BY <1>1, <1>2, <1>3, NoAgentIsChoice DEF Record
<1>5. journal \in Journal /\ journal.phase = "none" /\ journal.agent = NoAgent
  BY NoAgentIsChoice DEF Init, Journal, Phases
<1>6. op \in Op /\ op = NoOp /\ op.task = "none" /\ op.by = "none" /\ op.pc = "idle"
  BY NoOpIsIdle DEF Init
<1>7. /\ alive = TRUE /\ copies = TRUE /\ up = TRUE /\ begun = NoAgent /\ dropped = FALSE
      /\ loader = NoLoader /\ ~Fresh
      /\ clean \in BOOLEAN /\ files \in [of : Choices, whole : BOOLEAN] /\ files.of = NoAgent
  BY NoAgentIsChoice DEF Init, Original, Fresh
<1>8. TypeOK
  BY <1>4, <1>5, <1>6, <1>7, NoAgentIsChoice DEF TypeOK
<1>9. OperationFits /\ WorkerFits(run) /\ AmbiguityFits(run) /\ AdoptionFits(run) /\ LoaderFits
  BY <1>1, <1>4, <1>5, <1>6, <1>7
     DEF OperationFits, WorkerFits, AmbiguityFits, AdoptionFits, LoaderFits
<1>10. JournalFits /\ ChoiceFits /\ FilesFit /\ DoubtFits /\ RecoveryFits
  BY <1>4, <1>5, <1>6, <1>7
     DEF JournalFits, ChoiceFits, FilesFit, DoubtFits, RecoveryFits, Untouched, Copying, Adopted, At,
         Synced
<1> QED
  BY <1>8, <1>9, <1>10 DEF FinalizationInv

\* The record, the journal, the workspace and the operation under way agree, in
\* every interleaving of the clients, the worker, the daemon and other managers
\* (plugin_runtime.py and finalization.py), wherever one of them dies.
THEOREM FinalizationInvariant == Spec => []FinalizationInv
<1>1. Init => FinalizationInv
  BY InitFits
<1>2. FinalizationInv /\ [Next]_vars => FinalizationInv'
  BY NextKeeps
<1> QED
  BY <1>1, <1>2, PTL DEF Spec

\* A workspace into which part of a result was copied (_sync_best_workspace_back
\* fails or its process dies) belongs to a run whose status says so, until the
\* client has answered that nothing was applied.
THEOREM PartIsNotHiddenHolds == Spec => []PartIsNotHidden
<1>1. FinalizationInv => PartIsNotHidden
  <2> SUFFICES ASSUME FinalizationInv, ~files.whole, begun # NoAgent
               PROVE  run.status \in {"finalizing", "interrupted", "sync_ambiguous"}
    BY DEF PartIsNotHidden
  <2> USE DEF FinalizationInv
  <2>1. journal.phase = "sync_started"
    BY DEF FilesFit, TypeOK, Journal, Phases, Synced, Result
  <2> QED
    BY <2>1 DEF DoubtFits, Unsettled
<1> QED
  BY <1>1, FinalizationInvariant, PTL

-----------------------------------------------------------------------------
(* The finalization is an adoption (Adoption.tla).                          *)

\* What the user of an adoption sees.
Seen == <<files, copies, Chosen, Doubt>>

\* What the abstract specification sees of the journal's phase.
LEMMA ChosenFacts ==
  ASSUME FinalizationInv
  PROVE  /\ journal.phase \in Synced => Chosen = journal.agent /\ Chosen # NoAgent /\ Doubt = NoAgent
         /\ journal.phase \notin Synced => Chosen = NoAgent /\ Doubt = begun
         /\ begun # NoAgent /\ journal.phase \notin Synced => journal.phase = "sync_started"
         /\ op.task \in {"cleanup", "discard"} => Doubt = NoAgent
<1> USE DEF FinalizationInv
<1>1. journal.phase \in {"none", "sync_not_applied", "sync_started"} \cup Synced
  BY DEF TypeOK, Journal, Phases, Synced
<1>2. journal.phase \in Synced => journal.agent # NoAgent
  BY DEF JournalFits, Synced
<1>3. begun # NoAgent /\ journal.phase \notin Synced => journal.phase = "sync_started"
  BY <1>1 DEF FilesFit
<1>4. op.task \in {"cleanup", "discard"} => Doubt = NoAgent
  BY <1>2, <1>3, NoOpIsIdle DEF DoubtFits, Doubt, Chosen, At
<1> QED
  BY <1>2, <1>3, <1>4 DEF Chosen, Doubt

\* A step that leaves the files, the copies and the choice alone is none.
LEMMA UnseenSteps ==
  ASSUME FinalizationInv, files' = files, copies' = copies, begun' = begun,
         \/ journal'.phase = journal.phase /\ journal'.agent = journal.agent
         \/ /\ journal.phase \in Synced /\ journal'.phase \in Synced
            /\ journal'.agent = journal.agent
         \/ journal.phase \notin Synced /\ journal'.phase \notin Synced
  PROVE  UNCHANGED Seen
BY DEF Seen, Chosen, Doubt

\* Deleting the copies is the abstract deletion, or is not seen.
LEMMA DeletionImplements ==
  ASSUME FinalizationInv, copies' \in {copies, FALSE}, Doubt = NoAgent,
         journal' = journal, files' = files, begun' = begun
  PROVE  A!DeleteCopies \/ UNCHANGED Seen
BY DEF A!DeleteCopies, Seen, Chosen, Doubt

\* The user's answer: the copy is complete, or it does not count.
LEMMA AnswerImplements ==
  ASSUME FinalizationInv, RecoverJournal
  PROVE  A!Next \/ UNCHANGED Seen
<1> USE DEF FinalizationInv
<1>1. CASE UNCHANGED <<journal, begun>>
  BY <1>1, UnseenSteps DEF RecoverJournal
<1>2. CASE ~UNCHANGED <<journal, begun>>
  <2>1. /\ run.status = "sync_ambiguous" /\ run.agent # NoAgent /\ op.task = "recover" /\ op.pc = "begin"
        /\ journal' = [journal EXCEPT !.phase = IF op.applied THEN "sync_complete" ELSE "sync_not_applied",
                                      !.agent = run.agent, !.synced = op.applied]
        /\ begun' = IF op.applied THEN begun ELSE NoAgent
        /\ files' = files /\ copies' = copies
    BY <1>2 DEF RecoverJournal, At
  <2>2. /\ journal.agent = run.agent /\ (op.applied <=> files = Result(journal.agent))
        /\ run.agent \in Agents
    BY <2>1 DEF AmbiguityFits, RecoveryFits, TypeOK, Record, Choices
  <2>3. /\ journal'.phase = IF op.applied THEN "sync_complete" ELSE "sync_not_applied"
        /\ journal'.agent = journal.agent
    BY <2>1, <2>2 DEF TypeOK, Journal
  <2>4. journal.phase \in Synced => op.applied
    BY <2>1, <2>2 DEF AmbiguityFits
  <2>5. op.applied => begun = run.agent /\ files.whole /\ files.of = run.agent
    BY <2>1, <2>2 DEF FilesFit, Result
  <2>6. CASE op.applied /\ journal.phase \in Synced
    BY <2>1, <2>3, <2>6, UnseenSteps DEF Synced
  <2>7. CASE op.applied /\ journal.phase \notin Synced
    <3>1. Chosen = NoAgent /\ Doubt = run.agent /\ Chosen' = run.agent /\ Doubt' = NoAgent
      BY <2>1, <2>2, <2>3, <2>5, <2>7 DEF Chosen, Doubt, Synced
    <3>2. A!Choose(run.agent)
      BY <2>1, <2>2, <2>7, <3>1 DEF A!Choose, Result
    <3> QED
      BY <2>2, <3>2 DEF A!Next
  <2>8. CASE ~op.applied
    <3>1. Chosen = NoAgent /\ Doubt = begun /\ Chosen' = NoAgent /\ Doubt' = NoAgent
      BY <2>1, <2>3, <2>4, <2>8 DEF Chosen, Doubt, Synced
    <3>2. begun # NoAgent => begun = journal.agent
      BY <2>4, <2>8, ChosenFacts DEF FilesFit
    <3>3. begun # NoAgent => A!TakeBack
      BY <2>1, <2>2, <2>8, <3>1, <3>2 DEF A!TakeBack, Result
    <3>4. begun = NoAgent => UNCHANGED Seen
      BY <2>1, <3>1 DEF Seen
    <3> QED
      BY <3>3, <3>4 DEF A!Next
  <2> QED
    BY <2>6, <2>7, <2>8
<1> QED
  BY <1>1, <1>2

\* Each step of an operation is a step of the adoption or none that it sees.
LEMMA ExecutorImplements ==
  ASSUME FinalizationInv, Executor
  PROVE  A!Next \/ UNCHANGED Seen
<1> USE DEF FinalizationInv
<1>1. CASE Begin \/ Preserve \/ Mark \/ Preflight \/ SyncFails \/ Promote \/ Finish \/ RecoverSave
           \/ DiscardSave
  <2>1. UNCHANGED <<journal, files, copies, begun>>
    BY <1>1 DEF Begin, Preserve, Mark, Preflight, SyncFails, Promote, Finish, RecoverSave, DiscardSave, Files
  <2> QED
    BY <2>1, UnseenSteps
<1>2. CASE JournalStart
  <2>1. /\ op.task = "finalize" /\ op.pc = "journal" /\ op.agent \in Agents /\ op.agent # NoAgent
        /\ journal.phase \in {"none", "sync_not_applied"} /\ begun = NoAgent
    BY <1>2, NoOpIsIdle
       DEF JournalStart, At, OperationFits, JournalFits, Untouched, FilesFit, TypeOK, Op, Choices
  <2>2. /\ journal'.phase = (IF op.sync THEN "sync_started" ELSE "sync_complete")
        /\ journal'.agent = op.agent /\ files' = files /\ copies' = copies /\ begun' = begun
    BY <1>2 DEF JournalStart, TypeOK, Journal
  <2>3. CASE op.sync
    BY <2>1, <2>2, <2>3, UnseenSteps DEF Synced
  <2>4. CASE ~op.sync
    <3>1. Chosen = NoAgent /\ Doubt = NoAgent /\ Chosen' = op.agent /\ Doubt' = NoAgent
      BY <2>1, <2>2, <2>4 DEF Chosen, Doubt, Synced
    <3>2. A!ChooseOnly(op.agent)
      BY <2>2, <3>1 DEF A!ChooseOnly
    <3> QED
      BY <2>1, <3>2 DEF A!Next
  <2> QED
    BY <2>3, <2>4
<1>3. CASE Receipt \/ CleanupStart \/ Complete \/ CleanupSave
  <2>1. files' = files /\ copies' = copies /\ begun' = begun
    BY <1>3 DEF Receipt, CleanupStart, Complete, CleanupSave
  <2>2. CASE Receipt
    BY <2>1, <2>2, UnseenSteps DEF Receipt, TypeOK, Journal
  <2>3. CASE CleanupStart \/ Complete
    <3>1. journal.phase \in Synced /\ journal.agent = op.agent
      BY <2>3 DEF CleanupStart, Complete, At, JournalFits, Adopted
    <3>2. journal'.phase \in Synced /\ journal'.agent = op.agent
      BY <2>3 DEF CleanupStart, Complete, TypeOK, Journal, Synced
    <3> QED
      BY <2>1, <3>1, <3>2, UnseenSteps
  <2>4. CASE CleanupSave
    <3>1. CASE journal' = journal
      BY <2>1, <3>1, UnseenSteps
    <3>2. CASE CleanupPending /\ journal' = [journal EXCEPT !.phase = "complete", !.agent = run.agent,
                                                  !.synced = run.synced, !.deleted = ~copies]
      <4>1. journal.phase \in Synced /\ journal.agent = run.agent
        BY <3>2 DEF CleanupPending, AdoptionFits
      <4>2. journal'.phase \in Synced /\ journal'.agent = run.agent
        BY <3>2 DEF TypeOK, Journal, Synced
      <4> QED
        BY <2>1, <4>1, <4>2, UnseenSteps
    <3> QED
      BY <2>4, <3>1, <3>2 DEF CleanupSave
  <2> QED
    BY <1>3, <2>2, <2>3, <2>4
<1>4. CASE SyncWrites
  <2>1. /\ op.agent \in Agents /\ begun = NoAgent /\ copies /\ journal.phase = "sync_started"
    BY <1>4, NoOpIsIdle
       DEF SyncWrites, At, OperationFits, JournalFits, Copying, FilesFit, TypeOK, Op, Choices
  <2>2. journal' = journal /\ files' = Part(op.agent) /\ begun' = op.agent /\ copies' = copies
    BY <1>4 DEF SyncWrites
  <2>3. Chosen = NoAgent /\ Doubt = NoAgent /\ Chosen' = NoAgent /\ Doubt' = op.agent
    BY <2>1, <2>2 DEF Chosen, Doubt, Synced
  <2>4. A!BeginCopy(op.agent)
    BY <2>1, <2>2, <2>3 DEF A!BeginCopy, Part
  <2> QED
    BY <2>1, <2>4 DEF A!Next
<1>5. CASE SyncEnds
  <2>1. /\ op.agent # NoAgent /\ begun = op.agent /\ files = Part(op.agent)
        /\ journal.phase = "sync_started"
    BY <1>5, NoOpIsIdle DEF SyncEnds, At, OperationFits, JournalFits, Copying, FilesFit
  <2>2. journal' = journal /\ files' = Result(op.agent) /\ begun' = begun /\ copies' = copies
    BY <1>5 DEF SyncEnds
  <2>3. Chosen = NoAgent /\ Doubt = op.agent /\ Chosen' = NoAgent /\ Doubt' = op.agent
    BY <2>1, <2>2 DEF Chosen, Doubt, Synced
  <2>4. A!EndCopy
    BY <2>1, <2>2, <2>3 DEF A!EndCopy, Part, Result
  <2> QED
    BY <2>4 DEF A!Next
<1>6. CASE AfterSync
  <2>1. /\ op.agent \in Agents /\ op.agent # NoAgent /\ begun = op.agent
        /\ files = Result(op.agent) /\ journal.phase = "sync_started"
    BY <1>6, NoOpIsIdle
       DEF AfterSync, At, OperationFits, JournalFits, Copying, FilesFit, TypeOK, Op, Choices
  <2>2. /\ journal'.phase = "sync_complete" /\ journal'.agent = op.agent
        /\ files' = files /\ begun' = begun /\ copies' = copies
    BY <1>6 DEF AfterSync, TypeOK, Journal
  <2>3. Chosen = NoAgent /\ Doubt = op.agent /\ Chosen' = op.agent /\ Doubt' = NoAgent
    BY <2>1, <2>2 DEF Chosen, Doubt, Synced
  <2>4. A!Choose(op.agent)
    BY <2>1, <2>2, <2>3 DEF A!Choose, Result
  <2> QED
    BY <2>1, <2>4 DEF A!Next
<1>7. CASE Delete \/ CleanupDelete \/ DiscardDelete
  <2>1. /\ journal' = journal /\ files' = files /\ begun' = begun /\ copies' \in {copies, FALSE}
        /\ (Adopted \/ op.task \in {"cleanup", "discard"})
    BY <1>7 DEF Delete, CleanupDelete, DiscardDelete, At, Adopted
  <2>2. Doubt = NoAgent
    BY <2>1, ChosenFacts DEF JournalFits
  <2> QED
    BY <2>1, <2>2, DeletionImplements DEF A!Next
<1>8. CASE RecoverJournal
  BY <1>8, AnswerImplements
<1> QED
  BY <1>1, <1>2, <1>3, <1>4, <1>5, <1>6, <1>7, <1>8 DEF Executor

\* Every step is a step of Adoption or is not seen by it.
LEMMA NextImplements ==
  ASSUME FinalizationInv, [Next]_vars
  PROVE  A!Next \/ UNCHANGED Seen
<1>1. CASE Executor
  BY <1>1, ExecutorImplements
<1>2. CASE ~Executor
  <2>1. UNCHANGED <<journal, files, copies, begun>>
    BY <1>2 DEF Next, vars, Client, AcceptHere, AcceptByWorker, AcceptRefused, StopFirst, Recover,
                Discard, Enqueue, RetryCleanup, BatchEnds, WorkerDies, Notice, Crash, Restart,
                PeerLoads, LoaderSaves, Files
  <2> QED
    BY <2>1, UnseenSteps
<1> QED
  BY <1>1, <1>2

\* The processes that finalize, recover, discard, clean up and reclassify a run
\* (plugin_runtime.py, finalization.py) are together an adoption, wherever they
\* die: no second copy before somebody said that the first was not applied, no
\* second winner, and no candidate deleted while a copy of it is in doubt.
THEOREM FinalizationImplementsAdoption == Spec => ImplementsAdoption
<1>1. Init => A!Init
  BY DEF Init, A!Init, Original, A!Original, Chosen, Doubt, Synced
<1>2. FinalizationInv /\ [Next]_vars => [A!Next]_A!vars
  BY NextImplements DEF Seen, A!vars
<1> QED
  BY <1>1, <1>2, FinalizationInvariant, PTL DEF Spec, A!Spec, ImplementsAdoption

=============================================================================

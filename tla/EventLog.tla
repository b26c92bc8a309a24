------------------------------- MODULE EventLog -------------------------------
(***************************************************************************)
(* The event log of one run: plugin/events.py.  The worker, the daemon and *)
(* other processes that share the state directory append to one file under *)
(* a lock, together with an index of offsets whose length numbers the      *)
(* events.  A process may die anywhere: between the two files, within a    *)
(* line, within an index entry, or while it repairs what another left.     *)
(*                                                                         *)
(* A line is its event and the event_id embedded in it; offsets are line   *)
(* numbers.  Deletion, which ends the run, is left out.                    *)
(***************************************************************************)
EXTENDS Naturals, Sequences

CONSTANTS
  Writers,    \* processes that append
  Nobody,     \* holds the lock when it is free
  MaxLines,   \* bound: the file's lines, beyond which no append begins
  MaxDeaths   \* bound: processes that die while they append

ASSUME EventLogAssumption ==
  /\ Nobody \notin Writers
  /\ {MaxLines, MaxDeaths} \subseteq Nat

\* A report of the worker's agents may be split into fragments; it is not worth a
\* save of the record.  Anything else is.
Kinds == {"agent_line", "status"}
Parts(kind) == IF kind = "agent_line" THEN 1..2 ELSE {1}

VARIABLES
  file,     \* the lines of the .jsonl file: [event, id, whole]
  index,    \* the .idx file: the line of each event
  ragged,   \* the .idx file ends within an entry
  lock,     \* who holds the run's lock file
  turn,     \* what the holder still has to write
  clock,    \* the time; every reading differs
  deaths    \* processes that died holding the lock

logVars == <<file, index, ragged, lock, turn, clock, deaths>>

Event == [at : Nat, kind : Kinds, part : Nat]
Line == [event : Event, id : Nat, whole : BOOLEAN]
NoTurn == [step |-> "none", kind |-> "status", at |-> 0, part |-> 0, parts |-> 0]

LogTypeOK ==
  /\ file \in Seq(Line) /\ index \in Seq(Nat) /\ ragged \in BOOLEAN
  /\ lock \in Writers \cup {Nobody}
  /\ turn \in [step : {"none", "line", "index"}, kind : Kinds, at : Nat, part : Nat, parts : Nat]
  /\ clock \in Nat /\ deaths \in Nat

LogInit ==
  /\ file = <<>> /\ index = <<>> /\ ragged = FALSE
  /\ lock = Nobody /\ turn = NoTurn
  /\ clock = 0 /\ deaths = 0

-----------------------------------------------------------------------------
(* The repair that precedes every access.                                   *)

\* The file ends with a complete line, or is empty.
Complete == file = <<>> \/ file[Len(file)].whole

\* What _rebuild_index_locked leaves of the file.
Lines == IF Complete THEN file ELSE SubSeq(file, 1, Len(file) - 1)

\* Mutant: the index is believed whenever it is not torn.
IndexValidUnlessTorn == ~ragged

\* The index is believed when its last entry is that of the file's last line.
IndexValid ==
  /\ ~ragged
  /\ IF index = <<>> THEN file = <<>> ELSE Complete /\ index[Len(index)] = Len(file)

\* _ensure_index_locked.
EnsuredFile == IF IndexValid THEN file ELSE Lines
EnsuredIndex == IF IndexValid THEN index ELSE [n \in 1..Len(Lines) |-> n]

-----------------------------------------------------------------------------
(* append, write by write.                                                  *)

\* The lock is taken, the files are repaired and the time is read.
Begin(w, kind, parts) ==
  /\ lock = Nobody /\ lock' = w
  /\ file' = EnsuredFile /\ index' = EnsuredIndex /\ ragged' = FALSE
  /\ clock' = clock + 1
  /\ turn' = [step |-> "line", kind |-> kind, at |-> clock + 1, part |-> 1, parts |-> parts]
  /\ UNCHANGED deaths

NextLine(whole) ==
  [event |-> [at |-> turn.at, kind |-> turn.kind, part |-> turn.part],
   id |-> Len(index), whole |-> whole]

WriteLine(w) ==
  /\ lock = w /\ turn.step = "line"
  /\ file' = Append(file, NextLine(TRUE))
  /\ turn' = [turn EXCEPT !.step = "index"]
  /\ UNCHANGED <<index, ragged, lock, clock, deaths>>

\* After the last fragment the lock is released.
WriteIndex(w) ==
  /\ lock = w /\ turn.step = "index"
  /\ index' = Append(index, Len(file))
  /\ IF turn.part < turn.parts
     THEN turn' = [turn EXCEPT !.step = "line", !.part = @ + 1] /\ UNCHANGED lock
     ELSE turn' = NoTurn /\ lock' = Nobody
  /\ UNCHANGED <<file, ragged, clock, deaths>>

\* The holder dies, perhaps within its next write; the lock goes with it.
DieWriting(w) ==
  /\ lock = w /\ deaths < MaxDeaths
  /\ deaths' = deaths + 1
  /\ lock' = Nobody /\ turn' = NoTurn
  /\ \/ turn.step = "line" /\ file' = Append(file, NextLine(FALSE)) /\ UNCHANGED ragged
     \/ turn.step = "index" /\ ragged' = TRUE /\ UNCHANGED file
     \/ UNCHANGED <<file, ragged>>
  /\ UNCHANGED <<index, clock>>

\* A process dies while it rebuilds the index, with the torn line already gone:
\* the new index replaces the old one or does not.
DieRebuilding ==
  /\ lock = Nobody /\ ~IndexValid
  /\ file' = Lines
  /\ UNCHANGED <<index, ragged, lock, turn, clock, deaths>>

\* count and read repair the files too.
Repair ==
  /\ lock = Nobody
  /\ file' = EnsuredFile /\ index' = EnsuredIndex /\ ragged' = FALSE
  /\ UNCHANGED <<lock, turn, clock, deaths>>

Appending(w) ==
  \/ \E kind \in Kinds : \E parts \in Parts(kind) :
       Len(file) + parts <= MaxLines /\ Begin(w, kind, parts)
  \/ WriteLine(w) \/ WriteIndex(w) \/ DieWriting(w)

LogNext == (\E w \in Writers : Appending(w)) \/ DieRebuilding \/ Repair

LogSpec == LogInit /\ [][LogNext]_logVars

-----------------------------------------------------------------------------
(* Properties.                                                              *)

\* A holder of the lock finds the files in order, and has written as much as turn says.
LockFits ==
  /\ lock = Nobody <=> turn.step = "none"
  /\ lock # Nobody => ~ragged /\ Complete
  /\ turn.step = "line" => Len(index) = Len(file)
  /\ turn.step = "index" => Len(index) + 1 = Len(file)

\* The index lists the lines in order, and lacks at most the last one.
IndexFits ==
  /\ Len(index) \in {Len(Lines), Len(Lines) - 1}
  /\ \A n \in 1..Len(index) : index[n] = n

\* Only the last line is ever torn, and the others have the numbers of their places.
LinesFit ==
  \A n \in 1..Len(file) :
    /\ n < Len(file) => file[n].whole
    /\ file[n].whole => file[n].id = n - 1

\* The inductive invariant that the properties below rest on.
LogInv == LogTypeOK /\ LockFits /\ IndexFits /\ LinesFit

\* What clients and projections remember an event by is its place in the log,
\* and keeps to be: no repair renumbers an event that was written whole.
NumberedByPlace == \A n \in DOMAIN Lines : Lines[n].id = n - 1

\* To its readers the log only grows, one event after the other.
G == INSTANCE GrowOnlyLog WITH log <- Lines
ImplementsLog == G!Spec
=============================================================================

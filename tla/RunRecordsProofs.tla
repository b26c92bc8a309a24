--------------------------- MODULE RunRecordsProofs ---------------------------
(***************************************************************************)
(* Proofs about the event log and the records of a run, for any managers   *)
(* and writers, any page and any number of deaths: events keep the numbers *)
(* that they were written with, and to its readers the log is a            *)
(* GrowOnlyLog, whatever is torn and repaired; a record is the log up to   *)
(* its cursor, an answered change stays unless it was exposed, and a copy  *)
(* whose stamp fits has it.                                                *)
(*                                                                         *)
(* A record is judged by the log and the clock (Fits); the log only grows  *)
(* (Grown), so a record that is left alone stays fit.  A step of manager m *)
(* leaves the others as they are, but for their stamps (OthersKept).       *)
(***************************************************************************)
EXTENDS RunRecords, SequenceTheorems, TLAPS

-----------------------------------------------------------------------------
(* The log.                                                                 *)

\* A sequence without its last element.
LEMMA WithoutLast ==
  ASSUME NEW S, NEW s \in Seq(S), s # <<>>
  PROVE  /\ SubSeq(s, 1, Len(s) - 1) \in Seq(S)
         /\ Len(SubSeq(s, 1, Len(s) - 1)) = Len(s) - 1
         /\ \A n \in 1..(Len(s) - 1) : SubSeq(s, 1, Len(s) - 1)[n] = s[n]
<1>1. Len(s) \in Nat /\ Len(s) >= 1
  OBVIOUS
<1> DEFINE k == Len(s) - 1
<1>2. k \in Int /\ 1 \in Int /\ \A n \in 1..k : s[n] \in S
  BY <1>1
<1> HIDE DEF k
<1>3. /\ SubSeq(s, 1, k) \in Seq(S)
      /\ Len(SubSeq(s, 1, k)) = IF 1 <= k THEN k - 1 + 1 ELSE 0
      /\ \A n \in 1..(k - 1 + 1) : SubSeq(s, 1, k)[n] = s[1 + n - 1]
  BY <1>2, SubSeqProperties
<1>4. k - 1 + 1 = k /\ \A n \in 1..k : 1 + n - 1 = n
  BY <1>2
<1>5. k >= 0
  BY <1>1 DEF k
<1>6. SubSeq(s, 1, k) \in Seq(S) /\ Len(SubSeq(s, 1, k)) = k
  BY <1>2, <1>3, <1>4, <1>5
<1>7. \A n \in 1..k : SubSeq(s, 1, k)[n] = s[n]
  BY <1>3, <1>4, Zenon
<1> QED BY <1>6, <1>7 DEF k

\* The types of a line and of a turn, with their fields.
LEMMA TypesFacts ==
  ASSUME LogInv
  PROVE  /\ file \in Seq(Line) /\ Len(file) \in Nat
         /\ index \in Seq(Nat) /\ Len(index) \in Nat
  BY DEF LogInv, LogTypeOK

\* What is complete of the file is all of it but perhaps the last line.
LEMMA LinesFacts ==
  ASSUME LogInv
  PROVE  /\ Lines \in Seq(Line) /\ Len(Lines) \in Nat
         /\ Len(Lines) <= Len(file) /\ Len(file) <= Len(Lines) + 1
         /\ Complete => Lines = file
         /\ \A n \in 1..Len(Lines) : Lines[n] = file[n] /\ Lines[n].whole /\ Lines[n].id = n - 1
<1>1. file \in Seq(Line) /\ Len(file) \in Nat
  BY TypesFacts
<1>2. CASE Complete
  <2>1. Lines = file
    BY <1>2 DEF Lines
  <2>2. \A n \in 1..Len(file) : file[n].whole
    BY <1>1, <1>2 DEF LogInv, LinesFit, Complete
  <2> QED BY <1>1, <2>1, <2>2 DEF LogInv, LinesFit
<1>3. CASE ~Complete
  <2>1. file # <<>> /\ ~file[Len(file)].whole /\ Lines = SubSeq(file, 1, Len(file) - 1)
    BY <1>3 DEF Complete, Lines
  <2>2. Len(file) >= 1
    BY <1>1, <2>1
  <2>3. /\ Lines \in Seq(Line) /\ Len(Lines) = Len(file) - 1
        /\ \A n \in 1..Len(Lines) : Lines[n] = file[n]
    BY <1>1, <2>1, <2>2, WithoutLast
  <2>4. \A n \in 1..Len(Lines) : Lines[n].whole /\ Lines[n].id = n - 1
    BY <1>1, <2>2, <2>3 DEF LogInv, LinesFit
  <2> QED BY <1>1, <1>3, <2>2, <2>3, <2>4
<1> QED BY <1>2, <1>3

\* A repair leaves exactly those lines, and the index that lists them.
LEMMA EnsuredFacts ==
  ASSUME LogInv
  PROVE  EnsuredFile = Lines /\ EnsuredIndex = [n \in 1..Len(Lines) |-> n]
<1>1. /\ file \in Seq(Line) /\ Len(file) \in Nat
      /\ index \in Seq(Nat) /\ Len(index) \in Nat
      /\ \A n \in 1..Len(index) : index[n] = n
  BY TypesFacts DEF LogInv, IndexFits
<1>2. CASE IndexValid
  <2>1. index = <<>> => file = <<>>
    BY <1>2 DEF IndexValid
  <2>2. index # <<>> => Complete /\ index[Len(index)] = Len(file) /\ Len(index) \in 1..Len(index)
    BY <1>1, <1>2 DEF IndexValid
  <2>3. Complete /\ Len(index) = Len(file)
    BY <1>1, <2>1, <2>2 DEF Complete
  <2>4. Lines = file
    BY <2>3 DEF Lines
  <2>5. index = [n \in 1..Len(Lines) |-> n]
    BY <1>1, <2>3, <2>4
  <2> QED BY <1>2, <2>4, <2>5 DEF EnsuredFile, EnsuredIndex
<1>3. CASE ~IndexValid
  BY <1>3 DEF EnsuredFile, EnsuredIndex
<1> QED BY <1>2, <1>3

\* What a line that is written looks like at the end of the file.
LEMMA AppendFacts ==
  ASSUME LogInv, NEW whole \in BOOLEAN
  PROVE  LET longer == Append(file, NextLine(whole))
         IN /\ longer \in Seq(Line) /\ Len(longer) = Len(file) + 1
            /\ \A n \in 1..Len(file) : longer[n] = file[n]
            /\ longer[Len(file) + 1].whole = whole
            /\ longer[Len(file) + 1].id = Len(index)
<1>1. file \in Seq(Line) /\ Len(index) \in Nat
  BY TypesFacts
<1>2. NextLine(whole) \in Line
  BY <1>1 DEF LogInv, LogTypeOK, NextLine, Line, Event
<1>3. NextLine(whole).whole = whole /\ NextLine(whole).id = Len(index)
  BY DEF NextLine
<1> QED BY <1>1, <1>2, <1>3, AppendProperties

-----------------------------------------------------------------------------
(* The invariant, action by action.                                         *)

\* When every line is whole, all is read of the file.
LEMMA WholeFacts ==
  ASSUME file' \in Seq(Line), \A n \in 1..Len(file') : file'[n].whole
  PROVE  Complete' /\ Lines' = file'
<1>1. Complete'
  BY DEF Complete
<1> QED BY <1>1 DEF Lines

\* An access repairs the files; whoever has the lock then finds them in order.
LEMMA RepairedFacts ==
  ASSUME LogInv, file' = EnsuredFile, index' = EnsuredIndex
  PROVE  /\ file' \in Seq(Line) /\ index' \in Seq(Nat) /\ Len(index') = Len(file')
         /\ Complete' /\ Lines' = Lines
         /\ IndexFits' /\ LinesFit'
<1>1. file' = Lines /\ index' = [n \in 1..Len(Lines) |-> n]
  BY EnsuredFacts
<1>2. /\ Lines \in Seq(Line) /\ Len(Lines) \in Nat
      /\ \A n \in 1..Len(Lines) : Lines[n].whole /\ Lines[n].id = n - 1
  BY LinesFacts
<1>3. index' \in Seq(Nat) /\ Len(index') = Len(file') /\ \A n \in 1..Len(index') : index'[n] = n
  BY <1>1, <1>2
<1>4. Complete' /\ Lines' = file'
  BY <1>1, <1>2, WholeFacts
<1>5. IndexFits'
  BY <1>3, <1>4 DEF IndexFits
<1>6. LinesFit'
  BY <1>1, <1>2 DEF LinesFit
<1> QED BY <1>1, <1>2, <1>3, <1>4, <1>5, <1>6

\* _locked: a writer finds the files repaired, and reserves nothing yet.
LEMMA BeginStep ==
  ASSUME LogInv, NEW w \in Writers, NEW kind \in Kinds, NEW parts \in Parts(kind),
         Begin(w, kind, parts)
  PROVE  LogInv' /\ Lines' = Lines
<1>1. /\ file' \in Seq(Line) /\ index' \in Seq(Nat) /\ Len(index') = Len(file')
      /\ Complete' /\ Lines' = Lines /\ IndexFits' /\ LinesFit'
  BY RepairedFacts DEF Begin
<1>2. parts \in Nat
  BY DEF Parts
<1>3. clock \in Nat /\ deaths \in Nat /\ clock + 1 \in Nat
  BY DEF LogInv, LogTypeOK
<1>4. turn' = [step |-> "line", kind |-> kind, at |-> clock + 1, part |-> 1, parts |-> parts]
      /\ lock' = w /\ ragged' = FALSE /\ clock' = clock + 1 /\ deaths' = deaths
  BY DEF Begin
<1>5. LogTypeOK'
  BY <1>1, <1>2, <1>3, <1>4 DEF LogTypeOK
<1>6. LockFits'
  BY <1>1, <1>4, EventLogAssumption DEF LockFits
<1> QED BY <1>1, <1>5, <1>6 DEF LogInv

\* A fragment is written whole, with the number of its place.
LEMMA WriteLineStep ==
  ASSUME LogInv, NEW w \in Writers, WriteLine(w)
  PROVE  /\ LogInv' /\ Lines' = file' /\ Lines = file
         /\ Len(file') = Len(file) + 1 /\ SubSeq(file', 1, Len(file)) = file
<1>1. /\ lock = w /\ turn.step = "line" /\ file' = Append(file, NextLine(TRUE))
      /\ turn' = [turn EXCEPT !.step = "index"]
      /\ index' = index /\ ragged' = ragged /\ lock' = lock /\ clock' = clock /\ deaths' = deaths
  BY DEF WriteLine
<1>2. /\ file \in Seq(Line) /\ Len(file) \in Nat /\ Len(index) \in Nat
      /\ lock # Nobody /\ ~ragged /\ Complete /\ Len(index) = Len(file)
  BY <1>1, TypesFacts DEF LogInv, LockFits
<1>3. /\ file' \in Seq(Line) /\ Len(file') = Len(file) + 1
      /\ \A n \in 1..Len(file) : file'[n] = file[n]
      /\ file'[Len(file) + 1].whole /\ file'[Len(file) + 1].id = Len(file)
  BY <1>1, <1>2, AppendFacts
<1>4. Lines = file /\ \A n \in 1..Len(file) : file[n].whole /\ file[n].id = n - 1
  BY <1>2, LinesFacts
<1>5. \A n \in 1..Len(file') : file'[n].whole /\ file'[n].id = n - 1
  <2> SUFFICES ASSUME NEW n \in 1..(Len(file) + 1) PROVE file'[n].whole /\ file'[n].id = n - 1
    BY <1>3
  <2>1. n \in 1..Len(file) \/ (n = Len(file) + 1 /\ n - 1 = Len(file))
    BY <1>2
  <2> QED BY <2>1, <1>3, <1>4
<1>6. Complete' /\ Lines' = file'
  BY <1>3, <1>5, WholeFacts
<1>7. LogTypeOK'
  BY <1>1, <1>3 DEF LogInv, LogTypeOK
<1>8. LockFits'
  <2>1. turn'.step = "index"
    BY <1>1 DEF LogInv, LogTypeOK
  <2> QED BY <1>1, <1>2, <1>3, <1>6, <2>1 DEF LockFits
<1>9. IndexFits'
  <2>1. Len(index') = Len(Lines') - 1
    BY <1>1, <1>2, <1>3, <1>6
  <2>2. \A n \in 1..Len(index') : index'[n] = n
    BY <1>1 DEF LogInv, IndexFits
  <2> QED BY <2>1, <2>2 DEF IndexFits
<1>10. LinesFit'
  BY <1>5 DEF LinesFit
<1>11. SubSeq(file', 1, Len(file)) = file
  BY <1>2, <1>3
<1> QED BY <1>3, <1>4, <1>6, <1>7, <1>8, <1>9, <1>10, <1>11 DEF LogInv

\* The index gains the entries of the lines that were written.
LEMMA WriteIndexStep ==
  ASSUME LogInv, NEW w \in Writers, WriteIndex(w)
  PROVE  LogInv' /\ Lines' = Lines
<1>1. /\ lock = w /\ turn.step = "index" /\ index' = Append(index, Len(file))
      /\ file' = file /\ ragged' = ragged /\ clock' = clock /\ deaths' = deaths
      /\ \/ lock' = lock /\ turn' = [turn EXCEPT !.step = "line", !.part = @ + 1]
         \/ lock' = Nobody /\ turn' = NoTurn
  BY DEF WriteIndex
<1>2. /\ file \in Seq(Line) /\ Len(file) \in Nat /\ index \in Seq(Nat) /\ Len(index) \in Nat
      /\ lock # Nobody /\ ~ragged /\ Complete /\ Len(file) = Len(index) + 1
  BY <1>1, TypesFacts DEF LogInv, LockFits
<1>3. /\ index' \in Seq(Nat) /\ Len(index') = Len(index) + 1
      /\ \A n \in 1..Len(index) : index'[n] = index[n]
      /\ index'[Len(index) + 1] = Len(index) + 1
  BY <1>1, <1>2, AppendProperties
<1>4. Complete' /\ Lines' = file' /\ Lines = file
  BY <1>1, <1>2 DEF Complete, Lines
<1>5. IndexFits'
  <2>1. \A n \in 1..Len(index) : index[n] = n
    BY DEF LogInv, IndexFits
  <2>2. \A n \in 1..(Len(index) + 1) : n \in 1..Len(index) \/ n = Len(index) + 1
    BY <1>2
  <2>3. \A n \in 1..Len(index') : index'[n] = n
    BY <1>3, <2>1, <2>2
  <2> QED BY <1>1, <1>2, <1>3, <1>4, <2>3 DEF IndexFits
<1>6. LinesFit'
  BY <1>1 DEF LogInv, LinesFit
<1>7. LogTypeOK'
  <2>1. /\ turn \in [step : {"none", "line", "index"}, kind : Kinds, at : Nat, part : Nat, parts : Nat]
        /\ NoTurn \in [step : {"none", "line", "index"}, kind : Kinds, at : Nat, part : Nat, parts : Nat]
    BY DEF LogInv, LogTypeOK, NoTurn, Kinds
  <2>2. turn' \in [step : {"none", "line", "index"}, kind : Kinds, at : Nat, part : Nat, parts : Nat]
    <3>1. CASE turn' = [turn EXCEPT !.step = "line", !.part = @ + 1]
      <4>1. turn.kind \in Kinds /\ turn.at \in Nat /\ turn.part + 1 \in Nat /\ turn.parts \in Nat
        BY <2>1
      <4>2. turn' = [step |-> "line", kind |-> turn.kind, at |-> turn.at, part |-> turn.part + 1,
                     parts |-> turn.parts]
        BY <2>1, <3>1
      <4> QED BY <4>1, <4>2
    <3>2. CASE turn' = NoTurn
      BY <2>1, <3>2
    <3>3. turn' = [turn EXCEPT !.step = "line", !.part = @ + 1] \/ turn' = NoTurn
      BY <1>1
    <3> QED BY <3>1, <3>2, <3>3, Zenon
  <2>3. lock' \in Writers \cup {Nobody}
    BY <1>1 DEF LogInv, LogTypeOK
  <2> QED BY <1>1, <1>3, <2>2, <2>3 DEF LogInv, LogTypeOK
<1>8. LockFits'
  <2>1. CASE lock' = lock /\ turn' = [turn EXCEPT !.step = "line", !.part = @ + 1]
    <3>1. turn'.step = "line"
      BY <2>1 DEF LogInv, LogTypeOK
    <3> QED BY <1>1, <1>2, <1>3, <1>4, <2>1, <3>1 DEF LockFits
  <2>2. CASE lock' = Nobody /\ turn' = NoTurn
    BY <2>2 DEF LockFits, NoTurn
  <2> QED BY <1>1, <2>1, <2>2
<1> QED BY <1>1, <1>4, <1>5, <1>6, <1>7, <1>8 DEF LogInv

\* A death within an append may tear the last line or the index, never an earlier line.
LEMMA DieWritingStep ==
  ASSUME LogInv, NEW w \in Writers, DieWriting(w)
  PROVE  LogInv' /\ Lines' = Lines
<1>1. /\ lock = w /\ lock' = Nobody /\ turn' = NoTurn /\ index' = index /\ clock' = clock
      /\ deaths' = deaths + 1
      /\ \/ turn.step = "line" /\ file' = Append(file, NextLine(FALSE)) /\ ragged' = ragged
         \/ file' = file /\ ragged' \in BOOLEAN
  BY DEF DieWriting, LogInv, LogTypeOK
<1>2. /\ file \in Seq(Line) /\ Len(file) \in Nat /\ index \in Seq(Nat) /\ Len(index) \in Nat
      /\ lock # Nobody /\ Complete /\ Lines = file /\ ragged \in BOOLEAN /\ deaths + 1 \in Nat
  BY <1>1, TypesFacts, EventLogAssumption DEF LogInv, LockFits, LogTypeOK, Lines
<1>3. LockFits'
  BY <1>1 DEF LockFits, NoTurn
<1>4. CASE turn.step = "line" /\ file' = Append(file, NextLine(FALSE)) /\ ragged' = ragged
  <2>1. /\ file' \in Seq(Line) /\ Len(file') = Len(file) + 1
        /\ \A n \in 1..Len(file) : file'[n] = file[n]
        /\ ~file'[Len(file) + 1].whole
    BY <1>4, AppendFacts
  <2>2. ~Complete' /\ file' # <<>>
    BY <1>2, <2>1 DEF Complete
  <2>3. Lines' = SubSeq(file', 1, Len(file') - 1) /\ Len(file') - 1 = Len(file)
    BY <1>2, <2>1, <2>2 DEF Lines
  <2>4. Lines' = file
    <3>1. /\ Lines' \in Seq(Line) /\ Len(Lines') = Len(file)
          /\ \A n \in 1..Len(file) : Lines'[n] = file[n]
      BY <2>1, <2>2, <2>3, WithoutLast
    <3> QED BY <1>2, <3>1
  <2>5. LinesFit'
    <3> SUFFICES ASSUME NEW n \in 1..(Len(file) + 1)
                 PROVE  /\ n < Len(file) + 1 => file'[n].whole
                        /\ file'[n].whole => file'[n].id = n - 1
      BY <2>1 DEF LinesFit
    <3>1. CASE n = Len(file) + 1
      BY <1>2, <2>1, <3>1
    <3>2. CASE n \in 1..Len(file)
      BY <1>2, <2>1, <3>2, LinesFacts
    <3> QED BY <1>2, <3>1, <3>2
  <2>6. IndexFits'
    BY <1>1, <1>2, <2>4 DEF LogInv, IndexFits
  <2>7. LogTypeOK'
    BY <1>1, <1>2, <1>4, <2>1 DEF LogInv, LogTypeOK, NoTurn, Kinds
  <2> QED BY <1>2, <1>3, <2>4, <2>5, <2>6, <2>7 DEF LogInv
<1>5. CASE file' = file /\ ragged' \in BOOLEAN
  <2>1. Lines' = Lines
    BY <1>5 DEF Lines, Complete
  <2>2. IndexFits' /\ LinesFit'
    BY <1>1, <1>5, <2>1 DEF LogInv, IndexFits, LinesFit
  <2>3. LogTypeOK'
    BY <1>1, <1>2, <1>5 DEF LogInv, LogTypeOK, NoTurn, Kinds
  <2> QED BY <1>3, <2>1, <2>2, <2>3 DEF LogInv
<1> QED BY <1>1, <1>4, <1>5

\* A death within a repair leaves files that the next one repairs.
LEMMA DieRebuildingStep ==
  ASSUME LogInv, DieRebuilding
  PROVE  LogInv' /\ Lines' = Lines
<1>1. /\ file' = Lines /\ index' = index /\ ragged' = ragged /\ lock' = lock /\ turn' = turn
      /\ clock' = clock /\ deaths' = deaths /\ lock = Nobody
  BY DEF DieRebuilding
<1>2. /\ Lines \in Seq(Line) /\ Len(Lines) \in Nat
      /\ \A n \in 1..Len(Lines) : Lines[n].whole /\ Lines[n].id = n - 1
  BY LinesFacts
<1>3. Complete' /\ Lines' = file'
  BY <1>1, <1>2, WholeFacts
<1>4. LinesFit'
  BY <1>1, <1>2 DEF LinesFit
<1>5. IndexFits'
  BY <1>1, <1>3 DEF LogInv, IndexFits
<1>6. LockFits'
  BY <1>1 DEF LogInv, LogTypeOK, LockFits
<1>7. LogTypeOK'
  BY <1>1, <1>2 DEF LogInv, LogTypeOK
<1> QED BY <1>1, <1>3, <1>4, <1>5, <1>6, <1>7 DEF LogInv

\* A reader's repair shows readers what they saw before.
LEMMA RepairStep ==
  ASSUME LogInv, Repair
  PROVE  LogInv' /\ Lines' = Lines
<1>1. /\ file' \in Seq(Line) /\ index' \in Seq(Nat)
      /\ Lines' = Lines /\ IndexFits' /\ LinesFit'
  BY RepairedFacts DEF Repair
<1>2. /\ lock = Nobody /\ ragged' = FALSE /\ lock' = lock /\ turn' = turn
      /\ clock' = clock /\ deaths' = deaths
  BY DEF Repair
<1>3. LockFits'
  BY <1>2 DEF LogInv, LogTypeOK, LockFits
<1>4. LogTypeOK'
  BY <1>1, <1>2 DEF LogInv, LogTypeOK
<1> QED BY <1>1, <1>3, <1>4 DEF LogInv

\* A line that is written is the one that the grow-only log gains.
LEMMA WriteLineGrows ==
  ASSUME LogInv, NEW w \in Writers, WriteLine(w)
  PROVE  G!Next
<1>1. /\ Lines' = file' /\ Lines = file /\ Len(file') = Len(file) + 1
      /\ SubSeq(file', 1, Len(file)) = file /\ LogInv'
  BY WriteLineStep
<1>2. file'[Len(file')].id = Len(file)
  BY <1>1, AppendFacts DEF WriteLine, LogInv, LockFits
<1> QED BY <1>1, <1>2 DEF G!Next

LEMMA LogStart ==
  ASSUME LogInit
  PROVE  LogInv
<1>1. LogTypeOK
  <2>1. NoTurn \in [step : {"none", "line", "index"}, kind : Kinds, at : Nat, part : Nat, parts : Nat]
    BY DEF NoTurn, Kinds
  <2>2. <<>> \in Seq(Line) /\ <<>> \in Seq(Nat)
    BY EmptySeq
  <2> QED BY <2>1, <2>2 DEF LogInit, LogTypeOK
<1>2. LockFits
  BY DEF LogInit, LockFits, NoTurn
<1>3. Lines = <<>> /\ IndexFits /\ LinesFit
  BY DEF LogInit, IndexFits, LinesFit, Lines, Complete
<1> QED BY <1>1, <1>2, <1>3 DEF LogInv

-----------------------------------------------------------------------------
(* The theorems.                                                            *)

\* Files, index and lock fit together at every moment, in the middle of an append and
\* after a death too (append, _ensure_index_locked and _rebuild_index_locked).
THEOREM LogInvariant == LogSpec => []LogInv
<1>1. LogInit => LogInv
  BY LogStart
<1>2. LogInv /\ [LogNext]_logVars => LogInv'
  <2>1. LogInv /\ LogNext => LogInv'
    BY BeginStep, WriteLineStep, WriteIndexStep, DieWritingStep, DieRebuildingStep, RepairStep
       DEF LogNext, Appending
  <2>2. LogInv /\ UNCHANGED logVars => LogInv'
    BY DEF logVars, LogInv, LogTypeOK, LockFits, IndexFits, LinesFit, Lines, Complete
  <2> QED BY <2>1, <2>2
<1> QED BY <1>1, <1>2, PTL DEF LogSpec

\* What a client remembers an event by stays its place in the log: a repair drops the
\* line that a death left half-written, and numbers nothing anew.
THEOREM EventsKeepTheirNumbers == LogSpec => []NumberedByPlace
<1>1. LogInv => NumberedByPlace
  BY LinesFacts DEF NumberedByPlace
<1> QED BY <1>1, LogInvariant, PTL

\* The two files and their lock implement a log that only grows, one event at a time:
\* of all the steps of the writers, of readers that repair, and of deaths, only the
\* write of a whole line is a step of the log.
THEOREM LogImplementsGrowOnlyLog == LogSpec => ImplementsLog
<1>1. LogInit => G!Init
  BY DEF LogInit, G!Init, Lines, Complete
<1>2. LogInv /\ [LogNext]_logVars => [G!Next]_Lines
  <2> SUFFICES ASSUME LogInv, [LogNext]_logVars PROVE [G!Next]_Lines
    OBVIOUS
  <2>1. ASSUME NEW w \in Writers, WriteLine(w) PROVE G!Next
    BY <2>1, WriteLineGrows
  <2>2. CASE UNCHANGED logVars
    BY <2>2 DEF logVars, Lines, Complete
  <2> QED BY <2>1, <2>2, BeginStep, WriteIndexStep, DieWritingStep, DieRebuildingStep, RepairStep
          DEF LogNext, Appending
<1> QED BY <1>1, <1>2, LogInvariant, PTL DEF LogSpec, ImplementsLog, G!Spec

-----------------------------------------------------------------------------
(* The records, and what their proofs speak of.                             *)

\* What a record has applied is the log as far as its cursor.
Fits(r, lines, time) ==
  /\ r.at <= time /\ r.count <= Len(lines)
  /\ r.seen = [n \in 1..r.count |-> lines[n].event.at]

\* To its readers the log has the same lines as before, and perhaps more.
Grown ==
  /\ clock <= clock'
  /\ Len(Lines) <= Len(Lines')
  /\ \A i \in 1..Len(Lines) : Lines'[i] = Lines[i]

OthersKept(m) ==
  \A n \in Managers \ {m} :
    /\ mgr'[n].step = mgr[n].step /\ mgr'[n].task = mgr[n].task
    /\ mgr'[n].copy = mgr[n].copy /\ mgr'[n].held = mgr[n].held /\ mgr'[n].same = mgr[n].same
    /\ mgr'[n].current => mgr[n].current

-----------------------------------------------------------------------------
(* Types.                                                                   *)

LEMMA RecordFields ==
  ASSUME NEW r \in Record
  PROVE  r.seen \in Seq(Nat) /\ r.count \in Nat /\ r.made \in SUBSET (1..MaxChanges) /\ r.at \in Nat
BY DEF Record

LEMMA NewRecordFacts ==
  ASSUME NEW lines, Len(lines) \in Nat, NEW time \in Nat
  PROVE  NewRecord \in Record /\ NewRecord.at = 0 /\ NewRecord.made = {} /\ Fits(NewRecord, lines, time)
<1>1. <<>> \in Seq(Nat) /\ {} \in SUBSET (1..MaxChanges)
  OBVIOUS
<1>2. NewRecord \in Record /\ NewRecord.at = 0 /\ NewRecord.made = {} /\ NewRecord.count = 0
      /\ NewRecord.seen = <<>>
  BY <1>1 DEF NewRecord, Record
<1>3. \A f : <<>> = [n \in 1..0 |-> f[n].event.at]
  OBVIOUS
<1> QED BY <1>2, <1>3 DEF Fits

LEMMA ManagerFields ==
  ASSUME NEW g \in Manager
  PROVE  /\ g.step \in Steps /\ g.task \in 0..MaxChanges
         /\ g.copy \in Record /\ g.held \in Record
         /\ g.same \in BOOLEAN /\ g.current \in BOOLEAN /\ g.durable \in BOOLEAN
         /\ g.copy.at \in Nat /\ g.held.at \in Nat
         /\ g.copy.count \in Nat /\ g.held.count \in Nat
BY RecordFields DEF Manager

\* What the invariant says of the records one by one.
LEMMA RecordsFacts ==
  ASSUME RecordsInv
  PROVE  /\ disk \in Record /\ Fits(disk, Lines, clock)
         /\ \A m \in Managers :
              /\ mgr[m] \in Manager
              /\ Fits(mgr[m].copy, Lines, clock) /\ Fits(mgr[m].held, Lines, clock)
         /\ clock \in Nat /\ Len(Lines) \in Nat /\ Lines \in Seq(Line) /\ disk.at \in Nat
         /\ changes \in Nat
<1>1. disk \in Record /\ \A m \in Managers : mgr[m] \in Manager
  BY DEF RecordsInv, RecordsTypeOK
<1>2. disk \in Records /\ \A m \in Managers : mgr[m].copy \in Records /\ mgr[m].held \in Records
  BY DEF Records, Copies
<1>3. \A r \in Records : Fits(r, Lines, clock)
  BY DEF RecordsInv, AppliedInOrder, Fits
<1>4. clock \in Nat /\ Len(Lines) \in Nat /\ Lines \in Seq(Line)
  BY LinesFacts DEF RecordsInv, LogInv, LogTypeOK
<1>5. changes \in Nat
  BY RunRecordsAssumption DEF RecordsInv, RecordsTypeOK
<1> QED BY <1>1, <1>2, <1>3, <1>4, <1>5, RecordFields

\* A record that is left alone keeps to fit the log.
LEMMA FitsKept ==
  ASSUME NEW r \in Record, NEW lines, NEW longer, NEW time \in Nat, NEW later \in Nat,
         Len(lines) \in Nat, Len(longer) \in Nat, Len(lines) <= Len(longer), time <= later,
         \A i \in 1..Len(lines) : longer[i] = lines[i],
         Fits(r, lines, time)
  PROVE  Fits(r, longer, later)
<1>1. r.count \in Nat /\ r.at \in Nat
  BY RecordFields
<1>2. r.at <= later /\ r.count <= Len(longer)
  BY <1>1 DEF Fits
<1>3. \A n \in 1..r.count : longer[n] = lines[n]
  BY <1>1 DEF Fits
<1>4. [n \in 1..r.count |-> lines[n].event.at] = [n \in 1..r.count |-> longer[n].event.at]
  BY <1>3
<1> QED BY <1>2, <1>4 DEF Fits

-----------------------------------------------------------------------------
(* The steps of the log, as the records see them.                           *)

LogSteady ==
  \/ \E w \in Writers : \/ \E kind \in Kinds : \E parts \in Parts(kind) : Begin(w, kind, parts)
                        \/ WriteIndex(w) \/ DieWriting(w)
  \/ DieRebuilding \/ Repair \/ UNCHANGED logVars
  \/ clock' = clock + 1 /\ UNCHANGED <<file, index, ragged, lock, turn, deaths>>
  \/ deaths < MaxDeaths /\ deaths' = deaths + 1 /\ UNCHANGED <<file, index, ragged, lock, turn, clock>>

\* All but the write of a line leave the log as its readers see it.
LEMMA SteadyLines ==
  ASSUME LogInv, LogSteady
  PROVE  LogInv' /\ Lines' = Lines
<1>1. CASE UNCHANGED logVars
  BY <1>1 DEF logVars, LogInv, LogTypeOK, LockFits, IndexFits, LinesFit, Lines, Complete
<1>2. CASE clock' = clock + 1 /\ UNCHANGED <<file, index, ragged, lock, turn, deaths>>
  <2>1. clock' \in Nat
    BY <1>2 DEF LogInv, LogTypeOK
  <2> QED BY <1>2, <2>1 DEF LogInv, LogTypeOK, LockFits, IndexFits, LinesFit, Lines, Complete
<1>3. CASE deaths < MaxDeaths /\ deaths' = deaths + 1 /\ UNCHANGED <<file, index, ragged, lock, turn, clock>>
  <2>1. deaths' \in Nat
    BY <1>3 DEF LogInv, LogTypeOK
  <2> QED BY <1>3, <2>1 DEF LogInv, LogTypeOK, LockFits, IndexFits, LinesFit, Lines, Complete
<1> QED BY <1>1, <1>2, <1>3, BeginStep, WriteIndexStep, DieWritingStep, DieRebuildingStep, RepairStep
        DEF LogSteady

LEMMA SteadyTimes ==
  ASSUME LogInv, TimesFit, LogSteady
  PROVE  TimesFit' /\ Grown
<1>1. LogInv' /\ Lines' = Lines /\ Len(Lines) \in Nat
  BY SteadyLines, LinesFacts
<1>2. /\ clock \in Nat /\ turn.at \in Nat
      /\ \A i \in 1..Len(Lines) : Lines[i].event.at \in Nat
  <2>1. \A i \in 1..Len(Lines) : Lines[i] \in Line
    BY LinesFacts
  <2>2. \A l \in Line : l.event.at \in Nat
    BY DEF Line, Event
  <2> QED BY <2>1, <2>2 DEF LogInv, LogTypeOK
<1>3. CASE \E w \in Writers : \E kind \in Kinds : \E parts \in Parts(kind) : Begin(w, kind, parts)
  <2>1. turn'.step = "line" /\ turn'.at = clock + 1 /\ clock' = clock + 1
    BY <1>3 DEF Begin
  <2>2. \A i \in 1..Len(Lines) : Lines[i].event.at <= clock /\ Lines[i].event.at <= clock + 1
    BY <1>2 DEF TimesFit
  <2>3. clock <= clock + 1 /\ clock + 1 <= clock + 1
    BY <1>2
  <2>4. \A i, j \in 1..Len(Lines) : i <= j => Lines[i].event.at <= Lines[j].event.at
    BY DEF TimesFit
  <2>5. TimesFit'
    BY <1>1, <2>1, <2>2, <2>3, <2>4 DEF TimesFit
  <2>6. Grown
    BY <1>1, <2>1, <2>3 DEF Grown
  <2> QED BY <2>5, <2>6
<1>4. CASE \E w \in Writers : WriteIndex(w)
  <2>1. /\ clock' = clock /\ turn.step = "index"
        /\ turn'.step = "none" \/ (turn'.step = "line" /\ turn'.at = turn.at)
    <3>1. /\ clock' = clock /\ turn.step = "index"
          /\ turn' = NoTurn \/ turn' = [turn EXCEPT !.step = "line", !.part = @ + 1]
      BY <1>4 DEF WriteIndex
    <3>2. turn' = [turn EXCEPT !.step = "line", !.part = @ + 1]
            => turn'.step = "line" /\ turn'.at = turn.at
      BY DEF LogInv, LogTypeOK
    <3>3. turn' = NoTurn => turn'.step = "none"
      BY DEF NoTurn
    <3> QED BY <3>1, <3>2, <3>3
  <2>2. Len(Lines) \in 1..Len(Lines)
    <3>1. Len(file) >= 1 /\ Complete
      BY <1>4, TypesFacts, EventLogAssumption DEF WriteIndex, LogInv, LockFits
    <3> QED BY <1>1, <3>1 DEF Lines
  <2>3. \A i \in 1..Len(Lines) : Lines[i].event.at <= turn.at
    BY <1>1, <2>1, <2>2 DEF TimesFit
  <2> QED BY <1>1, <1>2, <2>1, <2>3 DEF TimesFit, Grown
<1>5. CASE \E w \in Writers : DieWriting(w)
  <2>1. clock' = clock /\ turn'.step = "none"
    BY <1>5 DEF DieWriting, NoTurn
  <2> QED BY <1>1, <1>2, <2>1 DEF TimesFit, Grown
<1>6. CASE turn' = turn /\ (clock' = clock \/ clock' = clock + 1)
  BY <1>1, <1>2, <1>6 DEF TimesFit, Grown
<1>7. \/ \E w \in Writers : \/ \E kind \in Kinds : \E parts \in Parts(kind) : Begin(w, kind, parts)
                            \/ WriteIndex(w) \/ DieWriting(w)
      \/ turn' = turn /\ (clock' = clock \/ clock' = clock + 1)
  BY DEF LogSteady, DieRebuilding, Repair, logVars
<1> QED BY <1>3, <1>4, <1>5, <1>6, <1>7

\* A line that is written has the time of its append, which is the latest so far.
LEMMA WrittenTimes ==
  ASSUME LogInv, TimesFit, NEW w \in Writers, WriteLine(w)
  PROVE  TimesFit' /\ Grown /\ Len(Lines') = Len(Lines) + 1
<1>1. /\ Lines' = file' /\ Lines = file /\ Len(file') = Len(file) + 1 /\ Len(file) \in Nat
      /\ file \in Seq(Line)
  BY WriteLineStep, TypesFacts
<1>2. /\ turn.step = "line" /\ turn'.step = "index" /\ turn'.at = turn.at /\ clock' = clock
      /\ file' = Append(file, NextLine(TRUE))
  BY DEF WriteLine, LogInv, LogTypeOK
<1>3. /\ \A i \in 1..Len(file) : file'[i] = file[i]
      /\ file'[Len(file) + 1] = NextLine(TRUE)
  <2>1. NextLine(TRUE) \in Line
    BY TypesFacts DEF LogInv, LogTypeOK, NextLine, Line, Event
  <2>2. file \in Seq(Line)
    BY TypesFacts
  <2>3. \A n \in 1..Len(file) : Append(file, NextLine(TRUE))[n] = file[n]
    BY <2>1, <2>2, AppendProperties
  <2>4. Append(file, NextLine(TRUE))[Len(file) + 1] = NextLine(TRUE)
    BY <2>1, <2>2, AppendProperties
  <2> QED BY <1>2, <2>3, <2>4, Zenon
<1>4. file'[Len(file) + 1].event.at = turn.at
  BY <1>3 DEF NextLine
<1>5. \A i \in 1..Len(file') : i \in 1..Len(file) \/ i = Len(file) + 1
  BY <1>1
<1>6. /\ clock \in Nat /\ turn.at \in Nat
      /\ \A i \in 1..Len(file) : file[i].event.at \in Nat
  <2>1. \A i \in 1..Len(file) : file[i] \in Line
    BY <1>1
  <2>2. \A l \in Line : l.event.at \in Nat
    BY DEF Line, Event
  <2> QED BY <2>1, <2>2 DEF LogInv, LogTypeOK
<1>7. Grown
  BY <1>1, <1>2, <1>3, <1>6 DEF Grown
<1>8. turn.at <= clock /\ \A i \in 1..Len(file) : file[i].event.at <= turn.at
  BY <1>1, <1>2 DEF TimesFit
<1>9. \A i \in 1..Len(file') : file'[i].event.at <= turn.at /\ file'[i].event.at <= clock
  <2> SUFFICES ASSUME NEW i \in 1..Len(file')
               PROVE  file'[i].event.at <= turn.at /\ file'[i].event.at <= clock
    OBVIOUS
  <2>1. CASE i = Len(file) + 1
    BY <1>4, <1>6, <1>8, <2>1
  <2>2. CASE i \in 1..Len(file)
    <3>1. file'[i] = file[i] /\ file[i].event.at \in Nat /\ file[i].event.at <= turn.at
      BY <1>3, <1>6, <1>8, <2>2
    <3> QED BY <1>6, <1>8, <3>1
  <2> QED BY <1>5, <2>1, <2>2
<1>10. \A i, j \in 1..Len(file') : i <= j => file'[i].event.at <= file'[j].event.at
  <2> SUFFICES ASSUME NEW i \in 1..Len(file'), NEW j \in 1..Len(file'), i <= j
               PROVE  file'[i].event.at <= file'[j].event.at
    OBVIOUS
  <2>1. CASE j = Len(file) + 1
    BY <1>4, <1>9, <2>1
  <2>2. CASE j \in 1..Len(file)
    <3>1. i \in 1..Len(file)
      BY <1>1, <2>2
    <3> QED BY <1>1, <1>3, <2>2, <3>1 DEF TimesFit
  <2> QED BY <1>5, <2>1, <2>2
<1> QED BY <1>1, <1>2, <1>4, <1>7, <1>8, <1>9, <1>10 DEF TimesFit

-----------------------------------------------------------------------------
(* Pages of the log.                                                        *)

\* A page holds the events that follow the cursor, at least one if there is any.
LEMMA PageFacts ==
  ASSUME LogInv, NEW cursor \in Nat, cursor <= Len(Lines)
  PROVE  LET page == Page(cursor) IN
         /\ page \in Seq(Event) /\ Len(page) \in Nat
         /\ cursor + Len(page) <= Len(Lines)
         /\ \A n \in 1..Len(page) : page[n] = Lines[cursor + n].event
         /\ cursor < Len(Lines) => Len(page) >= 1
         /\ Len(EnsuredIndex) = Len(Lines)
<1> DEFINE length == Len(Lines)
           last == IF length < cursor + PageLimit THEN length ELSE cursor + PageLimit
           count == IF cursor < last THEN last - cursor ELSE 0
<1>1. /\ EnsuredFile = Lines /\ EnsuredIndex = [n \in 1..length |-> n]
      /\ length \in Nat /\ \A n \in 1..length : Lines[n] \in Line
  BY EnsuredFacts, LinesFacts
<1>2. Len(EnsuredIndex) = length
  BY <1>1
<1>3. PageLimit \in Nat /\ PageLimit >= 1
  BY RunRecordsAssumption
<1>4. /\ count \in Nat /\ cursor + count <= length
      /\ cursor < length => count >= 1
      /\ \A n \in 1..count : cursor + n \in 1..length
  BY <1>1, <1>3
<1>5. Page(cursor) = [n \in 1..count |-> EnsuredFile[EnsuredIndex[cursor + n]].event]
  BY <1>2 DEF Page
<1> HIDE DEF count, last
<1>6. Page(cursor) = [n \in 1..count |-> Lines[cursor + n].event]
  <2>1. \A n \in 1..count : EnsuredFile[EnsuredIndex[cursor + n]] = Lines[cursor + n]
    BY <1>1, <1>4
  <2> QED BY <1>5, <2>1
<1>7. \A n \in 1..count : Lines[cursor + n].event \in Event
  BY <1>1, <1>4 DEF Line
<1>8. Page(cursor) \in Seq(Event) /\ Len(Page(cursor)) = count
  BY <1>4, <1>6, <1>7
<1>9. \A n \in 1..count : Page(cursor)[n] = Lines[cursor + n].event
  BY <1>6
<1> QED BY <1>1, <1>2, <1>4, <1>8, <1>9

LEMMA AppliedRecord ==
  ASSUME NEW r \in Record, NEW page
  PROVE  Applied(r, page) = [seen |-> r.seen \o [n \in DOMAIN page |-> page[n].at],
                             count |-> r.count + Len(page), made |-> r.made,
                             at |-> IF page = <<>> THEN r.at ELSE page[Len(page)].at]
<1> DEFINE seen == r.seen \o [n \in DOMAIN page |-> page[n].at]
           count == r.count + Len(page)
           at == IF page = <<>> THEN r.at ELSE page[Len(page)].at
           s == [r EXCEPT !.seen = seen, !.count = count, !.at = at]
<1>1. Applied(r, page) = s
  BY DEF Applied
<1> HIDE DEF seen, count, at
<1>2. s \in [seen : {seen}, count : {count}, made : {r.made}, at : {at}]
  BY DEF Record
<1> HIDE DEF s
<1>3. s = [seen |-> seen, count |-> count, made |-> r.made, at |-> at]
  BY <1>2
<1> QED BY <1>1, <1>3 DEF seen, count, at

\* A sequence of times is that of the lines which follow a place.
Timed(times, lines, place) == \A n \in 1..Len(times) : times[n] = lines[place + n].event.at

LEMMA ConcatenatedTimes ==
  ASSUME NEW lines, NEW seen \in Seq(Nat), NEW times \in Seq(Nat),
         Timed(seen, lines, 0), Timed(times, lines, Len(seen))
  PROVE  /\ seen \o times \in Seq(Nat) /\ Len(seen \o times) = Len(seen) + Len(times)
         /\ Timed(seen \o times, lines, 0)
<1> DEFINE both == seen \o times
<1>1. /\ both \in Seq(Nat) /\ Len(both) = Len(seen) + Len(times)
      /\ \A n \in 1..Len(both) : both[n] = IF n <= Len(seen) THEN seen[n] ELSE times[n - Len(seen)]
  BY ConcatProperties
<1> HIDE DEF both
<1>2. ASSUME NEW n \in 1..Len(both) PROVE both[n] = lines[0 + n].event.at
  <2>1. CASE n <= Len(seen)
    BY <1>1, <2>1 DEF Timed
  <2>2. CASE ~(n <= Len(seen))
    <3>1. n - Len(seen) \in 1..Len(times) /\ Len(seen) + (n - Len(seen)) = n /\ 0 + n = n
      BY <1>1, <2>2
    <3> QED BY <1>1, <2>2, <3>1 DEF Timed
  <2> QED BY <2>1, <2>2
<1> QED BY <1>1, <1>2 DEF Timed, both

\* A record that fits the log still does when it has applied the page at its cursor.
LEMMA AppliedFacts ==
  ASSUME LogInv, clock \in Nat, \A i \in 1..Len(Lines) : Lines[i].event.at <= clock,
         NEW r \in Record, Fits(r, Lines, clock)
  PROVE  LET s == Applied(r, Page(r.count)) IN
         /\ s \in Record /\ Fits(s, Lines, clock) /\ s.made = r.made
         /\ s.count = r.count + Len(Page(r.count))
         /\ r.count < Len(Lines) => s.count > r.count /\ s.at = Lines[s.count].event.at
<1> DEFINE page == Page(r.count)
           k == Len(page)
           times == [n \in DOMAIN page |-> page[n].at]
           seen == r.seen \o times
           count == r.count + k
           at == IF page = <<>> THEN r.at ELSE page[k].at
           s == [seen |-> seen, count |-> count, made |-> r.made, at |-> at]
<1>1. /\ r.count \in Nat /\ r.at \in Nat /\ r.seen \in Seq(Nat) /\ r.made \in SUBSET (1..MaxChanges)
      /\ r.count <= Len(Lines) /\ r.at <= clock
      /\ r.seen = [n \in 1..r.count |-> Lines[n].event.at]
  BY RecordFields DEF Fits
<1>2. /\ page \in Seq(Event) /\ k \in Nat /\ r.count + k <= Len(Lines)
      /\ \A n \in 1..k : page[n] = Lines[r.count + n].event
      /\ r.count < Len(Lines) => k >= 1
  BY <1>1, PageFacts
<1>3. Len(Lines) \in Nat
  BY LinesFacts
<1>4. Applied(r, page) = s
  BY AppliedRecord
<1> HIDE DEF page
<1>5. /\ times \in Seq(Nat) /\ Len(times) = k
      /\ \A n \in 1..k : times[n] = Lines[r.count + n].event.at
  <2>1. DOMAIN page = 1..k /\ \A n \in 1..k : page[n] \in Event
    BY <1>2
  <2>2. \A n \in 1..k : page[n].at \in Nat
    BY <2>1 DEF Event
  <2> QED BY <1>2, <2>1, <2>2
<1> HIDE DEF times
<1>6. seen \in Seq(Nat) /\ seen = [n \in 1..count |-> Lines[n].event.at]
  <2>1. Len(r.seen) = r.count /\ Timed(r.seen, Lines, 0)
    BY <1>1 DEF Timed
  <2>2. Timed(times, Lines, Len(r.seen))
    BY <1>5, <2>1 DEF Timed
  <2>3. seen \in Seq(Nat) /\ Len(seen) = count /\ Timed(seen, Lines, 0)
    BY <1>1, <1>5, <2>1, <2>2, ConcatenatedTimes
  <2>4. \A n \in 1..count : seen[n] = Lines[n].event.at
    <3>1. \A n \in 1..count : 0 + n = n
      BY <1>1, <1>2
    <3> QED BY <2>3, <3>1 DEF Timed
  <2> HIDE DEF seen, count
  <2> QED BY <2>3, <2>4
<1>7. /\ at \in Nat /\ at <= clock
      /\ r.count < Len(Lines) => count > r.count /\ at = Lines[count].event.at
  <2>1. CASE page = <<>>
    <3>1. k = 0
      BY <2>1
    <3> QED BY <1>1, <1>2, <2>1, <3>1
  <2>2. CASE page # <<>>
    <3>1. k \in 1..k /\ page[k] \in Event /\ r.count + k \in 1..Len(Lines) /\ k >= 1
      BY <1>1, <1>2, <1>3, <2>2
    <3>2. at = Lines[r.count + k].event.at /\ at \in Nat
      BY <1>2, <2>2, <3>1 DEF Event
    <3> QED BY <1>1, <3>1, <3>2
  <2> QED BY <2>1, <2>2
<1>8. count \in Nat /\ count <= Len(Lines)
  BY <1>1, <1>2
<1> HIDE DEF seen, count, at
<1>9. s \in Record
  BY <1>1, <1>6, <1>7, <1>8 DEF Record
<1>10. Fits(s, Lines, clock)
  BY <1>6, <1>7, <1>8 DEF Fits
<1>11. s.made = r.made /\ s.count = count /\ s.at = at
  OBVIOUS
<1> HIDE DEF s
<1> QED BY <1>4, <1>7, <1>9, <1>10, <1>11 DEF page, count

-----------------------------------------------------------------------------
(* What a step of one manager leaves of the invariant to show.              *)

LEMMA OneMoved ==
  ASSUME RecordsInv, NEW m \in Managers, NEW g \in Manager, mgr' = [mgr EXCEPT ![m] = g]
  PROVE  mgr' \in [Managers -> Manager] /\ mgr'[m] = g /\ OthersKept(m)
<1>1. mgr \in [Managers -> Manager]
  BY DEF RecordsInv, RecordsTypeOK
<1>2. mgr' \in [Managers -> Manager] /\ mgr'[m] = g /\ \A n \in Managers \ {m} : mgr'[n] = mgr[n]
  BY <1>1
<1> QED BY <1>2 DEF OthersKept

\* The records of the others are those that they were.
LEMMA RecordsKept ==
  ASSUME RecordsInv, Grown, clock' \in Nat, Len(Lines') \in Nat,
         NEW m \in Managers, OthersKept(m), reported \subseteq reported',
         Fits(disk', Lines', clock'),
         Fits(mgr'[m].copy, Lines', clock'), Fits(mgr'[m].held, Lines', clock'),
         disk'.made \subseteq reported',
         mgr'[m].copy.made \subseteq reported' \cup Unanswered(m)',
         mgr'[m].held.made \subseteq reported' \cup Unanswered(m)'
  PROVE  /\ AppliedInOrder' /\ MadeFits'
         /\ \A r \in Records' : r.at <= clock'
<1>1. ASSUME NEW n \in Managers \ {m}
      PROVE  /\ Fits(mgr'[n].copy, Lines', clock') /\ Fits(mgr'[n].held, Lines', clock')
             /\ mgr'[n].copy.made \subseteq reported' \cup Unanswered(n)'
             /\ mgr'[n].held.made \subseteq reported' \cup Unanswered(n)'
  <2>1. /\ mgr'[n].copy = mgr[n].copy /\ mgr'[n].held = mgr[n].held
        /\ mgr'[n].step = mgr[n].step /\ mgr'[n].task = mgr[n].task
    BY DEF OthersKept
  <2>2. /\ mgr[n].copy \in Record /\ mgr[n].held \in Record
        /\ Fits(mgr[n].copy, Lines, clock) /\ Fits(mgr[n].held, Lines, clock)
        /\ clock \in Nat /\ Len(Lines) \in Nat
    BY RecordsFacts, ManagerFields
  <2>3. Fits(mgr[n].copy, Lines', clock') /\ Fits(mgr[n].held, Lines', clock')
    BY <2>2, FitsKept DEF Grown
  <2>4. /\ mgr[n].copy.made \subseteq reported \cup Unanswered(n)
        /\ mgr[n].held.made \subseteq reported \cup Unanswered(n)
    BY DEF RecordsInv, MadeFits, Copies
  <2>5. Unanswered(n)' = Unanswered(n)
    BY <2>1 DEF Unanswered
  <2> QED BY <2>1, <2>3, <2>4, <2>5
<1>2. \A r \in Records' : Fits(r, Lines', clock')
  BY <1>1 DEF Records, Copies
<1>3. AppliedInOrder' /\ \A r \in Records' : r.at <= clock'
  BY <1>2 DEF AppliedInOrder, Fits
<1>4. MadeFits'
  <2>1. ASSUME NEW n \in Managers, NEW r \in Copies(n)'
        PROVE  r.made \subseteq reported' \cup Unanswered(n)'
    <3>1. r = mgr'[n].copy \/ r = mgr'[n].held
      BY DEF Copies
    <3> QED BY <1>1, <3>1
  <2> QED BY <2>1 DEF MadeFits
<1> QED BY <1>3, <1>4

\* Their operations are those that they were, if the lock is none of theirs or as it was.
LEMMA OthersOperate ==
  ASSUME RecordsInv, NEW m \in Managers, OthersKept(m),
         changes' \in Nat, changes <= changes',
         \/ lock' = lock /\ turn'.part = turn.part /\ turn'.parts = turn.parts
         \/ lock' \notin Managers \ {m},
         mgr'[m].task \in {mgr[m].task, 0} \/ \A n \in Managers : mgr[n].task = 0,
         reported' = reported \/ (mgr[m].task # 0 /\ reported' = reported \cup {mgr[m].task})
  PROVE  \A n \in Managers \ {m} : OperationFits(n)'
<1> SUFFICES ASSUME NEW n \in Managers \ {m} PROVE OperationFits(n)'
  OBVIOUS
<1>1. /\ mgr'[n].step = mgr[n].step /\ mgr'[n].task = mgr[n].task /\ mgr'[n].copy = mgr[n].copy
      /\ mgr'[n].held = mgr[n].held /\ mgr'[n].same = mgr[n].same
      /\ \A k \in Managers \ {m} : mgr'[k].task = mgr[k].task
  BY DEF OthersKept
<1>2. OperationFits(n) /\ OperationFits(m)
  BY DEF RecordsInv
<1>3. changes \in Nat
  BY RunRecordsAssumption DEF RecordsInv, RecordsTypeOK
<1>4. mgr[n].task # 0 => mgr[m].task = 0
  BY <1>2 DEF OperationFits
<1>5. mgr[n].task # 0 => mgr[n].task \in 1..changes' /\ mgr[n].task \notin reported'
  BY <1>2, <1>3, <1>4 DEF OperationFits
<1>6. \A k \in Managers : mgr[n].task # 0 /\ mgr'[k].task # 0 => k = n
  BY <1>1, <1>2, <1>4 DEF OperationFits
<1>7. lock' = n => mgr[n].step = "notice" /\ turn'.part = turn'.parts
  BY <1>2 DEF OperationFits
<1> QED BY <1>1, <1>2, <1>5, <1>6, <1>7 DEF OperationFits

\* None of them is unseen while another is within an operation.
LEMMA OthersSeen ==
  ASSUME RecordsInv, NEW m \in Managers, OthersKept(m),
         mgr[m].step \notin {"idle", "down"}, exposed \subseteq exposed'
  PROVE  \A n \in Managers \ {m} : UnseenFits(n)'
<1> SUFFICES ASSUME NEW n \in Managers \ {m}, mgr'[n].task # 0, mgr'[n].task \notin exposed'
             PROVE  FALSE
  BY DEF UnseenFits
<1>1. mgr[n].task # 0 /\ mgr[n].task \notin exposed
  BY DEF OthersKept
<1>2. UnseenFits(n) /\ m \in Managers \ {n}
  BY DEF RecordsInv
<1> QED BY <1>1, <1>2 DEF UnseenFits

\* A change that was reported is with the others still, if runs.json keeps it.
LEMMA OthersHave ==
  ASSUME RecordsInv, NEW m \in Managers, OthersKept(m), NEW c \in reported \ exposed,
         disk'.at \in Nat, disk.at <= disk'.at, c \in disk'.made, WillHave(m, c)'
  PROVE  ReportedFits(c)'
<1>1. ASSUME NEW n \in Managers \ {m} PROVE WillHave(n, c)'
  <2>1. WillHave(n, c)
    BY DEF RecordsInv, ReportedFits
  <2>2. mgr[n].copy.at \in Nat /\ disk.at \in Nat
    BY RecordsFacts, ManagerFields
  <2>3. /\ mgr'[n].step = mgr[n].step /\ mgr'[n].copy = mgr[n].copy
        /\ mgr'[n].current => mgr[n].current
    BY DEF OthersKept
  <2>4. mgr[n].copy.at < disk.at => mgr[n].copy.at < disk'.at
    BY <2>2
  <2> QED BY <2>1, <2>3, <2>4 DEF WillHave
<1> QED BY <1>1 DEF ReportedFits

\* A step that leaves the log alone.
LEMMA LogAlone ==
  ASSUME RecordsInv, UNCHANGED logVars
  PROVE  /\ LogInv' /\ TimesFit' /\ Grown /\ Lines' = Lines /\ Len(Lines') \in Nat
         /\ clock' = clock /\ clock' \in Nat /\ lock' = lock /\ turn' = turn
<1>1. LogInv' /\ TimesFit' /\ Grown /\ Lines' = Lines
  BY SteadyLines, SteadyTimes DEF RecordsInv, LogSteady
<1> QED BY <1>1, RecordsFacts DEF logVars

-----------------------------------------------------------------------------
(* Operations begin.                                                        *)

LEMMA StartReadingStep ==
  ASSUME RecordsInv, NEW m \in Managers, StartReading(m)
  PROVE  RecordsInv'
<1> DEFINE g == [mgr[m] EXCEPT !.step = "sync"]
<1>1. /\ mgr[m].step = "idle" /\ mgr' = [mgr EXCEPT ![m] = g] /\ exposed' = exposed \cup Tasks
      /\ disk' = disk /\ changes' = changes /\ reported' = reported /\ UNCHANGED logVars
  BY DEF StartReading, At
<1>2. mgr[m] \in Manager /\ OperationFits(m)
  BY RecordsFacts DEF RecordsInv
<1>3. /\ g \in Manager /\ g.step = "sync" /\ g.task = mgr[m].task /\ g.copy = mgr[m].copy
      /\ g.held = mgr[m].held /\ g.same = mgr[m].same /\ g.current = mgr[m].current
  BY <1>2 DEF Manager, Steps
<1> HIDE DEF g
<1>4. mgr' \in [Managers -> Manager] /\ mgr'[m] = g /\ OthersKept(m)
  BY <1>1, <1>3, OneMoved
<1>5. /\ LogInv' /\ TimesFit' /\ Grown /\ Lines' = Lines /\ Len(Lines') \in Nat
      /\ clock' = clock /\ clock' \in Nat /\ lock' = lock /\ turn' = turn
  BY <1>1, LogAlone
<1>6. changes \in Nat /\ disk.at \in Nat
  BY RecordsFacts
<1>7. g.task = 0
  BY <1>1, <1>2, <1>3 DEF OperationFits
<1>8. RecordsTypeOK'
  <2>1. Tasks \subseteq 1..changes
    BY DEF Tasks, RecordsInv, OperationFits
  <2> QED BY <1>1, <1>4, <2>1 DEF RecordsInv, RecordsTypeOK
<1>9. AppliedInOrder' /\ MadeFits' /\ \A r \in Records' : r.at <= clock'
  <2>1. /\ Fits(disk', Lines', clock') /\ Fits(g.copy, Lines', clock') /\ Fits(g.held, Lines', clock')
    BY <1>1, <1>3, <1>5, RecordsFacts
  <2>2. /\ disk'.made \subseteq reported'
        /\ g.copy.made \subseteq reported' /\ g.held.made \subseteq reported'
    BY <1>1, <1>3 DEF RecordsInv, MadeFits, Copies, Unanswered
  <2> QED BY <1>1, <1>4, <1>5, <2>1, <2>2, RecordsKept
<1>10. OperationFits(m)'
  BY <1>1, <1>2, <1>3, <1>4, <1>5, <1>7 DEF OperationFits
<1>11. \A n \in Managers \ {m} : OperationFits(n)'
  BY <1>1, <1>3, <1>4, <1>5, <1>6, OthersOperate
<1>12. \A n \in Managers : UnseenFits(n)'
  <2>1. \A n \in Managers : mgr'[n].task = mgr[n].task
    BY <1>3, <1>4 DEF OthersKept
  <2>2. \A n \in Managers : mgr'[n].task # 0 => mgr'[n].task \in exposed'
    BY <1>1, <2>1 DEF Tasks
  <2> QED BY <2>2 DEF UnseenFits
<1>13. \A c \in reported' \ exposed' : ReportedFits(c)'
  <2> SUFFICES ASSUME NEW c \in reported \ exposed PROVE ReportedFits(c)'
    BY <1>1
  <2>1. c \in disk.made /\ WillHave(m, c)
    BY DEF RecordsInv, ReportedFits
  <2>2. WillHave(m, c)'
    BY <1>1, <1>3, <1>4, <2>1 DEF WillHave
  <2> QED BY <1>1, <1>4, <1>6, <2>1, <2>2, OthersHave
<1> QED BY <1>5, <1>8, <1>9, <1>10, <1>11, <1>12, <1>13 DEF RecordsInv

LEMMA StartChangeStep ==
  ASSUME RecordsInv, NEW m \in Managers, StartChange(m)
  PROVE  RecordsInv'
<1> DEFINE g == [mgr[m] EXCEPT !.step = "sync", !.task = changes + 1]
<1>1. /\ mgr[m].step = "idle" /\ mgr' = [mgr EXCEPT ![m] = g]
      /\ exposed' = IF Busy = {} THEN exposed ELSE exposed \cup {changes + 1}
      /\ changes < MaxChanges /\ changes' = changes + 1
      /\ disk' = disk /\ reported' = reported /\ UNCHANGED logVars
  BY DEF StartChange, At
<1>2. mgr[m] \in Manager /\ OperationFits(m)
  BY RecordsFacts DEF RecordsInv
<1>3. changes \in Nat /\ MaxChanges \in Nat /\ disk.at \in Nat /\ changes + 1 \in 0..MaxChanges
  BY <1>1, RunRecordsAssumption, RecordsFacts DEF RecordsInv, RecordsTypeOK
<1>4. /\ g \in Manager /\ g.step = "sync" /\ g.task = changes + 1 /\ g.copy = mgr[m].copy
      /\ g.held = mgr[m].held /\ g.same = mgr[m].same /\ g.current = mgr[m].current
  BY <1>2, <1>3 DEF Manager, Steps
<1> HIDE DEF g
<1>5. mgr' \in [Managers -> Manager] /\ mgr'[m] = g /\ OthersKept(m)
  BY <1>1, <1>4, OneMoved
<1>6. /\ LogInv' /\ TimesFit' /\ Grown /\ Lines' = Lines /\ Len(Lines') \in Nat
      /\ clock' = clock /\ clock' \in Nat /\ lock' = lock /\ turn' = turn
  BY <1>1, LogAlone
<1>7. \A n \in Managers : mgr[n].task = 0
  BY DEF StartChange, Tasks
<1>8. /\ reported \subseteq 1..changes /\ exposed \subseteq 1..changes
      /\ 1..changes \subseteq 1..(changes + 1) /\ changes + 1 \in 1..(changes + 1)
      /\ changes + 1 \notin 1..changes
  BY <1>3 DEF RecordsInv, RecordsTypeOK
<1>9. RecordsTypeOK'
  BY <1>1, <1>3, <1>5, <1>8 DEF RecordsInv, RecordsTypeOK
<1>10. AppliedInOrder' /\ MadeFits' /\ \A r \in Records' : r.at <= clock'
  <2>1. /\ Fits(disk', Lines', clock') /\ Fits(g.copy, Lines', clock') /\ Fits(g.held, Lines', clock')
    BY <1>1, <1>4, <1>6, RecordsFacts
  <2>2. /\ disk'.made \subseteq reported'
        /\ g.copy.made \subseteq reported' /\ g.held.made \subseteq reported'
    BY <1>1, <1>4 DEF RecordsInv, MadeFits, Copies, Unanswered
  <2> QED BY <1>1, <1>5, <1>6, <2>1, <2>2, RecordsKept
<1>11. OperationFits(m)'
  <2>1. \A n \in Managers : mgr'[n].task # 0 => n = m
    BY <1>7, <1>5 DEF OthersKept
  <2>2. lock # m
    BY <1>1, <1>2 DEF OperationFits
  <2>3. mgr'[m].task \in 1..changes' /\ mgr'[m].task \notin reported'
    BY <1>1, <1>4, <1>5, <1>8
  <2>4. g.same => g.held = g.copy
    BY <1>2, <1>4 DEF OperationFits
  <2> QED BY <1>4, <1>5, <1>6, <2>1, <2>2, <2>3, <2>4 DEF OperationFits
<1>12. \A n \in Managers \ {m} : OperationFits(n)'
  BY <1>1, <1>3, <1>5, <1>6, <1>7, OthersOperate
<1>13. UnseenFits(m)'
  <2> SUFFICES ASSUME g.task \notin exposed' PROVE UnseenFits(m)'
    BY <1>5 DEF UnseenFits
  <2>1. Busy = {}
    BY <1>1, <1>4
  <2>2. \A n \in Managers \ {m} : mgr'[n].step \in {"idle", "down"}
    BY <2>1, <1>5 DEF Busy, OthersKept
  <2> QED BY <1>4, <1>5, <2>2 DEF UnseenFits
<1>14. \A n \in Managers \ {m} : UnseenFits(n)'
  <2>1. \A n \in Managers \ {m} : mgr'[n].task = 0
    BY <1>5, <1>7 DEF OthersKept
  <2> QED BY <2>1 DEF UnseenFits
<1>15. \A c \in reported' \ exposed' : ReportedFits(c)'
  <2> SUFFICES ASSUME NEW c \in reported \ exposed PROVE ReportedFits(c)'
    BY <1>1
  <2>1. c \in disk.made /\ WillHave(m, c)
    BY DEF RecordsInv, ReportedFits
  <2>2. WillHave(m, c)'
    BY <1>1, <1>4, <1>5, <2>1 DEF WillHave
  <2> QED BY <1>1, <1>3, <1>5, <2>1, <2>2, OthersHave
<1> QED BY <1>6, <1>9, <1>10, <1>11, <1>12, <1>13, <1>14, <1>15 DEF RecordsInv

\* What the operation holds is what it synchronizes: the copy in memory or the one on disk.
LEMMA SyncStep ==
  ASSUME RecordsInv, NEW m \in Managers, Sync(m)
  PROVE  RecordsInv'
<1> DEFINE adopts == ~mgr[m].current /\ disk.at > mgr[m].copy.at
           copy == IF adopts THEN disk ELSE mgr[m].copy
           g == [mgr[m] EXCEPT !.step = "refresh", !.copy = copy, !.held = copy,
                               !.same = TRUE, !.current = TRUE, !.durable = FALSE]
<1>1. /\ mgr[m].step = "sync" /\ mgr' = [mgr EXCEPT ![m] = g] /\ UNCHANGED logVars
      /\ disk' = disk /\ changes' = changes /\ reported' = reported /\ exposed' = exposed
  BY DEF Sync, At
<1>2. mgr[m] \in Manager /\ OperationFits(m) /\ disk \in Record
  BY RecordsFacts DEF RecordsInv
<1>3. copy = disk \/ copy = mgr[m].copy
  OBVIOUS
<1>4. copy \in Record
  BY <1>2, <1>3, ManagerFields
<1>5. /\ ~mgr[m].current /\ mgr[m].copy.at < disk.at => copy = disk
      /\ copy # disk => copy = mgr[m].copy
  <2>1. mgr[m].copy.at \in Nat /\ disk.at \in Nat
    BY <1>2, RecordsFacts, ManagerFields
  <2> QED BY <2>1
<1> HIDE DEF copy
<1>6. /\ g \in Manager /\ g.step = "refresh" /\ g.task = mgr[m].task /\ g.copy = copy
      /\ g.held = copy /\ g.same = TRUE /\ g.current = TRUE
  BY <1>2, <1>4 DEF Manager, Steps
<1> HIDE DEF g
<1>7. mgr' \in [Managers -> Manager] /\ mgr'[m] = g /\ OthersKept(m)
  BY <1>1, <1>6, OneMoved
<1>8. /\ LogInv' /\ TimesFit' /\ Grown /\ Lines' = Lines /\ Len(Lines') \in Nat
      /\ clock' = clock /\ clock' \in Nat /\ lock' = lock /\ turn' = turn
  BY <1>1, LogAlone
<1>9. RecordsTypeOK'
  BY <1>1, <1>7 DEF RecordsInv, RecordsTypeOK
<1>10. AppliedInOrder' /\ MadeFits' /\ \A r \in Records' : r.at <= clock'
  <2>1. /\ Fits(disk', Lines', clock') /\ Fits(g.copy, Lines', clock') /\ Fits(g.held, Lines', clock')
    BY <1>1, <1>3, <1>6, <1>8, RecordsFacts
  <2>2. disk'.made \subseteq reported' /\ copy.made \subseteq reported'
    BY <1>1, <1>3 DEF RecordsInv, MadeFits, Copies, Unanswered
  <2> QED BY <1>1, <1>6, <1>7, <1>8, <2>1, <2>2, RecordsKept
<1>11. OperationFits(m)'
  <2>1. \A n \in Managers : g.task # 0 /\ mgr'[n].task # 0 => n = m
    BY <1>2, <1>6, <1>7 DEF OthersKept, OperationFits
  <2>2. lock # m
    BY <1>1, <1>2 DEF OperationFits
  <2>3. g.task # 0 => g.task \in 1..changes' /\ g.task \notin reported'
    BY <1>1, <1>2, <1>6 DEF OperationFits
  <2> QED BY <1>6, <1>7, <1>8, <2>1, <2>2, <2>3 DEF OperationFits
<1>12. \A n \in Managers \ {m} : OperationFits(n)'
  BY <1>1, <1>6, <1>7, <1>8, RecordsFacts, OthersOperate
<1>13. UnseenFits(m)'
  <2>1. UnseenFits(m)
    BY DEF RecordsInv
  <2> QED BY <1>1, <1>6, <1>7, <2>1 DEF UnseenFits, OthersKept
<1>14. \A n \in Managers \ {m} : UnseenFits(n)'
  BY <1>1, <1>7, OthersSeen
<1>15. \A c \in reported' \ exposed' : ReportedFits(c)'
  <2> SUFFICES ASSUME NEW c \in reported \ exposed PROVE ReportedFits(c)'
    BY <1>1
  <2>1. c \in disk.made /\ WillHave(m, c)
    BY DEF RecordsInv, ReportedFits
  <2>2. c \in copy.made
    BY <1>1, <1>5, <2>1 DEF WillHave
  <2>3. WillHave(m, c)'
    BY <1>6, <1>7, <2>2 DEF WillHave
  <2> QED BY <1>1, <1>7, <2>1, <2>3, RecordsFacts, OthersHave
<1> QED BY <1>8, <1>9, <1>10, <1>11, <1>12, <1>13, <1>14, <1>15 DEF RecordsInv

-----------------------------------------------------------------------------
(* Saving.                                                                  *)

\* A save leaves the newer of the two on disk and in memory; other stamps are outdated.
LEMMA StoreFacts ==
  ASSUME RecordsInv, NEW m \in Managers, NEW step \in {"idle", "change"}, Store(m, step)
  PROVE  /\ mgr' \in [Managers -> Manager] /\ OthersKept(m)
         /\ \A n \in Managers \ {m} : mgr'[n].current = FALSE
         /\ mgr'[m].step = step /\ mgr'[m].task = (IF step = "idle" THEN 0 ELSE mgr[m].task)
         /\ mgr'[m].copy = disk' /\ mgr'[m].held = mgr[m].held
         /\ mgr'[m].same => disk' = mgr[m].copy /\ mgr[m].same
         /\ \/ disk' = disk /\ disk.at > mgr[m].copy.at
            \/ disk' = mgr[m].copy /\ disk.at <= mgr[m].copy.at
<1> DEFINE newer == disk.at > mgr[m].copy.at
           task == IF step = "idle" THEN 0 ELSE mgr[m].task
           same == mgr[m].same /\ ~newer
           g == [mgr[m] EXCEPT !.step = step, !.task = task, !.current = TRUE,
                               !.copy = disk', !.same = same]
<1>1. \A n \in Managers : mgr[n] \in Manager
  BY RecordsFacts
<1>2. disk' = IF newer THEN disk ELSE mgr[m].copy
  BY DEF Store
<1>3. \/ newer /\ disk' = disk /\ disk.at > mgr[m].copy.at
      \/ ~newer /\ disk' = mgr[m].copy /\ disk.at <= mgr[m].copy.at
  <2>1. mgr[m].copy.at \in Nat /\ disk.at \in Nat
    BY <1>1, RecordsFacts, ManagerFields
  <2> QED BY <1>2, <2>1
<1>4. disk' \in Record
  BY <1>1, <1>3, RecordsFacts, ManagerFields
<1>5. mgr' = [n \in Managers |-> IF n = m THEN g ELSE [mgr[n] EXCEPT !.current = FALSE]]
  BY DEF Store
<1>6. same \in BOOLEAN /\ task \in 0..MaxChanges /\ step \in Steps
  <2>1. mgr[m].task \in 0..MaxChanges /\ 0 \in 0..MaxChanges
    BY <1>1, ManagerFields, RunRecordsAssumption
  <2> QED BY <2>1 DEF Steps
<1>7. (same => ~newer /\ mgr[m].same)
  OBVIOUS
<1> HIDE DEF newer, same, task
<1>8. /\ g \in Manager /\ g.step = step /\ g.task = task /\ g.copy = disk'
      /\ g.held = mgr[m].held /\ g.same = same
  BY <1>1, <1>4, <1>6 DEF Manager
<1> HIDE DEF g
<1>9. mgr'[m] = g
  BY <1>5
<1>10. ASSUME NEW n \in Managers \ {m}
       PROVE  /\ mgr'[n] \in Manager /\ mgr'[n].current = FALSE
              /\ mgr'[n].step = mgr[n].step /\ mgr'[n].task = mgr[n].task
              /\ mgr'[n].copy = mgr[n].copy /\ mgr'[n].held = mgr[n].held
              /\ mgr'[n].same = mgr[n].same
  <2>1. mgr'[n] = [mgr[n] EXCEPT !.current = FALSE] /\ mgr[n] \in Manager
    BY <1>1, <1>5
  <2> QED BY <2>1 DEF Manager
<1>11. mgr' \in [Managers -> Manager]
  <2>1. \A n \in Managers : mgr'[n] \in Manager
    BY <1>8, <1>9, <1>10
  <2> QED BY <1>5, <2>1
<1>12. OthersKept(m)
  BY <1>10 DEF OthersKept
<1> QED BY <1>3, <1>7, <1>8, <1>9, <1>10, <1>11, <1>12 DEF task

\* Both saves: the one of news from the log, and the one that an operation ends with.
LEMMA StoreStep ==
  ASSUME RecordsInv, NEW m \in Managers, NEW step \in {"idle", "change"}, Store(m, step),
         UNCHANGED <<changes, exposed, logVars>>, reported' = reported \cup Unanswered(m),
         \/ mgr[m].step = "save" /\ (step = "change" => mgr[m].task # 0)
         \/ mgr[m].step = "store" /\ step = "idle"
  PROVE  RecordsInv'
<1>1. /\ mgr' \in [Managers -> Manager] /\ OthersKept(m)
      /\ \A n \in Managers \ {m} : mgr'[n].current = FALSE
      /\ mgr'[m].step = step /\ mgr'[m].task = (IF step = "idle" THEN 0 ELSE mgr[m].task)
      /\ mgr'[m].copy = disk' /\ mgr'[m].held = mgr[m].held
      /\ mgr'[m].same => disk' = mgr[m].copy /\ mgr[m].same
      /\ \/ disk' = disk /\ disk.at > mgr[m].copy.at
         \/ disk' = mgr[m].copy /\ disk.at <= mgr[m].copy.at
  BY StoreFacts
<1>2. mgr[m] \in Manager /\ OperationFits(m) /\ disk \in Record /\ changes \in Nat
  BY RecordsFacts DEF RecordsInv
<1>3. /\ LogInv' /\ TimesFit' /\ Grown /\ Lines' = Lines /\ Len(Lines') \in Nat
      /\ clock' = clock /\ clock' \in Nat /\ lock' = lock /\ turn' = turn
  BY LogAlone
<1>4. disk' \in Record /\ disk.at \in Nat /\ mgr[m].copy.at \in Nat /\ disk'.at \in Nat /\ disk.at <= disk'.at
  <2>1. disk.at \in Nat /\ mgr[m].copy.at \in Nat /\ mgr[m].copy \in Record
    BY <1>2, RecordsFacts, ManagerFields
  <2> QED BY <1>1, <1>2, <2>1
<1>5. /\ mgr[m].step = "save" => Unanswered(m) = {} /\ reported' = reported
      /\ mgr[m].step = "store" => /\ Unanswered(m) = {mgr[m].task} /\ step = "idle"
                                  /\ mgr[m].task # 0 /\ mgr[m].task \in 1..changes
      /\ step = "change" => mgr[m].step = "save" /\ mgr[m].task # 0
  BY <1>2 DEF Unanswered, OperationFits
<1>6. RecordsTypeOK'
  <2>1. reported' \subseteq 1..changes
    BY <1>5 DEF RecordsInv, RecordsTypeOK
  <2> QED BY <1>1, <1>4, <2>1 DEF RecordsInv, RecordsTypeOK
<1>7. AppliedInOrder' /\ MadeFits' /\ \A r \in Records' : r.at <= clock'
  <2>1. /\ Fits(disk', Lines', clock') /\ Fits(mgr[m].held, Lines', clock')
    BY <1>1, <1>3, RecordsFacts
  <2>2. /\ disk.made \subseteq reported' /\ mgr[m].copy.made \subseteq reported'
        /\ mgr[m].held.made \subseteq reported'
    BY DEF RecordsInv, MadeFits, Copies
  <2>3. disk'.made \subseteq reported'
    BY <1>1, <2>2
  <2> QED BY <1>1, <1>3, <2>1, <2>2, <2>3, RecordsKept
<1>8. OperationFits(m)'
  <2>1. mgr'[m].task # 0 => step = "change" /\ mgr'[m].task = mgr[m].task /\ reported' = reported
    BY <1>1, <1>5
  <2>2. \A n \in Managers : mgr'[m].task # 0 /\ mgr'[n].task # 0 => n = m
    BY <1>1, <1>2, <2>1 DEF OthersKept, OperationFits
  <2>3. lock # m
    BY <1>2 DEF OperationFits
  <2>4. mgr'[m].task # 0 => mgr'[m].task \in 1..changes' /\ mgr'[m].task \notin reported'
    BY <1>2, <2>1 DEF OperationFits
  <2>5. mgr'[m].same => mgr'[m].held = mgr'[m].copy
    BY <1>1, <1>2 DEF OperationFits
  <2>6. /\ step = "idle" => mgr'[m].task = 0
        /\ step = "change" => mgr'[m].task # 0
    BY <1>1, <1>5
  <2> QED BY <1>1, <1>3, <2>2, <2>3, <2>4, <2>5, <2>6 DEF OperationFits
<1>9. \A n \in Managers \ {m} : OperationFits(n)'
  <2>1. mgr'[m].task \in {mgr[m].task, 0}
    BY <1>1
  <2>2. reported' = reported \/ (mgr[m].task # 0 /\ reported' = reported \cup {mgr[m].task})
    BY <1>5
  <2> QED BY <1>1, <1>2, <1>3, <2>1, <2>2, OthersOperate
<1>10. UnseenFits(m)'
  <2>1. UnseenFits(m)
    BY DEF RecordsInv
  <2>2. CASE step = "idle"
    BY <1>1, <2>2 DEF UnseenFits
  <2>3. CASE step = "change"
    BY <1>1, <2>1, <2>3 DEF UnseenFits, OthersKept
  <2> QED BY <2>2, <2>3
<1>11. \A n \in Managers \ {m} : UnseenFits(n)'
  BY <1>1, OthersSeen
<1>12. ASSUME NEW c \in reported \ exposed PROVE ReportedFits(c)'
  <2>1. c \in disk.made /\ WillHave(m, c)
    BY DEF RecordsInv, ReportedFits
  <2>2. c \in mgr[m].copy.made
    BY <2>1 DEF WillHave
  <2>3. c \in disk'.made /\ WillHave(m, c)'
    BY <1>1, <2>1, <2>2 DEF WillHave
  <2> QED BY <1>1, <1>4, <2>3, OthersHave
<1>13. ASSUME mgr[m].step = "store", NEW c, c = mgr[m].task, c \notin exposed
       PROVE  ReportedFits(c)'
  <2>1. /\ mgr[m].task \in mgr[m].copy.made /\ disk.at < mgr[m].copy.at
        /\ \A n \in Managers \ {m} : mgr[n].step \in {"idle", "down"} /\ mgr[n].copy.at < mgr[m].copy.at
    BY <1>2, <1>5, <1>13 DEF RecordsInv, UnseenFits, Newest, OperationFits
  <2>2. disk' = mgr[m].copy
    BY <1>1, <1>4, <2>1
  <2>3. c \in disk'.made /\ WillHave(m, c)'
    BY <1>1, <1>13, <2>1, <2>2 DEF WillHave
  <2>4. ASSUME NEW n \in Managers \ {m} PROVE WillHave(n, c)'
    BY <1>1, <2>1, <2>2 DEF WillHave, OthersKept
  <2> QED BY <2>3, <2>4 DEF ReportedFits
<1>14. \A c \in reported' \ exposed' : ReportedFits(c)'
  <2>1. ASSUME mgr[m].step = "store", NEW c \in reported' \ exposed', c \notin reported
        PROVE  ReportedFits(c)'
    <3>1. c = mgr[m].task /\ c \notin exposed
      BY <1>5, <2>1
    <3> QED BY <1>13, <2>1, <3>1
  <2> QED BY <1>5, <1>12, <2>1
<1> QED BY <1>3, <1>6, <1>7, <1>8, <1>9, <1>10, <1>11, <1>14 DEF RecordsInv

LEMMA SaveNewsStep ==
  ASSUME RecordsInv, NEW m \in Managers, SaveNews(m)
  PROVE  RecordsInv'
<1> DEFINE step == IF mgr[m].task = 0 THEN "idle" ELSE "change"
<1>1. /\ mgr[m].step = "save" /\ Store(m, step) /\ UNCHANGED <<changes, exposed, logVars>>
      /\ reported' = reported
  BY DEF SaveNews, At
<1>2. step \in {"idle", "change"} /\ (step = "change" => mgr[m].task # 0)
  OBVIOUS
<1> HIDE DEF step
<1>3. reported' = reported \cup Unanswered(m)
  BY <1>1 DEF Unanswered
<1> QED BY <1>1, <1>2, <1>3, StoreStep

LEMMA StoreChangeStep ==
  ASSUME RecordsInv, NEW m \in Managers, StoreChange(m)
  PROVE  RecordsInv'
<1>1. /\ mgr[m].step = "store" /\ Store(m, "idle") /\ UNCHANGED <<changes, exposed, logVars>>
      /\ reported' = reported \cup {mgr[m].task}
  BY DEF StoreChange, At
<1>2. reported' = reported \cup Unanswered(m)
  BY <1>1 DEF Unanswered
<1> QED BY <1>1, <1>2, StoreStep

-----------------------------------------------------------------------------
(* Changes.                                                                 *)

LEMMA HoldingFacts ==
  ASSUME NEW g \in Manager, NEW record \in Record
  PROVE  LET h == Holding(g, record) IN
         /\ h \in Manager /\ h.held = record /\ h.copy = (IF g.same THEN record ELSE g.copy)
         /\ h.step = g.step /\ h.task = g.task /\ h.same = g.same /\ h.current = g.current
         /\ h.durable = g.durable
<1> DEFINE copy == IF g.same THEN record ELSE g.copy
           h == [g EXCEPT !.held = record, !.copy = copy]
<1>1. Holding(g, record) = h
  BY DEF Holding, Manager
<1>2. copy \in Record
  BY ManagerFields
<1> HIDE DEF copy
<1>3. /\ h \in Manager /\ h.held = record /\ h.copy = copy
      /\ h.step = g.step /\ h.task = g.task /\ h.same = g.same /\ h.current = g.current
      /\ h.durable = g.durable
  BY <1>2 DEF Manager
<1> HIDE DEF h
<1> QED BY <1>1, <1>3 DEF copy

\* The change of an operation that nobody disturbs becomes the newest thing there is.
LEMMA ChangeStep ==
  ASSUME RecordsInv, NEW m \in Managers, NEW step \in {"notice", "store"}, Change(m, step)
  PROVE  RecordsInv'
<1> DEFINE made == mgr[m].held.made \cup {mgr[m].task}
           record == [mgr[m].held EXCEPT !.made = @ \cup {mgr[m].task}, !.at = clock + 1]
           h == Holding(mgr[m], record)
           g == [h EXCEPT !.step = step]
<1>1. /\ mgr[m].step = "change" /\ mgr' = [mgr EXCEPT ![m] = g] /\ clock' = clock + 1
      /\ exposed' = IF mgr[m].same THEN exposed ELSE exposed \cup {mgr[m].task}
      /\ disk' = disk /\ changes' = changes /\ reported' = reported
      /\ UNCHANGED <<file, index, ragged, lock, turn, deaths>>
  BY DEF Change, At
<1>2. mgr[m] \in Manager /\ mgr[m].held \in Record /\ mgr[m].copy \in Record
      /\ OperationFits(m) /\ disk \in Record
  BY RecordsFacts, ManagerFields DEF RecordsInv
<1>3. changes \in Nat /\ clock \in Nat /\ clock + 1 \in Nat /\ disk.at \in Nat /\ disk.at <= clock
      /\ mgr[m].task # 0 /\ mgr[m].task \in 1..changes /\ mgr[m].task \in 1..MaxChanges
  <2>1. mgr[m].task \in 1..changes
    BY <1>1, <1>2 DEF OperationFits
  <2>2. changes \in 0..MaxChanges /\ MaxChanges \in Nat
    BY RunRecordsAssumption DEF RecordsInv, RecordsTypeOK
  <2> QED BY <2>1, <2>2, RecordsFacts DEF Fits
<1>4. /\ record \in Record /\ record.made = made /\ record.at = clock + 1
      /\ record.count = mgr[m].held.count /\ record.seen = mgr[m].held.seen
  <2>1. mgr[m].held.made \cup {mgr[m].task} \in SUBSET (1..MaxChanges)
    BY <1>2, <1>3, RecordFields
  <2> QED BY <1>2, <1>3, <2>1 DEF Record
<1> HIDE DEF record
<1>5. /\ h \in Manager /\ h.held = record /\ h.copy = (IF mgr[m].same THEN record ELSE mgr[m].copy)
      /\ h.task = mgr[m].task /\ h.same = mgr[m].same /\ h.current = mgr[m].current
  BY <1>2, <1>4, HoldingFacts
<1> HIDE DEF h
<1>6. /\ g \in Manager /\ g.step = step /\ g.task = mgr[m].task /\ g.held = record
      /\ g.copy = (IF mgr[m].same THEN record ELSE mgr[m].copy) /\ g.same = mgr[m].same
  BY <1>5 DEF Manager, Steps
<1> HIDE DEF g
<1>7. mgr' \in [Managers -> Manager] /\ mgr'[m] = g /\ OthersKept(m)
  BY <1>1, <1>6, OneMoved
<1>8. /\ LogInv' /\ TimesFit' /\ Grown /\ Lines' = Lines /\ Len(Lines') \in Nat
      /\ clock' \in Nat /\ lock' = lock /\ turn' = turn
  BY <1>1, <1>3, SteadyLines, SteadyTimes, RecordsFacts DEF RecordsInv, LogSteady
<1>9. RecordsTypeOK'
  BY <1>1, <1>3, <1>7 DEF RecordsInv, RecordsTypeOK
<1>10. AppliedInOrder' /\ MadeFits' /\ \A r \in Records' : r.at <= clock'
  <2>1. /\ Fits(disk', Lines', clock') /\ Fits(mgr[m].copy, Lines', clock')
        /\ Fits(mgr[m].held, Lines', clock')
    <3>1. /\ Fits(disk, Lines, clock) /\ Fits(mgr[m].copy, Lines, clock)
          /\ Fits(mgr[m].held, Lines, clock) /\ clock <= clock + 1 /\ Len(Lines) \in Nat
      BY <1>3, RecordsFacts
    <3> QED BY <1>1, <1>2, <1>3, <1>8, <3>1, FitsKept
  <2>2. Fits(record, Lines', clock')
    BY <1>1, <1>3, <1>4, <2>1 DEF Fits
  <2>3. Fits(g.copy, Lines', clock') /\ Fits(g.held, Lines', clock')
    BY <1>6, <2>1, <2>2
  <2>4. /\ disk'.made \subseteq reported' /\ mgr[m].copy.made \subseteq reported
        /\ mgr[m].held.made \subseteq reported
    BY <1>1 DEF RecordsInv, MadeFits, Copies, Unanswered
  <2>5. Unanswered(m)' = {mgr[m].task}
    BY <1>6, <1>7 DEF Unanswered
  <2>6. /\ g.copy.made \subseteq reported' \cup Unanswered(m)'
        /\ g.held.made \subseteq reported' \cup Unanswered(m)'
    BY <1>1, <1>4, <1>6, <2>4, <2>5
  <2> QED BY <1>1, <1>7, <1>8, <2>1, <2>3, <2>4, <2>6, RecordsKept
<1>11. OperationFits(m)'
  <2>1. \A n \in Managers : g.task # 0 /\ mgr'[n].task # 0 => n = m
    BY <1>2, <1>6, <1>7 DEF OthersKept, OperationFits
  <2>2. lock # m
    BY <1>1, <1>2 DEF OperationFits
  <2>3. g.task \in 1..changes' /\ g.task \notin reported'
    BY <1>1, <1>2, <1>3, <1>6 DEF OperationFits
  <2>4. g.same => g.held = g.copy
    BY <1>6
  <2> QED BY <1>3, <1>6, <1>7, <1>8, <2>1, <2>2, <2>3, <2>4 DEF OperationFits
<1>12. \A n \in Managers \ {m} : OperationFits(n)'
  BY <1>1, <1>3, <1>6, <1>7, <1>8, OthersOperate
<1>13. UnseenFits(m)'
  <2> SUFFICES ASSUME mgr[m].task \notin exposed' PROVE UnseenFits(m)'
    BY <1>6, <1>7 DEF UnseenFits
  <2>1. mgr[m].same /\ mgr[m].task \notin exposed
    BY <1>1
  <2>2. UnseenFits(m)
    BY DEF RecordsInv
  <2>3. \A n \in Managers \ {m} : mgr'[n].step \in {"idle", "down"}
    BY <1>3, <1>7, <2>1, <2>2 DEF UnseenFits, OthersKept
  <2>4. g.same /\ g.held = record /\ g.copy = record /\ mgr[m].task \in record.made
    BY <1>4, <1>6, <2>1
  <2>5. disk'.at < record.at /\ \A n \in Managers \ {m} : mgr'[n].copy.at < record.at
    <3>1. \A n \in Managers \ {m} : mgr'[n].copy.at < clock + 1
      <4> SUFFICES ASSUME NEW n \in Managers \ {m} PROVE mgr[n].copy.at < clock + 1
        BY <1>7 DEF OthersKept
      <4>1. mgr[n].copy.at \in Nat /\ mgr[n].copy.at <= clock
        BY RecordsFacts, ManagerFields DEF Fits
      <4> QED BY <1>3, <4>1
    <3>2. disk'.at < clock + 1
      BY <1>1, <1>3
    <3> QED BY <1>4, <3>1, <3>2
  <2>6. lock' # m
    BY <1>1, <1>2 DEF OperationFits
  <2> QED BY <1>6, <1>7, <2>3, <2>4, <2>5, <2>6 DEF UnseenFits, Newest
<1>14. \A n \in Managers \ {m} : UnseenFits(n)'
  BY <1>1, <1>7, OthersSeen
<1>15. \A c \in reported' \ exposed' : ReportedFits(c)'
  <2> SUFFICES ASSUME NEW c \in reported \ exposed PROVE ReportedFits(c)'
    BY <1>1
  <2>1. c \in disk.made /\ WillHave(m, c)
    BY DEF RecordsInv, ReportedFits
  <2>2. c \in g.copy.made
    BY <1>1, <1>2, <1>4, <1>6, <2>1 DEF WillHave, OperationFits
  <2>3. WillHave(m, c)'
    BY <1>7, <2>2 DEF WillHave
  <2> QED BY <1>1, <1>3, <1>7, <2>1, <2>3, OthersHave
<1> QED BY <1>8, <1>9, <1>10, <1>11, <1>12, <1>13, <1>14, <1>15 DEF RecordsInv

-----------------------------------------------------------------------------
(* Refreshing.                                                              *)

LEMMA RefreshedFacts ==
  ASSUME RecordsInv, NEW m \in Managers, NEW after, Refreshed(m, after),
         \A durable \in BOOLEAN : after[durable] \in Steps
  PROVE  LET s == Applied(mgr[m].held, Page(mgr[m].held.count)) IN
         /\ Repair /\ disk' = disk /\ changes' = changes /\ reported' = reported /\ exposed' = exposed
         /\ mgr' \in [Managers -> Manager] /\ OthersKept(m)
         /\ mgr'[m].held = s /\ mgr'[m].copy = (IF mgr[m].same THEN s ELSE mgr[m].copy)
         /\ mgr'[m].task = mgr[m].task /\ mgr'[m].same = mgr[m].same
         /\ \/ mgr'[m].step = mgr[m].step /\ s.count < Len(Lines)
            \/ s.count >= Len(Lines) /\ \E durable \in BOOLEAN : mgr'[m].step = after[durable]
         /\ s \in Record /\ Fits(s, Lines, clock) /\ s.made = mgr[m].held.made
         /\ mgr[m].held.count < Len(Lines) =>
              s.count > mgr[m].held.count /\ s.at = Lines[s.count].event.at
<1> DEFINE page == Page(mgr[m].held.count)
           s == Applied(mgr[m].held, page)
           durable == mgr[m].durable \/ \E n \in DOMAIN page : page[n].kind # "agent_line"
           more == mgr[m].held.count + Len(page) < Len(EnsuredIndex)
           step == IF more THEN mgr[m].step ELSE after[durable]
           h == Holding(mgr[m], s)
           g == [h EXCEPT !.durable = durable, !.step = step]
<1>1. /\ Repair /\ mgr' = [mgr EXCEPT ![m] = g]
      /\ disk' = disk /\ changes' = changes /\ reported' = reported /\ exposed' = exposed
  BY DEF Refreshed
<1>2. mgr[m] \in Manager /\ mgr[m].held \in Record /\ mgr[m].held.count \in Nat
      /\ mgr[m].held.count <= Len(Lines) /\ Fits(mgr[m].held, Lines, clock)
      /\ mgr[m].step \in Steps /\ mgr[m].durable \in BOOLEAN
  BY RecordsFacts, ManagerFields DEF Fits
<1>3. LogInv /\ clock \in Nat /\ \A i \in 1..Len(Lines) : Lines[i].event.at <= clock
  BY RecordsFacts DEF RecordsInv, TimesFit
<1>4. /\ s \in Record /\ Fits(s, Lines, clock) /\ s.made = mgr[m].held.made
      /\ s.count = mgr[m].held.count + Len(page)
      /\ mgr[m].held.count < Len(Lines) =>
           s.count > mgr[m].held.count /\ s.at = Lines[s.count].event.at
  BY <1>2, <1>3, AppliedFacts
<1>5. Len(EnsuredIndex) = Len(Lines) /\ Len(page) \in Nat
  BY <1>2, <1>3, PageFacts
<1>6. durable \in BOOLEAN
  BY <1>2, Zenon
<1> HIDE DEF s, page, durable
<1>7. /\ s.count \in Nat /\ Len(Lines) \in Nat
      /\ \/ step = mgr[m].step /\ s.count < Len(Lines)
         \/ s.count >= Len(Lines) /\ step = after[durable]
  <2>1. s.count \in Nat /\ Len(Lines) \in Nat
    BY <1>4, RecordFields, RecordsFacts
  <2> QED BY <1>4, <1>5, <2>1
<1>8. step \in Steps
  BY <1>2, <1>6, <1>7
<1> HIDE DEF step, more
<1>9. /\ h \in Manager /\ h.held = s /\ h.copy = (IF mgr[m].same THEN s ELSE mgr[m].copy)
      /\ h.task = mgr[m].task /\ h.same = mgr[m].same
  BY <1>2, <1>4, HoldingFacts
<1> HIDE DEF h
<1>10. /\ g \in Manager /\ g.step = step /\ g.task = mgr[m].task /\ g.held = s
       /\ g.copy = (IF mgr[m].same THEN s ELSE mgr[m].copy) /\ g.same = mgr[m].same
  BY <1>6, <1>8, <1>9 DEF Manager
<1> HIDE DEF g
<1>11. mgr' \in [Managers -> Manager] /\ mgr'[m] = g /\ OthersKept(m)
  BY <1>1, <1>10, OneMoved
<1>12. \/ mgr'[m].step = mgr[m].step /\ s.count < Len(Lines)
       \/ s.count >= Len(Lines) /\ \E d \in BOOLEAN : mgr'[m].step = after[d]
  BY <1>6, <1>7, <1>10, <1>11
<1> QED BY <1>1, <1>4, <1>10, <1>11, <1>12 DEF s, page

\* The refresh that ends with an operation's own event makes its record the newest.
LEMMA RefreshedStep ==
  ASSUME RecordsInv, NEW m \in Managers, NEW after, Refreshed(m, after),
         mgr[m].step \in {"refresh", "noticed"},
         mgr[m].step = "refresh" =>
           \A durable \in BOOLEAN : \/ after[durable] = "save"
                                    \/ after[durable] = "idle" /\ mgr[m].task = 0
                                    \/ after[durable] = "change" /\ mgr[m].task # 0,
         mgr[m].step = "noticed" => \A durable \in BOOLEAN : after[durable] = "store"
  PROVE  RecordsInv'
<1> DEFINE s == Applied(mgr[m].held, Page(mgr[m].held.count))
           new == mgr'[m].step
<1>1. /\ Repair /\ disk' = disk /\ changes' = changes /\ reported' = reported /\ exposed' = exposed
      /\ mgr' \in [Managers -> Manager] /\ OthersKept(m)
      /\ mgr'[m].held = s /\ mgr'[m].copy = (IF mgr[m].same THEN s ELSE mgr[m].copy)
      /\ mgr'[m].task = mgr[m].task /\ mgr'[m].same = mgr[m].same
      /\ \/ new = mgr[m].step /\ s.count < Len(Lines)
         \/ s.count >= Len(Lines) /\ \E durable \in BOOLEAN : new = after[durable]
      /\ s \in Record /\ Fits(s, Lines, clock) /\ s.made = mgr[m].held.made
      /\ mgr[m].held.count < Len(Lines) =>
           s.count > mgr[m].held.count /\ s.at = Lines[s.count].event.at
  <2>1. \A durable \in BOOLEAN : after[durable] \in Steps
    BY DEF Steps
  <2> QED BY <2>1, RefreshedFacts
<1> HIDE DEF s
<1>2. /\ \/ mgr[m].step = "refresh" /\ new = "refresh"
         \/ mgr[m].step = "refresh" /\ new = "save"
         \/ mgr[m].step = "refresh" /\ new = "idle" /\ mgr[m].task = 0
         \/ mgr[m].step = "refresh" /\ new = "change" /\ mgr[m].task # 0
         \/ mgr[m].step = "noticed" /\ new = "noticed" /\ s.count < Len(Lines)
         \/ mgr[m].step = "noticed" /\ new = "store" /\ s.count >= Len(Lines)
  BY <1>1
<1>3. mgr[m] \in Manager /\ OperationFits(m) /\ changes \in Nat /\ disk.at \in Nat
  BY RecordsFacts DEF RecordsInv
<1>4. /\ LogInv' /\ TimesFit' /\ Grown /\ Lines' = Lines /\ Len(Lines') \in Nat
      /\ clock' = clock /\ clock' \in Nat /\ lock' = lock /\ turn' = turn /\ lock = Nobody
  <2>1. LogInv' /\ TimesFit' /\ Grown /\ Lines' = Lines
    BY <1>1, SteadyLines, SteadyTimes DEF RecordsInv, LogSteady
  <2> QED BY <1>1, <2>1, RecordsFacts DEF Repair
<1>5. RecordsTypeOK'
  BY <1>1 DEF RecordsInv, RecordsTypeOK
<1>6. AppliedInOrder' /\ MadeFits' /\ \A r \in Records' : r.at <= clock'
  <2>1. Fits(disk', Lines', clock') /\ Fits(mgr[m].copy, Lines', clock') /\ Fits(s, Lines', clock')
    BY <1>1, <1>4, RecordsFacts
  <2>2. Unanswered(m)' = Unanswered(m)
    BY <1>1, <1>2 DEF Unanswered
  <2>3. /\ disk'.made \subseteq reported'
        /\ mgr[m].copy.made \subseteq reported' \cup Unanswered(m)'
        /\ s.made \subseteq reported' \cup Unanswered(m)'
    BY <1>1, <2>2 DEF RecordsInv, MadeFits, Copies
  <2>4. /\ Fits(mgr'[m].copy, Lines', clock') /\ Fits(mgr'[m].held, Lines', clock')
        /\ mgr'[m].copy.made \subseteq reported' \cup Unanswered(m)'
        /\ mgr'[m].held.made \subseteq reported' \cup Unanswered(m)'
    BY <1>1, <2>1, <2>3
  <2> QED BY <1>1, <1>4, <2>1, <2>3, <2>4, RecordsKept
<1>7. OperationFits(m)'
  <2>1. \A n \in Managers : mgr'[m].task # 0 /\ mgr'[n].task # 0 => n = m
    BY <1>1, <1>3 DEF OthersKept, OperationFits
  <2>2. lock' # m
    BY <1>4, RunRecordsAssumption, EventLogAssumption
  <2>3. mgr'[m].task # 0 => mgr'[m].task \in 1..changes' /\ mgr'[m].task \notin reported'
    BY <1>1, <1>3 DEF OperationFits
  <2>4. mgr'[m].same => mgr'[m].held = mgr'[m].copy
    BY <1>1
  <2>5. mgr[m].step = "noticed" => mgr[m].task # 0
    BY <1>3 DEF OperationFits
  <2>6. /\ new \in {"idle", "down"} => mgr'[m].task = 0
        /\ new \in {"change", "notice", "noticed", "store"} => mgr'[m].task # 0
    BY <1>1, <1>2, <2>5
  <2> QED BY <2>1, <2>2, <2>3, <2>4, <2>6 DEF OperationFits
<1>8. \A n \in Managers \ {m} : OperationFits(n)'
  BY <1>1, <1>3, <1>4, OthersOperate
<1>9. UnseenFits(m)'
  <2> SUFFICES ASSUME mgr[m].task # 0, mgr[m].task \notin exposed PROVE UnseenFits(m)'
    BY <1>1 DEF UnseenFits
  <2>1. UnseenFits(m)
    BY DEF RecordsInv
  <2>2. \A n \in Managers \ {m} : mgr'[n].step \in {"idle", "down"}
    BY <1>1, <2>1 DEF UnseenFits, OthersKept
  <2>3. CASE mgr[m].step = "refresh"
    BY <1>2, <2>2, <2>3 DEF UnseenFits
  <2>4. CASE mgr[m].step = "noticed"
    <3>1. /\ mgr[m].same /\ mgr[m].task \in mgr[m].held.made /\ mgr[m].held.count < Len(Lines)
          /\ Newest(m, Lines[Len(Lines)].event.at)
      BY <2>1, <2>4 DEF UnseenFits
    <3>2. mgr'[m].copy = s /\ mgr'[m].held = s /\ mgr'[m].same /\ mgr'[m].task \in s.made
      BY <1>1, <3>1
    <3>3. /\ disk'.at < Lines[Len(Lines)].event.at
          /\ \A n \in Managers \ {m} : mgr'[n].copy.at < Lines[Len(Lines)].event.at
      BY <1>1, <3>1 DEF Newest, OthersKept
    <3>4. CASE new = "noticed"
      <4>1. s.count < Len(Lines)
        BY <1>2, <3>4
      <4> QED BY <1>1, <1>4, <2>2, <3>2, <3>3, <3>4, <4>1 DEF UnseenFits, Newest
    <3>5. CASE new = "store"
      <4>1. s.count = Len(Lines)
        <5>1. s.count \in Nat /\ s.count <= Len(Lines) /\ s.count >= Len(Lines) /\ Len(Lines) \in Nat
          BY <1>1, <1>2, <3>5, RecordFields, RecordsFacts DEF Fits
        <5> QED BY <5>1
      <4>2. s.at = Lines[Len(Lines)].event.at
        BY <1>1, <3>1, <4>1
      <4> QED BY <1>1, <1>4, <2>2, <3>2, <3>3, <3>5, <4>2 DEF UnseenFits, Newest
    <3> QED BY <1>2, <2>4, <3>4, <3>5
  <2> QED BY <2>3, <2>4
<1>10. \A n \in Managers \ {m} : UnseenFits(n)'
  BY <1>1, OthersSeen
<1>11. \A c \in reported' \ exposed' : ReportedFits(c)'
  <2> SUFFICES ASSUME NEW c \in reported \ exposed PROVE ReportedFits(c)'
    BY <1>1
  <2>1. c \in disk.made /\ WillHave(m, c)
    BY DEF RecordsInv, ReportedFits
  <2>2. c \in mgr'[m].copy.made
    BY <1>1, <1>3, <2>1 DEF WillHave, OperationFits
  <2>3. WillHave(m, c)'
    BY <2>2 DEF WillHave
  <2> QED BY <1>1, <1>3, <2>1, <2>3, OthersHave
<1> QED BY <1>4, <1>5, <1>6, <1>7, <1>8, <1>9, <1>10, <1>11 DEF RecordsInv

LEMMA RefreshStep ==
  ASSUME RecordsInv, NEW m \in Managers, Refresh(m)
  PROVE  RecordsInv'
<1> DEFINE after == [durable \in BOOLEAN |->
             CASE durable -> "save" [] mgr[m].task = 0 -> "idle" [] OTHER -> "change"]
<1>1. mgr[m].step = "refresh" /\ Refreshed(m, after)
  BY DEF Refresh, At
<1>2. \A durable \in BOOLEAN : \/ after[durable] = "save"
                               \/ after[durable] = "idle" /\ mgr[m].task = 0
                               \/ after[durable] = "change" /\ mgr[m].task # 0
  OBVIOUS
<1> HIDE DEF after
<1> QED BY <1>1, <1>2, RefreshedStep

LEMMA RefreshNoticeStep ==
  ASSUME RecordsInv, NEW m \in Managers, RefreshNotice(m)
  PROVE  RecordsInv'
<1> DEFINE after == [durable \in BOOLEAN |-> "store"]
<1>1. mgr[m].step = "noticed" /\ Refreshed(m, after)
  BY DEF RefreshNotice, At
<1>2. \A durable \in BOOLEAN : after[durable] = "store"
  OBVIOUS
<1> HIDE DEF after
<1> QED BY <1>1, <1>2, RefreshedStep

-----------------------------------------------------------------------------
(* Appends, of the worker and of an operation.                              *)

LEMMA AppendMoves ==
  ASSUME RecordsInv, LogSteady \/ \E w \in Writers : WriteLine(w)
  PROVE  /\ LogInv' /\ TimesFit' /\ Grown /\ clock' \in Nat /\ Len(Lines') \in Nat
         /\ \A i \in 1..Len(Lines') : Lines'[i].event.at \in Nat
<1>1. LogInv' /\ TimesFit' /\ Grown
  BY SteadyLines, SteadyTimes, WriteLineStep, WrittenTimes DEF RecordsInv
<1>2. clock' \in Nat
  BY <1>1 DEF LogInv, LogTypeOK
<1>3. Lines' \in Seq(Line) /\ Len(Lines') \in Nat
  <2>1. LogSteady => Lines' = Lines /\ Lines \in Seq(Line)
    BY SteadyLines, LinesFacts DEF RecordsInv
  <2>2. (\E w \in Writers : WriteLine(w)) => Lines' = file' /\ file' \in Seq(Line)
    BY <1>1, WriteLineStep DEF RecordsInv, LogInv, LogTypeOK
  <2> QED BY <2>1, <2>2
<1>4. \A i \in 1..Len(Lines') : Lines'[i].event.at \in Nat
  <2>1. \A i \in 1..Len(Lines') : Lines'[i] \in Line
    BY <1>3
  <2>2. \A l \in Line : l.event.at \in Nat
    BY DEF Line, Event
  <2> QED BY <2>1, <2>2
<1> QED BY <1>1, <1>2, <1>3, <1>4

\* While the log grows, the records stay as they are, and with them what they have.
LEMMA RecordsAlone ==
  ASSUME RecordsInv, LogSteady \/ \E w \in Writers : WriteLine(w), UNCHANGED recordVars
  PROVE  /\ RecordsTypeOK' /\ AppliedInOrder' /\ MadeFits'
         /\ \A r \in Records' : r.at <= clock'
         /\ \A c \in reported' \ exposed' : ReportedFits(c)'
<1>1. /\ disk' = disk /\ mgr' = mgr /\ changes' = changes /\ reported' = reported
      /\ exposed' = exposed
  BY DEF recordVars
<1>2. Grown /\ clock' \in Nat /\ Len(Lines') \in Nat
  BY AppendMoves
<1>3. \A r \in Records : r \in Record /\ Fits(r, Lines, clock)
  BY RecordsFacts, ManagerFields DEF Records, Copies
<1>4. \A r \in Records' : Fits(r, Lines', clock')
  <2>1. \A r \in Records : Fits(r, Lines', clock')
    BY <1>2, <1>3, RecordsFacts, FitsKept DEF Grown
  <2> QED BY <1>1, <2>1 DEF Records, Copies
<1>5. AppliedInOrder' /\ \A r \in Records' : r.at <= clock'
  BY <1>4 DEF AppliedInOrder, Fits
<1>6. RecordsTypeOK' /\ MadeFits'
  BY <1>1 DEF RecordsInv, RecordsTypeOK, MadeFits, Copies, Unanswered
<1>7. \A c \in reported' \ exposed' : ReportedFits(c)'
  BY <1>1 DEF RecordsInv, ReportedFits, WillHave
<1> QED BY <1>5, <1>6, <1>7

LEMMA OperationAlone ==
  ASSUME RecordsInv, UNCHANGED recordVars, NEW m \in Managers,
         lock' = m => mgr[m].step = "notice" /\ turn'.part = turn'.parts
  PROVE  OperationFits(m)'
<1>1. mgr' = mgr /\ changes' = changes /\ reported' = reported
  BY DEF recordVars
<1>2. OperationFits(m)
  BY DEF RecordsInv
<1> QED BY <1>1, <1>2 DEF OperationFits

\* A later line does not make an unseen operation's event older.
LEMMA UnseenAlone ==
  ASSUME RecordsInv, LogSteady \/ \E w \in Writers : WriteLine(w), UNCHANGED recordVars,
         NEW m \in Managers,
         UnseenFits(m) /\ mgr[m].task # 0 /\ mgr[m].task \notin exposed
           /\ mgr[m].step = "notice" /\ lock' = m =>
             mgr[m].copy.at < turn'.at /\ (turn'.step = "index" => mgr[m].held.count < Len(Lines'))
  PROVE  UnseenFits(m)'
<1>1. disk' = disk /\ mgr' = mgr /\ exposed' = exposed
  BY DEF recordVars
<1>2. UnseenFits(m)
  BY DEF RecordsInv
<1>3. /\ TimesFit' /\ Grown /\ Len(Lines') \in Nat
      /\ \A i \in 1..Len(Lines') : Lines'[i].event.at \in Nat
  BY AppendMoves
<1>4. /\ Len(Lines) \in Nat /\ disk.at \in Nat /\ mgr[m].held.count \in Nat
      /\ \A n \in Managers : mgr[n].copy.at \in Nat
  BY RecordsFacts, ManagerFields
<1>5. ASSUME mgr[m].held.count < Len(Lines), Newest(m, Lines[Len(Lines)].event.at)
      PROVE  /\ mgr[m].held.count < Len(Lines')
             /\ disk.at < Lines'[Len(Lines')].event.at
             /\ \A n \in Managers \ {m} : mgr[n].copy.at < Lines'[Len(Lines')].event.at
  <2>1. /\ Len(Lines) \in 1..Len(Lines) /\ Len(Lines) \in 1..Len(Lines') /\ Len(Lines') \in 1..Len(Lines')
        /\ mgr[m].held.count < Len(Lines') /\ Len(Lines) <= Len(Lines')
    BY <1>3, <1>4, <1>5 DEF Grown
  <2>2. Lines'[Len(Lines)].event.at = Lines[Len(Lines)].event.at
    BY <1>3, <2>1 DEF Grown
  <2>3. Lines'[Len(Lines)].event.at <= Lines'[Len(Lines')].event.at
    BY <1>3, <2>1 DEF TimesFit
  <2> DEFINE last == Lines[Len(Lines)].event.at
             later == Lines'[Len(Lines')].event.at
  <2>4. last \in Nat /\ later \in Nat /\ last <= later
    BY <1>3, <2>1, <2>2, <2>3
  <2>5. disk.at < last /\ \A n \in Managers \ {m} : mgr[n].copy.at < last
    BY <1>5 DEF Newest
  <2> HIDE DEF last, later
  <2>6. disk.at < later /\ \A n \in Managers \ {m} : mgr[n].copy.at < later
    BY <1>4, <2>4, <2>5
  <2> QED BY <2>1, <2>6 DEF later
<1>6. ASSUME mgr[m].task # 0, mgr[m].task \notin exposed, mgr[m].step \in {"notice", "store"}
      PROVE  Newest(m, mgr[m].copy.at)'
  BY <1>1, <1>2, <1>6 DEF UnseenFits, Newest
<1>7. ASSUME mgr[m].task # 0, mgr[m].task \notin exposed, mgr[m].step = "noticed"
      PROVE  mgr'[m].held.count < Len(Lines') /\ Newest(m, Lines[Len(Lines)].event.at)'
  <2>1. mgr[m].held.count < Len(Lines) /\ Newest(m, Lines[Len(Lines)].event.at)
    BY <1>2, <1>7 DEF UnseenFits
  <2> QED BY <1>1, <1>5, <2>1 DEF Newest
<1> QED BY <1>1, <1>2, <1>6, <1>7 DEF UnseenFits

\* The worker's appends, deaths within a repair, and steps that are not of the records.
LEMMA ElsewhereStep ==
  ASSUME RecordsInv, LogSteady \/ \E w \in Writers : WriteLine(w), UNCHANGED recordVars,
         \A m \in Managers : lock' = m => lock = m /\ turn' = turn
  PROVE  RecordsInv'
<1>1. LogInv' /\ TimesFit' /\ Grown /\ Len(Lines') \in Nat
  BY AppendMoves
<1>2. ASSUME NEW m \in Managers PROVE OperationFits(m)' /\ UnseenFits(m)'
  <2>1. OperationFits(m)'
    BY OperationAlone DEF RecordsInv, OperationFits
  <2>2. mgr[m].held.count \in Nat /\ Len(Lines) \in Nat
    BY RecordsFacts, ManagerFields
  <2>3. ASSUME UnseenFits(m), mgr[m].task # 0, mgr[m].task \notin exposed,
               mgr[m].step = "notice", lock' = m
        PROVE  mgr[m].copy.at < turn'.at /\ (turn'.step = "index" => mgr[m].held.count < Len(Lines'))
    BY <1>1, <2>2, <2>3 DEF UnseenFits, Grown
  <2> QED BY <2>1, <2>3, UnseenAlone
<1> QED BY <1>1, <1>2, RecordsAlone DEF RecordsInv

LEMMA WorkerStep ==
  ASSUME RecordsInv, Worker \/ Rebuilder \/ UNCHANGED runVars
  PROVE  RecordsInv'
<1>1. CASE Worker
  <2>1. PICK w \in Writers \ Managers : Appending(w)
    BY <1>1 DEF Worker
  <2>2. LogSteady \/ WriteLine(w)
    BY <2>1 DEF Appending, LogSteady
  <2>3. lock' = w \/ lock' = Nobody
    BY <2>1 DEF Appending, Begin, WriteLine, WriteIndex, DieWriting
  <2>4. \A m \in Managers : lock' # m
    BY <2>3, RunRecordsAssumption, EventLogAssumption
  <2> QED BY <1>1, <2>2, <2>4, ElsewhereStep DEF Worker
<1>2. CASE Rebuilder
  <2>1. DieRebuilding /\ lock' = lock /\ turn' = turn /\ UNCHANGED recordVars
    BY <1>2 DEF Rebuilder, DieRebuilding
  <2> QED BY <2>1, ElsewhereStep DEF LogSteady
<1>3. CASE UNCHANGED runVars
  <2>1. UNCHANGED logVars /\ lock' = lock /\ turn' = turn /\ UNCHANGED recordVars
    BY <1>3 DEF runVars, logVars
  <2> QED BY <2>1, ElsewhereStep DEF LogSteady
<1> QED BY <1>1, <1>2, <1>3

\* An operation's own event: a time later than its change, and a line to be applied.
LEMMA AppendNoticeStep ==
  ASSUME RecordsInv, NEW m \in Managers, AppendNotice(m)
  PROVE  RecordsInv'
<1>1. /\ mgr[m].step = "notice" /\ m \in Writers /\ m # Nobody
      /\ disk' = disk /\ changes' = changes /\ reported' = reported /\ exposed' = exposed
      /\ \/ lock # m /\ Begin(m, "status", 1) /\ mgr' = mgr
         \/ WriteLine(m) /\ mgr' = mgr
         \/ WriteIndex(m) /\ mgr' = [mgr EXCEPT ![m].step = "noticed"]
  BY RunRecordsAssumption, EventLogAssumption DEF AppendNotice, At
<1>2. LogSteady \/ WriteLine(m)
  <2>1. "status" \in Kinds /\ 1 \in Parts("status")
    BY DEF Kinds, Parts
  <2> QED BY <1>1, <2>1 DEF LogSteady
<1>3. /\ LogInv' /\ TimesFit' /\ Grown /\ clock' \in Nat /\ Len(Lines') \in Nat
  BY <1>1, <1>2, AppendMoves
<1>4. /\ mgr[m] \in Manager /\ OperationFits(m) /\ UnseenFits(m) /\ changes \in Nat /\ disk.at \in Nat
      /\ mgr[m].copy.at \in Nat /\ mgr[m].held.count \in Nat /\ mgr[m].copy.at <= clock
      /\ mgr[m].held.count <= Len(Lines) /\ clock \in Nat /\ Len(Lines) \in Nat
  BY RecordsFacts, ManagerFields DEF RecordsInv, Fits
<1>5. CASE mgr' = mgr /\ (Begin(m, "status", 1) \/ WriteLine(m))
  <2>1. UNCHANGED recordVars
    BY <1>1, <1>5 DEF recordVars
  <2>2. /\ lock' = m /\ turn'.part = turn'.parts
        /\ \/ turn'.step = "line" /\ turn'.at = clock + 1
           \/ /\ lock = m /\ turn'.at = turn.at /\ Len(Lines') = Len(Lines) + 1
    <3>1. CASE Begin(m, "status", 1)
      BY <3>1 DEF Begin
    <3>2. CASE WriteLine(m)
      <4>1. lock' = m /\ lock = m /\ turn' = [turn EXCEPT !.step = "index"] /\ turn.part = turn.parts
        BY <1>4, <3>2 DEF WriteLine, OperationFits
      <4>2. turn'.at = turn.at /\ turn'.part = turn'.parts
        BY <4>1 DEF RecordsInv, LogInv, LogTypeOK
      <4>3. Len(Lines') = Len(Lines) + 1
        BY <1>1, <3>2, WrittenTimes DEF RecordsInv
      <4> QED BY <4>1, <4>2, <4>3
    <3> QED BY <1>5, <3>1, <3>2
  <2>3. ASSUME NEW n \in Managers PROVE OperationFits(n)'
    BY <1>1, <2>1, <2>2, OperationAlone
  <2>4. ASSUME NEW n \in Managers PROVE UnseenFits(n)'
    <3>1. ASSUME UnseenFits(n), mgr[n].task # 0, mgr[n].task \notin exposed,
                 mgr[n].step = "notice", lock' = n
          PROVE  /\ mgr[n].copy.at < turn'.at
                 /\ turn'.step = "index" => mgr[n].held.count < Len(Lines')
      <4>1. n = m
        BY <2>2, <3>1
      <4>2. CASE turn'.step = "line" /\ turn'.at = clock + 1
        BY <1>4, <4>1, <4>2
      <4>3. CASE lock = m /\ turn'.at = turn.at /\ Len(Lines') = Len(Lines) + 1
        <5>1. mgr[n].copy.at < turn.at
          BY <3>1, <4>1, <4>3 DEF UnseenFits
        <5> QED BY <1>4, <4>1, <4>3, <5>1
      <4> QED BY <2>2, <4>2, <4>3
    <3> QED BY <1>1, <1>2, <2>1, <3>1, UnseenAlone
  <2> QED BY <1>1, <1>2, <1>3, <2>1, <2>3, <2>4, RecordsAlone DEF RecordsInv
<1>6. CASE WriteIndex(m) /\ mgr' = [mgr EXCEPT ![m].step = "noticed"]
  <2> DEFINE g == [mgr[m] EXCEPT !.step = "noticed"]
  <2>1. mgr' = [mgr EXCEPT ![m] = g]
    BY <1>6
  <2>2. /\ g \in Manager /\ g.step = "noticed" /\ g.task = mgr[m].task /\ g.copy = mgr[m].copy
        /\ g.held = mgr[m].held /\ g.same = mgr[m].same
    BY <1>4 DEF Manager, Steps
  <2> HIDE DEF g
  <2>3. mgr' \in [Managers -> Manager] /\ mgr'[m] = g /\ OthersKept(m)
    BY <2>1, <2>2, OneMoved
  <2>4. lock = m /\ lock' = Nobody /\ turn.step = "index"
    BY <1>1, <1>4, <1>6 DEF WriteIndex, OperationFits, RecordsInv, LogInv, LogTypeOK
  <2>5. Lines' = Lines
    BY <1>1, <1>6, WriteIndexStep DEF RecordsInv
  <2>6. \A n \in Managers : lock' # n
    BY <2>4, RunRecordsAssumption, EventLogAssumption
  <2>7. RecordsTypeOK'
    BY <1>1, <2>3 DEF RecordsInv, RecordsTypeOK
  <2>8. AppliedInOrder' /\ MadeFits' /\ \A r \in Records' : r.at <= clock'
    <3>1. /\ Fits(disk', Lines', clock') /\ Fits(g.copy, Lines', clock') /\ Fits(g.held, Lines', clock')
      <4>1. clock' = clock
        BY <1>6 DEF WriteIndex
      <4> QED BY <1>1, <2>2, <2>5, <4>1, RecordsFacts
    <3>2. Unanswered(m)' = Unanswered(m)
      BY <1>1, <2>2, <2>3 DEF Unanswered
    <3>3. /\ disk'.made \subseteq reported'
          /\ g.copy.made \subseteq reported' \cup Unanswered(m)'
          /\ g.held.made \subseteq reported' \cup Unanswered(m)'
      BY <1>1, <2>2, <3>2 DEF RecordsInv, MadeFits, Copies
    <3> QED BY <1>1, <1>3, <2>3, <3>1, <3>3, RecordsKept
  <2>9. OperationFits(m)'
    <3>1. \A n \in Managers : g.task # 0 /\ mgr'[n].task # 0 => n = m
      BY <1>4, <2>2, <2>3 DEF OthersKept, OperationFits
    <3>2. g.task # 0 /\ g.task \in 1..changes' /\ g.task \notin reported'
      BY <1>1, <1>4, <2>2 DEF OperationFits
    <3>3. g.same => g.held = g.copy
      BY <1>4, <2>2 DEF OperationFits
    <3> QED BY <2>2, <2>3, <2>6, <3>1, <3>2, <3>3 DEF OperationFits
  <2>10. \A n \in Managers \ {m} : OperationFits(n)'
    BY <1>1, <1>4, <2>2, <2>3, <2>6, OthersOperate
  <2>11. UnseenFits(m)'
    <3> SUFFICES ASSUME mgr[m].task # 0, mgr[m].task \notin exposed PROVE UnseenFits(m)'
      BY <1>1, <2>2, <2>3 DEF UnseenFits
    <3>1. /\ \A n \in Managers \ {m} : mgr[n].step \in {"idle", "down"}
          /\ g.same /\ g.task \in g.held.made /\ Newest(m, mgr[m].copy.at)
          /\ mgr[m].copy.at < turn.at /\ g.held.count < Len(Lines)
      BY <1>1, <1>4, <2>2, <2>4 DEF UnseenFits
    <3>2. Lines[Len(Lines)].event.at = turn.at /\ turn.at \in Nat
      BY <2>4 DEF RecordsInv, TimesFit, LogInv, LogTypeOK
    <3>3. disk.at < turn.at /\ \A n \in Managers \ {m} : mgr[n].copy.at < turn.at
      <4>1. \A n \in Managers : mgr[n].copy.at \in Nat
        BY RecordsFacts, ManagerFields
      <4> QED BY <1>4, <3>1, <3>2, <4>1 DEF Newest
    <3>4. disk'.at < Lines'[Len(Lines')].event.at
          /\ \A n \in Managers \ {m} : mgr'[n].copy.at < Lines'[Len(Lines')].event.at
      BY <1>1, <2>3, <2>5, <3>2, <3>3 DEF OthersKept
    <3>5. \A n \in Managers \ {m} : mgr'[n].step \in {"idle", "down"}
      BY <2>3, <3>1 DEF OthersKept
    <3> QED BY <2>2, <2>3, <2>5, <3>1, <3>4, <3>5 DEF UnseenFits, Newest
  <2>12. \A n \in Managers \ {m} : UnseenFits(n)'
    BY <1>1, <2>3, OthersSeen
  <2>13. \A c \in reported' \ exposed' : ReportedFits(c)'
    <3> SUFFICES ASSUME NEW c \in reported \ exposed PROVE ReportedFits(c)'
      BY <1>1
    <3>1. c \in disk.made /\ WillHave(m, c)
      BY DEF RecordsInv, ReportedFits
    <3>2. WillHave(m, c)'
      BY <1>1, <2>2, <2>3, <3>1 DEF WillHave
    <3> QED BY <1>1, <1>4, <2>3, <3>1, <3>2, OthersHave
  <2> QED BY <1>3, <2>7, <2>8, <2>9, <2>10, <2>11, <2>12, <2>13 DEF RecordsInv
<1> QED BY <1>1, <1>5, <1>6

-----------------------------------------------------------------------------
(* Deaths and restarts.                                                     *)

LEMMA DieStep ==
  ASSUME RecordsInv, NEW m \in Managers, Die(m)
  PROVE  RecordsInv'
<1> DEFINE g == [mgr[m] EXCEPT !.step = "down", !.task = 0, !.durable = FALSE,
                               !.copy = NewRecord, !.held = NewRecord, !.same = TRUE]
<1>1. /\ mgr[m].step # "down" /\ mgr' = [mgr EXCEPT ![m] = g]
      /\ disk' = disk /\ changes' = changes /\ reported' = reported /\ exposed' = exposed
      /\ \/ DieWriting(m)
         \/ /\ lock # m /\ deaths < MaxDeaths /\ deaths' = deaths + 1
            /\ UNCHANGED <<file, index, ragged, lock, turn, clock>>
  BY DEF Die
<1>2. LogSteady /\ m \in Writers
  BY <1>1, RunRecordsAssumption DEF LogSteady
<1>3. /\ LogInv' /\ TimesFit' /\ Grown /\ Lines' = Lines /\ clock' \in Nat /\ Len(Lines') \in Nat
  BY <1>2, SteadyLines, AppendMoves DEF RecordsInv
<1>4. mgr[m] \in Manager /\ OperationFits(m) /\ changes \in Nat /\ disk.at \in Nat
      /\ clock \in Nat /\ Len(Lines) \in Nat
  BY RecordsFacts DEF RecordsInv
<1>5. NewRecord \in Record /\ NewRecord.at = 0 /\ NewRecord.made = {} /\ Fits(NewRecord, Lines', clock')
  BY <1>3, NewRecordFacts
<1>6. /\ g \in Manager /\ g.step = "down" /\ g.task = 0 /\ g.copy = NewRecord
      /\ g.held = NewRecord /\ g.same = TRUE
  <2>1. 0 \in 0..MaxChanges
    BY RunRecordsAssumption
  <2> HIDE DEF NewRecord
  <2> QED BY <1>4, <1>5, <2>1 DEF Manager, Steps
<1> HIDE DEF g
<1>7. mgr' \in [Managers -> Manager] /\ mgr'[m] = g /\ OthersKept(m)
  BY <1>1, <1>6, OneMoved
<1>8. /\ lock' # m
      /\ \/ lock' = lock /\ turn' = turn
         \/ lock' = Nobody /\ lock = m
  BY <1>1, RunRecordsAssumption, EventLogAssumption DEF DieWriting
<1>9. RecordsTypeOK'
  BY <1>1, <1>7 DEF RecordsInv, RecordsTypeOK
<1>10. AppliedInOrder' /\ MadeFits' /\ \A r \in Records' : r.at <= clock'
  <2>1. Fits(disk', Lines', clock')
    <3>1. disk \in Record /\ Fits(disk, Lines, clock)
      BY RecordsFacts
    <3> QED BY <1>1, <1>3, <1>4, <3>1, FitsKept DEF Grown
  <2>2. disk'.made \subseteq reported' /\ NewRecord.made \subseteq reported'
    BY <1>1, <1>5 DEF RecordsInv, MadeFits
  <2> HIDE DEF NewRecord
  <2> QED BY <1>1, <1>3, <1>5, <1>6, <1>7, <2>1, <2>2, RecordsKept
<1>11. OperationFits(m)'
  <2> HIDE DEF NewRecord
  <2> QED BY <1>6, <1>7, <1>8 DEF OperationFits
<1>12. \A n \in Managers \ {m} : OperationFits(n)'
  <2>1. lock' = Nobody => lock' \notin Managers \ {m}
    BY RunRecordsAssumption, EventLogAssumption
  <2> QED BY <1>1, <1>4, <1>6, <1>7, <1>8, <2>1, OthersOperate
<1>13. UnseenFits(m)'
  BY <1>6, <1>7 DEF UnseenFits
<1>14. ASSUME NEW n \in Managers \ {m} PROVE UnseenFits(n)'
  <2> SUFFICES ASSUME mgr'[n].task # 0, mgr'[n].task \notin exposed' PROVE UnseenFits(n)'
    BY DEF UnseenFits
  <2>1. /\ mgr'[n].step = mgr[n].step /\ mgr'[n].task = mgr[n].task /\ mgr'[n].copy = mgr[n].copy
        /\ mgr'[n].held = mgr[n].held /\ mgr'[n].same = mgr[n].same
    BY <1>7 DEF OthersKept
  <2>2. UnseenFits(n) /\ mgr[n].task # 0 /\ mgr[n].task \notin exposed
    BY <1>1, <2>1 DEF RecordsInv
  <2>3. /\ mgr[m].step = "idle"
        /\ \A k \in Managers \ {n} : mgr'[k].step \in {"idle", "down"}
    BY <1>1, <1>6, <1>7, <2>2 DEF UnseenFits, OthersKept
  <2>4. lock # m /\ lock' = lock /\ turn' = turn
    BY <1>4, <1>8, <2>3 DEF OperationFits
  <2>5. \A k \in Managers \ {n} : mgr'[k].copy.at = mgr[k].copy.at \/ (k = m /\ mgr'[k].copy.at = 0)
    BY <1>5, <1>6, <1>7 DEF OthersKept
  <2>6. ASSUME NEW time \in Nat, Newest(n, time) PROVE Newest(n, time)'
    <3>1. 0 < time
      BY <1>4, <2>6 DEF Newest
    <3> QED BY <1>1, <2>5, <2>6, <3>1 DEF Newest
  <2>7. mgr[n].copy.at \in Nat
    BY RecordsFacts, ManagerFields
  <2>8. mgr[n].step \in {"notice", "store"} => Newest(n, mgr[n].copy.at)'
    <3>1. PICK time \in Nat : time = mgr[n].copy.at
      BY <2>7
    <3>2. mgr[n].step \in {"notice", "store"} => Newest(n, time)'
      BY <2>2, <2>6, <3>1 DEF UnseenFits
    <3> QED BY <2>1, <3>1, <3>2 DEF Newest
  <2>9. mgr[n].step = "noticed" =>
          mgr'[n].held.count < Len(Lines') /\ Newest(n, Lines[Len(Lines)].event.at)'
    <3> SUFFICES ASSUME mgr[n].step = "noticed"
                 PROVE  mgr'[n].held.count < Len(Lines') /\ Newest(n, Lines[Len(Lines)].event.at)'
      OBVIOUS
    <3>1. mgr[n].held.count < Len(Lines) /\ Newest(n, Lines[Len(Lines)].event.at)
      BY <2>2 DEF UnseenFits
    <3>2. Lines[Len(Lines)].event.at \in Nat
      <4>1. mgr[n].held.count \in Nat
        BY RecordsFacts, ManagerFields
      <4>2. Len(Lines) \in 1..Len(Lines) /\ Lines[Len(Lines)] \in Line
        BY <1>4, <3>1, <4>1, RecordsFacts
      <4> QED BY <4>2 DEF Line, Event
    <3>3. PICK time \in Nat : time = Lines[Len(Lines)].event.at
      BY <3>2
    <3>4. Newest(n, time)'
      BY <2>6, <3>1, <3>3
    <3> QED BY <1>3, <2>1, <3>1, <3>3, <3>4 DEF Newest
  <2> QED BY <1>3, <2>1, <2>2, <2>3, <2>4, <2>8, <2>9 DEF UnseenFits
<1>15. \A c \in reported' \ exposed' : ReportedFits(c)'
  <2> SUFFICES ASSUME NEW c \in reported \ exposed PROVE ReportedFits(c)'
    BY <1>1
  <2>1. c \in disk.made
    BY DEF RecordsInv, ReportedFits
  <2>2. WillHave(m, c)'
    BY <1>6, <1>7 DEF WillHave
  <2> QED BY <1>1, <1>4, <1>7, <2>1, <2>2, OthersHave
<1> QED BY <1>3, <1>9, <1>10, <1>11, <1>12, <1>13, <1>14, <1>15 DEF RecordsInv

LEMMA RestartStep ==
  ASSUME RecordsInv, NEW m \in Managers, RestartManager(m)
  PROVE  RecordsInv'
<1> DEFINE g == [mgr[m] EXCEPT !.step = "idle", !.copy = disk, !.held = disk, !.current = TRUE]
<1>1. /\ mgr[m].step = "down" /\ mgr' = [mgr EXCEPT ![m] = g] /\ UNCHANGED logVars
      /\ disk' = disk /\ changes' = changes /\ reported' = reported /\ exposed' = exposed
  BY DEF RestartManager, At
<1>2. mgr[m] \in Manager /\ OperationFits(m) /\ changes \in Nat /\ disk.at \in Nat /\ disk \in Record
  BY RecordsFacts DEF RecordsInv
<1>3. /\ g \in Manager /\ g.step = "idle" /\ g.task = mgr[m].task /\ g.copy = disk
      /\ g.held = disk /\ g.same = mgr[m].same
  BY <1>2 DEF Manager, Steps
<1> HIDE DEF g
<1>4. mgr' \in [Managers -> Manager] /\ mgr'[m] = g /\ OthersKept(m)
  BY <1>1, <1>3, OneMoved
<1>5. /\ LogInv' /\ TimesFit' /\ Grown /\ Lines' = Lines /\ Len(Lines') \in Nat
      /\ clock' = clock /\ clock' \in Nat /\ lock' = lock /\ turn' = turn
  BY <1>1, LogAlone
<1>6. g.task = 0 /\ lock # m
  BY <1>1, <1>2, <1>3 DEF OperationFits
<1>7. RecordsTypeOK'
  BY <1>1, <1>4 DEF RecordsInv, RecordsTypeOK
<1>8. AppliedInOrder' /\ MadeFits' /\ \A r \in Records' : r.at <= clock'
  <2>1. Fits(disk', Lines', clock') /\ Fits(g.copy, Lines', clock') /\ Fits(g.held, Lines', clock')
    BY <1>1, <1>3, <1>5, RecordsFacts
  <2>2. disk'.made \subseteq reported' /\ g.copy.made \subseteq reported'
        /\ g.held.made \subseteq reported'
    BY <1>1, <1>3 DEF RecordsInv, MadeFits
  <2> QED BY <1>1, <1>4, <1>5, <2>1, <2>2, RecordsKept
<1>9. OperationFits(m)'
  BY <1>3, <1>4, <1>5, <1>6 DEF OperationFits
<1>10. \A n \in Managers \ {m} : OperationFits(n)'
  BY <1>1, <1>2, <1>3, <1>4, <1>5, OthersOperate
<1>11. UnseenFits(m)'
  BY <1>4, <1>6 DEF UnseenFits
<1>12. ASSUME NEW n \in Managers \ {m} PROVE UnseenFits(n)'
  <2> SUFFICES ASSUME mgr'[n].task # 0, mgr'[n].task \notin exposed' PROVE UnseenFits(n)'
    BY DEF UnseenFits
  <2>1. /\ mgr'[n].step = mgr[n].step /\ mgr'[n].task = mgr[n].task /\ mgr'[n].copy = mgr[n].copy
        /\ mgr'[n].held = mgr[n].held /\ mgr'[n].same = mgr[n].same
    BY <1>4 DEF OthersKept
  <2>2. UnseenFits(n) /\ mgr[n].task # 0 /\ mgr[n].task \notin exposed
    BY <1>1, <2>1 DEF RecordsInv
  <2>3. \A k \in Managers \ {n} :
          /\ mgr'[k].step \in {"idle", "down"}
          /\ mgr'[k].copy.at = mgr[k].copy.at \/ mgr'[k].copy.at = disk.at
    BY <1>3, <1>4, <2>2 DEF UnseenFits, OthersKept
  <2>4. mgr[n].step \in {"notice", "store"} => Newest(n, mgr[n].copy.at)'
    BY <1>1, <2>1, <2>2, <2>3 DEF UnseenFits, Newest
  <2>5. mgr[n].step = "noticed" =>
          mgr'[n].held.count < Len(Lines') /\ Newest(n, Lines[Len(Lines)].event.at)'
    BY <1>1, <1>5, <2>1, <2>2, <2>3 DEF UnseenFits, Newest
  <2> QED BY <1>5, <2>1, <2>2, <2>3, <2>4, <2>5 DEF UnseenFits
<1>13. \A c \in reported' \ exposed' : ReportedFits(c)'
  <2> SUFFICES ASSUME NEW c \in reported \ exposed PROVE ReportedFits(c)'
    BY <1>1
  <2>1. c \in disk.made
    BY DEF RecordsInv, ReportedFits
  <2>2. WillHave(m, c)'
    BY <1>3, <1>4, <2>1 DEF WillHave
  <2> QED BY <1>1, <1>2, <1>4, <2>1, <2>2, OthersHave
<1> QED BY <1>5, <1>7, <1>8, <1>9, <1>10, <1>11, <1>12, <1>13 DEF RecordsInv

-----------------------------------------------------------------------------
(* The theorems.                                                            *)

LEMMA RecordsStart ==
  ASSUME RecordsInit
  PROVE  RecordsInv
<1> DEFINE g == [step |-> "idle", task |-> 0, copy |-> NewRecord, held |-> NewRecord,
                 same |-> TRUE, current |-> TRUE, durable |-> FALSE]
<1>1. /\ file = <<>> /\ lock = Nobody /\ turn.step = "none" /\ clock = 0
      /\ disk = NewRecord /\ changes = 0 /\ reported = {} /\ exposed = {}
      /\ mgr = [m \in Managers |-> g]
  BY DEF RecordsInit, LogInit, NoTurn
<1>2. LogInv
  BY LogStart DEF RecordsInit
<1>3. Lines = <<>> /\ Len(Lines) = 0 /\ 0 \in Nat
  BY <1>1 DEF Lines, Complete
<1>4. NewRecord \in Record /\ NewRecord.made = {} /\ Fits(NewRecord, Lines, clock)
  BY <1>1, <1>3, NewRecordFacts
<1>5. g.copy = NewRecord /\ g.held = NewRecord /\ g.step = "idle" /\ g.task = 0 /\ g.same = TRUE
  OBVIOUS
<1>6. MaxChanges \in Nat /\ 0 \in 0..MaxChanges
  BY RunRecordsAssumption
<1>7. g \in Manager
  <2> HIDE DEF NewRecord
  <2> QED BY <1>4, <1>6 DEF Manager, Steps
<1> HIDE DEF g
<1>8. mgr \in [Managers -> Manager] /\ \A m \in Managers : mgr[m] = g
  BY <1>1, <1>7
<1>9. RecordsTypeOK
  BY <1>1, <1>4, <1>6, <1>8 DEF RecordsTypeOK
<1>10. TimesFit
  BY <1>1, <1>3 DEF TimesFit
<1>11. \A r \in Records : r = NewRecord
  BY <1>1, <1>5, <1>8 DEF Records, Copies
<1>12. AppliedInOrder /\ \A r \in Records : r.at <= clock
  BY <1>4, <1>11 DEF AppliedInOrder, Fits
<1>13. MadeFits
  BY <1>1, <1>4, <1>5, <1>8 DEF MadeFits, Copies
<1>14. ASSUME NEW m \in Managers PROVE OperationFits(m) /\ UnseenFits(m)
  <2>1. lock # m
    BY <1>1, RunRecordsAssumption, EventLogAssumption
  <2> QED BY <1>5, <1>8, <2>1 DEF OperationFits, UnseenFits
<1> QED BY <1>1, <1>2, <1>9, <1>10, <1>12, <1>13, <1>14 DEF RecordsInv

LEMMA RecordsStep ==
  ASSUME RecordsInv, [RecordsNext]_runVars
  PROVE  RecordsInv'
BY StartReadingStep, StartChangeStep, SyncStep, RefreshStep, SaveNewsStep, ChangeStep,
   AppendNoticeStep, RefreshNoticeStep, StoreChangeStep, DieStep, RestartStep, WorkerStep
   DEF RecordsNext, Operation

\* Whatever the managers do is a step of the log as the theorems about it know them.
LEMMA RecordsLog ==
  ASSUME [RecordsNext]_runVars
  PROVE  LogSteady \/ \E w \in Writers : WriteLine(w)
<1>1. ASSUME NEW m \in Managers, Operation(m) PROVE LogSteady \/ \E w \in Writers : WriteLine(w)
  <2>1. m \in Writers /\ "status" \in Kinds /\ 1 \in Parts("status")
    BY RunRecordsAssumption DEF Kinds, Parts
  <2>2. CASE AppendNotice(m)
    BY <2>1, <2>2 DEF AppendNotice, LogSteady
  <2>3. CASE Refresh(m) \/ RefreshNotice(m)
    BY <2>3 DEF Refresh, RefreshNotice, Refreshed, LogSteady
  <2>4. CASE Change(m, "notice") \/ Change(m, "store")
    BY <2>4 DEF Change, LogSteady
  <2>5. CASE Sync(m) \/ SaveNews(m) \/ StoreChange(m)
    BY <2>5 DEF Sync, SaveNews, StoreChange, LogSteady
  <2> QED BY <1>1, <2>2, <2>3, <2>4, <2>5 DEF Operation
<1>2. ASSUME NEW m \in Managers, StartReading(m) \/ StartChange(m) \/ RestartManager(m)
      PROVE  LogSteady
  BY <1>2 DEF StartReading, StartChange, RestartManager, LogSteady
<1>3. ASSUME NEW m \in Managers, Die(m) PROVE LogSteady
  BY <1>3, RunRecordsAssumption DEF Die, LogSteady
<1>4. Worker => LogSteady \/ \E w \in Writers : WriteLine(w)
  BY DEF Worker, Appending, LogSteady
<1>5. Rebuilder \/ UNCHANGED runVars => LogSteady
  BY DEF Rebuilder, runVars, LogSteady
<1> QED BY <1>1, <1>2, <1>3, <1>4, <1>5 DEF RecordsNext

\* Records and log fit together, and a change that nobody else was about to see is, from
\* when it is made, the newest thing there is: it holds after every step of the managers
\* and of the worker, a death within a write among them.
THEOREM RecordsInvariant == RecordsSpec => []RecordsInv
<1>1. RecordsInit => RecordsInv
  BY RecordsStart
<1>2. RecordsInv /\ [RecordsNext]_runVars => RecordsInv'
  BY RecordsStep
<1> QED BY <1>1, <1>2, PTL DEF RecordsSpec

\* No paging, repair, adoption from disk, save or death makes a record lose, repeat or
\* reorder an event (_refresh_events_locked, _sync_state_from_disk_locked).
THEOREM AppliedInOrderHolds == RecordsSpec => []AppliedInOrder
<1>1. RecordsInv => AppliedInOrder
  BY DEF RecordsInv
<1> QED BY <1>1, RecordsInvariant, PTL

\* A change that was answered is in runs.json from then on, unless another manager was
\* within an operation or the changed object was outdated (_save_state_locked).
THEOREM AnsweredChangesStayHolds == RecordsSpec => []AnsweredChangesStay
<1>1. RecordsInv => AnsweredChangesStay
  BY DEF RecordsInv, ReportedFits, AnsweredChangesStay
<1> QED BY <1>1, RecordsInvariant, PTL

\* Where the stamp of runs.json fits, the copy of a manager at rest lacks no such change.
THEOREM CurrentCopiesAgreeHolds == RecordsSpec => []CurrentCopiesAgree
<1>1. RecordsInv => CurrentCopiesAgree
  <2> SUFFICES ASSUME RecordsInv, NEW m \in Managers, mgr[m].step = "idle", mgr[m].current,
                      NEW c \in disk.made \ exposed
               PROVE  c \in mgr[m].copy.made
    BY DEF CurrentCopiesAgree, At
  <2>1. c \in reported \ exposed
    BY DEF RecordsInv, MadeFits
  <2> QED BY <2>1 DEF RecordsInv, ReportedFits, WillHave
<1> QED BY <1>1, RecordsInvariant, PTL

\* With managers that append, read and die, the log is to its readers a GrowOnlyLog still.
THEOREM RecordsImplementLog == RecordsSpec => ImplementsLog
<1>1. RecordsInit => G!Init
  BY DEF RecordsInit, LogInit, G!Init, Lines, Complete
<1>2. RecordsInv /\ [RecordsNext]_runVars => [G!Next]_Lines
  <2> SUFFICES ASSUME RecordsInv, [RecordsNext]_runVars PROVE [G!Next]_Lines
    OBVIOUS
  <2>1. LogInv
    BY DEF RecordsInv
  <2>2. CASE LogSteady
    BY <2>1, <2>2, SteadyLines
  <2>3. CASE \E w \in Writers : WriteLine(w)
    BY <2>1, <2>3, WriteLineGrows
  <2>4. LogSteady \/ \E w \in Writers : WriteLine(w)
    BY RunRecordsAssumption, RecordsLog
  <2> QED BY <2>2, <2>3, <2>4
<1> QED BY <1>1, <1>2, RecordsInvariant, PTL DEF RecordsSpec, ImplementsLog, G!Spec
=============================================================================

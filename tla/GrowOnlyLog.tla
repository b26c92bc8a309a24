----------------------------- MODULE GrowOnlyLog -----------------------------
(* What readers of a run's event log may rely on: a sequence of numbered     *)
(* entries that only grows, one at a time.                                   *)
EXTENDS Naturals, Sequences

VARIABLE log

Init == log = <<>>

\* One entry more, numbered by its place.
Next == /\ Len(log') = Len(log) + 1
        /\ SubSeq(log', 1, Len(log)) = log
        /\ log'[Len(log')].id = Len(log)

Spec == Init /\ [][Next]_log
=============================================================================

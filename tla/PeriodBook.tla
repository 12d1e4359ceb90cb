----------------------------- MODULE PeriodBook -----------------------------
(***************************************************************************)
(* What the closing of accounting periods promises: a book of dated        *)
(* entries with a cutoff.  Entries after the cutoff may be edited freely,  *)
(* entries on or before it not at all; the cutoff moves forward over an    *)
(* unchanged book, until it is lifted altogether.                          *)
(***************************************************************************)
EXTENDS Integers

CONSTANTS Null,         \* no cutoff
          Days,         \* the days a period may end on
          DateOf(_)     \* the day an entry is dated

VARIABLES entries,      \* the entries of the book
          cutoff        \* the last closed day, or Null

Frozen(book, day) == {e \in book : DateOf(e) <= day}

\* Write, replace and remove entries of open days.
Edit ==
    /\ cutoff # Null => Frozen(entries', cutoff) = Frozen(entries, cutoff)
    /\ UNCHANGED cutoff

\* Close one more period.
ClosePeriod ==
    /\ cutoff' \in Days
    /\ cutoff # Null => cutoff' > cutoff
    /\ UNCHANGED entries

\* Lift the cutoff.
ReopenPeriod ==
    /\ cutoff' = Null
    /\ UNCHANGED entries

Init ==
    /\ entries = {}
    /\ cutoff = Null

Next == Edit \/ ClosePeriod \/ ReopenPeriod

Spec == Init /\ [][Next]_<<entries, cutoff>>
=============================================================================

----------------------------- MODULE SerialLog -----------------------------
(***************************************************************************)
(* What a directory of rotated log files promises its writers: one log, to *)
(* which the holder of the lock appends the lines of its message in order, *)
(* and from whose front the oldest lines disappear.  A line is torn only   *)
(* if its writer dies writing it.                                          *)
(***************************************************************************)
EXTENDS Naturals, Sequences

CONSTANTS Writer, NoWriter

VARIABLES
  log,      \* the lines that are still there, oldest first
  holder,   \* the writer that may append
  written   \* how much of its message it has appended

vars == <<log, holder, written>>

Init ==
  /\ log = << >>
  /\ holder = NoWriter
  /\ written = 0

Acquire(w) ==
  /\ holder = NoWriter
  /\ holder' = w
  /\ written' = 0
  /\ UNCHANGED log

\* The last element of the new log is the line that was appended.
Appended(line) ==
  /\ log' = Append(log, line)
  /\ line.writer = holder
  /\ line.from = written

AppendLine(w) ==
  /\ holder = w
  /\ log' # << >>
  /\ LET line == log'[Len(log')]
     IN  Appended(line) /\ line.whole /\ line.to >= written /\ written' = line.to
  /\ UNCHANGED holder

\* The n oldest lines are deleted.
Discard(w) ==
  /\ holder = w
  /\ \E n \in 1..Len(log) : log' = SubSeq(log, n + 1, Len(log))
  /\ UNCHANGED <<holder, written>>

Release(w) ==
  /\ holder = w
  /\ holder' = NoWriter
  /\ written' = 0
  /\ UNCHANGED log

\* The writer dies in the middle of a line.
Crash(w) ==
  /\ holder = w
  /\ holder' = NoWriter
  /\ written' = 0
  /\ log' # << >>
  /\ LET line == log'[Len(log')] IN Appended(line) /\ ~line.whole

Next ==
  \E w \in Writer : Acquire(w) \/ AppendLine(w) \/ Discard(w) \/ Release(w) \/ Crash(w)

Spec == Init /\ [][Next]_vars
=============================================================================

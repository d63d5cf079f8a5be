----------------------------- MODULE PlexlogLog -----------------------------
(***************************************************************************)
(* The files of Plexlog, read as one log: the saved files in the order in  *)
(* which they were rotated, then "current".                                *)
(***************************************************************************)
EXTENDS PlexlogProperties, SequencesExt

Lines_Of(n) ==
  LET file == {f \in saved : f.seq = n}
  IN  IF file = {} THEN << >> ELSE (CHOOSE f \in file : TRUE).lines

Log == FlattenSeq([n \in 1..rotations |-> Lines_Of(n)]) \o current.lines

\* How much of the lock owner's message the end of the log holds.
Written ==
  IF lock_owner = NoProc \/ Log = << >> THEN 0
  ELSE LET line == Log[Len(Log)]
       IN  IF line.writer = lock_owner /\ line.call = calls[lock_owner]
             THEN line.to ELSE 0

Serial == INSTANCE SerialLog WITH
  Writer   <- Proc,
  NoWriter <- NoProc,
  log      <- Log,
  holder   <- lock_owner,
  written  <- Written

\* Rotation, splitting, removal and crashes never reorder lines, never lose a
\* line that is not among the oldest, and never mix two messages: every
\* behaviour of the processes is one of the serial log.
ImplementsSerialLog == Serial!Spec

-----------------------------------------------------------------------------

\* If all processes use the same limits the directory never needs more room
\* than Space_Requirement says.
Total_Size == MapThenSumSet(LAMBDA f : f.size, saved) + current.size

SpaceRequirementHolds ==
  Files_In_Use = {Files_Default} /\ Files_Default > 0 /\ Sizes_In_Use = {Size_Default}
    /\ ~May_Unlimit
    => Total_Size <= Space_Requirement(Files_Default, Size_Default)
=============================================================================

--------------------------- MODULE DirectoryStack ---------------------------
(***************************************************************************)
(* What Dir_Stack is for: enter a directory, come back to where one was.   *)
(***************************************************************************)
EXTENDS Naturals

CONSTANT Dir

VARIABLES
  here,    \* the working directory
  depth,   \* how many directories there are to come back to
  past     \* [1..depth -> Dir], the last one first to come back to

vars == <<here, depth, past>>

Init ==
  /\ here \in Dir
  /\ depth = 0
  /\ past = [i \in 1..0 |-> here]

Enter(d) ==
  /\ here' = d
  /\ depth' = depth + 1
  /\ past' = [i \in 1..depth + 1 |-> IF i = depth + 1 THEN here ELSE past[i]]

\* Back over n directories.
Return(n) ==
  /\ here' = past[depth - n + 1]
  /\ depth' = depth - n
  /\ past' = [i \in 1..depth - n |-> past[i]]

Next == (\E d \in Dir : Enter(d)) \/ (\E n \in 1..depth : Return(n))

Spec == Init /\ [][Next]_vars
=============================================================================

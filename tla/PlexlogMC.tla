----------------------------- MODULE PlexlogMC -----------------------------
(***************************************************************************)
(* Values for the constants of Plexlog.  A message is given by its level   *)
(* and the filtered widths of its characters.                              *)
(***************************************************************************)
EXTENDS PlexlogLog, TLC

Prefix_Sums(widths) ==
  LET sum[i \in 0..Len(widths)] == IF i = 0 THEN 0 ELSE sum[i - 1] + widths[i]
  IN  sum

Message(lev, widths) ==
  [level |-> lev, length |-> Len(widths), upto |-> Prefix_Sums(widths)]

\* One character; a message with the longest level, which files of Size_Min
\* cut into four lines; nothing.
Short == Message(0, <<1>>)
Long  == Message(6, <<4, 2, 4, 1>>)
Empty == Message(4, << >>)

Short_And_Long == {Short, Long}
All_Messages == {Short, Long, Empty}

Ten_Digits == [p \in Proc |-> 10]
Wide_Natural == 2147483647

Symmetry == Permutations(Proc)

No_Faults == {}
\* Failures after which the context of the writer is usable again.
Clean_Faults == {"opendir", "push", "create", "open", "close", "delete", "rename"}
Write_Fault == {"write"}
Lock_Fault == {"setlk"}
Delete_Fault == {"delete"}

Steady_Clock == {1}
=============================================================================

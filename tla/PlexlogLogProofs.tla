------------------------- MODULE PlexlogLogProofs -------------------------
(***************************************************************************)
(* The files read as one serial log, and fit where Space_Requirement says. *)
(***************************************************************************)
EXTENDS PlexlogLog, PlexlogFilesProofs, Induction

\* The files stay, and the lock of p, if it has it.
Quiet == UNCHANGED <<directory, lock_owner, calls>>

\* The files stay, and p gives back the lock.
Let_Go(p) == UNCHANGED <<directory, calls>> /\ lock_owner = p /\ lock_owner' = NoProc

\* What a step can do to the files, the lock and the number of calls.
LEMMA StepKinds ==
  ASSUME TypeOK, NEW p \in Proc, Call(p) \/ Step(p) \/ Kill(p) \/ Restart(p)
  PROVE  \/ Quiet \/ Let_Go(p) \/ Write(p) \/ Set_Lock(p) \/ Open_Current(p)
         \/ Write_Chunk(p) \/ Write_Rest(p) \/ Write_Fails(p)
         \/ Remove_Log(p) \/ Rename_Current(p)
         \/ Kill(p) /\ Tear_Line(p)
<1>1. CASE Open(p)
  BY <1>1 DEF Open, request, Quiet, directory
<1>2. CASE Close(p)
  BY <1>2 DEF Close, Released, request, Quiet, Let_Go, directory
<1>3. CASE Set_Maximum_Saved_Files(p)
  BY <1>3 DEF Set_Maximum_Saved_Files, request, Quiet, directory
<1>4. CASE Set_Maximum_File_Size(p)
  BY <1>4 DEF Set_Maximum_File_Size, request, Quiet, directory
<1>5. CASE Set_Unlimited_File_Size(p)
  BY <1>5 DEF Set_Unlimited_File_Size, request, Quiet, directory
<1>6. CASE Write(p)
  BY <1>6
<1>7. CASE Write_Refused(p)
  BY <1>7 DEF Write_Refused, request, Quiet, directory
<1>8. CASE Push_Fails(p)
  BY <1>8 DEF Push_Fails, request, Quiet, directory
<1>9. CASE Lock_Directory(p)
  BY <1>9 DEF Lock_Directory, request, Quiet, directory
<1>10. CASE Create_Fails(p)
  BY <1>10 DEF Create_Fails, request, Quiet, directory
<1>11. CASE Set_Lock(p)
  BY <1>11
<1>12. CASE Set_Lock_Fails(p)
  BY <1>12 DEF Set_Lock_Fails, request, Quiet, directory
<1>13. CASE Open_Current(p)
  BY <1>13
<1>14. CASE Open_Current_Fails(p)
  BY <1>14 DEF Open_Current_Fails, request, Quiet, directory
<1>15. CASE Fit(p)
  BY <1>15 DEF Fit, request, Quiet, directory
<1>16. CASE Exit_Loop(p)
  BY <1>16 DEF Exit_Loop, request, Quiet, directory
<1>17. CASE Write_Chunk(p)
  BY <1>17
<1>18. CASE Write_Rest(p)
  BY <1>18
<1>19. CASE Write_Fails(p)
  BY <1>19
<1>20. CASE Rotate(p)
  BY <1>20 DEF Rotate, request, Quiet, directory
<1>21. CASE Remove_Log(p)
  BY <1>21
<1>22. CASE Remove_Log_Fails(p)
  BY <1>22 DEF Remove_Log_Fails, request, Quiet, directory
<1>23. CASE Rename_Current(p)
  BY <1>23
<1>24. CASE Rename_Current_Fails(p)
  BY <1>24 DEF Rename_Current_Fails, request, Quiet, directory
<1>25. CASE Unlock(p)
  BY <1>25 DEF Unlock, Unlock_Directory, Released, Quiet, Let_Go, directory
<1>26. CASE Handler(p)
  BY <1>26 DEF Handler, Unlock_Directory, Released, Quiet, Let_Go, directory
<1>27. CASE Kill(p)
  BY <1>27 DEF Kill, Released, Quiet, Let_Go, directory
<1>28. CASE Restart(p)
  BY <1>28 DEF Restart, request, Quiet, directory
<1> QED
  BY <1>1, <1>2, <1>3, <1>4, <1>5, <1>6, <1>7, <1>8, <1>9, <1>10, <1>11, <1>12,
    <1>13, <1>14, <1>15, <1>16, <1>17, <1>18, <1>19, <1>20, <1>21, <1>22,
    <1>23, <1>24, <1>25, <1>26, <1>27, <1>28 DEF Call, Step

-----------------------------------------------------------------------------
(* The owner of the lock.                                                   *)

\* The lock is held through an open descriptor, and nobody waits for what he has.
Owner_OK(p) ==
  /\ lock_owner = p => Lock_FD[p] = "open"
  /\ pc[p] = "push" => Lock_FD[p] = "invalid"
  /\ pc[p] = "lock" => lock_owner # p

LEMMA OwnerOwnStep ==
  ASSUME TypeOK, LockInv, NEW p \in Proc, Owner_OK(p),
         Call(p) \/ Step(p) \/ Kill(p) \/ Restart(p)
  PROVE  Owner_OK(p)'
<1>1. CASE Open(p)
  BY <1>1, ProcAssumption DEF Open, Leave, request, Owner_OK, TypeOK
<1>2. CASE Close(p)
  BY <1>2, ProcAssumption DEF Close, Leave, Released, Owner_OK, TypeOK
<1>3. CASE Set_Maximum_Saved_Files(p)
  BY <1>3, ProcAssumption DEF Set_Maximum_Saved_Files, handles, Owner_OK, TypeOK
<1>4. CASE Set_Maximum_File_Size(p)
  BY <1>4, ProcAssumption DEF Set_Maximum_File_Size, handles, Owner_OK, TypeOK
<1>5. CASE Set_Unlimited_File_Size(p)
  BY <1>5, ProcAssumption DEF Set_Unlimited_File_Size, handles, Owner_OK, TypeOK
<1>6. CASE Write(p)
  BY <1>6, ProcAssumption DEF Write, Context_At_Rest, Have_Directory_Lock, handles, Owner_OK, TypeOK
<1>7. CASE Write_Refused(p)
  BY <1>7, ProcAssumption DEF Write_Refused, Leave, handles, Owner_OK, TypeOK
<1>8. CASE Push_Fails(p)
  BY <1>8, ProcAssumption DEF Push_Fails, Raise, handles, Owner_OK, TypeOK
<1>9. CASE Lock_Directory(p)
  BY <1>9, ProcAssumption DEF Lock_Directory, Goto, Owner_OK, TypeOK
<1>10. CASE Create_Fails(p)
  BY <1>10, ProcAssumption DEF Create_Fails, Raise, Owner_OK, TypeOK
<1>11. CASE Set_Lock(p)
  BY <1>11, ProcAssumption DEF Set_Lock, Goto, handles, LockInv, Owner_OK, TypeOK
<1>12. CASE Set_Lock_Fails(p)
  BY <1>12, ProcAssumption DEF Set_Lock_Fails, Abandon_Lock, Pop, Raise, Owner_OK, TypeOK
<1>13. CASE Open_Current(p)
  BY <1>13, ProcAssumption DEF Open_Current, Goto, Owner_OK, TypeOK
<1>14. CASE Open_Current_Fails(p)
  BY <1>14, ProcAssumption DEF Open_Current_Fails, Raise, handles, Owner_OK, TypeOK
<1>15. CASE Fit(p)
  BY <1>15, ProcAssumption DEF Fit, Goto, Raise, Owner_OK, TypeOK
<1>16. CASE Exit_Loop(p)
  BY <1>16, ProcAssumption DEF Exit_Loop, Goto, handles, Owner_OK, TypeOK
<1>17. CASE Write_Chunk(p)
  BY <1>17, ProcAssumption DEF Write_Chunk, Goto, Raise, Owner_OK, TypeOK
<1>18. CASE Write_Rest(p)
  BY <1>18, ProcAssumption DEF Write_Rest, Goto, Raise, Owner_OK, TypeOK
<1>19. CASE Write_Fails(p)
  BY <1>19, ProcAssumption DEF Write_Fails, Raise, handles, Owner_OK, TypeOK
<1>20. CASE Rotate(p)
  BY <1>20, ProcAssumption DEF Rotate, Goto, handles, Owner_OK, TypeOK
<1>21. CASE Remove_Log(p)
  BY <1>21, ProcAssumption DEF Remove_Log, handles, Owner_OK, TypeOK
<1>22. CASE Remove_Log_Fails(p)
  BY <1>22, ProcAssumption DEF Remove_Log_Fails, Raise, handles, Owner_OK, TypeOK
<1>23. CASE Rename_Current(p)
  BY <1>23, ProcAssumption DEF Rename_Current, Goto, handles, Owner_OK, TypeOK
<1>24. CASE Rename_Current_Fails(p)
  BY <1>24, ProcAssumption DEF Rename_Current_Fails, Raise, handles, Owner_OK, TypeOK
<1>25. CASE Unlock(p)
  BY <1>25, ProcAssumption, ZenonT(30) DEF Unlock, Unlock_Directory, Return, Leave, Raise, Released, Owner_OK, TypeOK
<1>26. CASE Handler(p)
  BY <1>26, ProcAssumption DEF Handler, Unlock_Directory, Return, Leave, Released, Owner_OK, TypeOK
<1>27. CASE Kill(p)
  BY <1>27, ProcAssumption DEF Kill, Released, Owner_OK, TypeOK
<1>28. CASE Restart(p)
  BY <1>28, ProcAssumption DEF Restart, Goto, handles, Owner_OK, TypeOK
<1> QED
  BY <1>1, <1>2, <1>3, <1>4, <1>5, <1>6, <1>7, <1>8, <1>9, <1>10, <1>11, <1>12,
    <1>13, <1>14, <1>15, <1>16, <1>17, <1>18, <1>19, <1>20, <1>21, <1>22,
    <1>23, <1>24, <1>25, <1>26, <1>27, <1>28 DEF Call, Step

-----------------------------------------------------------------------------
(* The lines.                                                               *)

\* A line is of a call that was made, and if its writer waits for the lock, not
\* of the call for which it waits.
Past_Line ==
  {line \in Line :
     /\ line.call <= calls[line.writer]
     /\ pc[line.writer] \in {"push", "lock"} => line.call < calls[line.writer]}

\* An empty file has no lines, and what is not empty has some.
Lines_OK ==
  /\ current.lines \in Seq(Past_Line)
  /\ \A f \in saved : f.lines \in Seq(Past_Line) /\ f.seq > 0
  /\ ~current.exists => current.lines = << >>
  /\ current.size > 0 => current.lines # << >>

\* From taking the lock to the end of the last line.
Following == Critical \ {"unlock"}

\* Current_Offset is where the log ends, before a rotation has emptied "current"
\* and after it.
Offset_OK(p) ==
  /\ pc[p] \in {"push", "lock"} => Current_Offset[p] = 0
  /\ pc[p] \in Following => Current_Offset[p] = Written
  /\ pc[p] \in {"rotate", "remove"} => current.lines # << >>

LogInv == Lines_OK /\ \A p \in Proc : Owner_OK(p) /\ Offset_OK(p)

\* Where a call that is being made comes from.
LEMMA CallSteps ==
  ASSUME TypeOK, NEW p \in Proc, Call(p) \/ Step(p) \/ Kill(p) \/ Restart(p)
  PROVE  \/ Write(p)
         \/ /\ UNCHANGED calls
            /\ pc'[p] \in {"push", "lock"} =>
                 pc[p] \in {"push", "lock"} /\ UNCHANGED Current_Offset
            /\ pc'[p] \in Following =>
                 \/ Set_Lock(p)
                 \/ Write_Chunk(p)
                 \/ pc[p] \in Following /\ UNCHANGED Current_Offset
            /\ pc'[p] \in {"rotate", "remove"} =>
                 Fit(p) \/ Write_Chunk(p) \/ Rotate(p) \/ Remove_Log(p)
<1>1. CASE Open(p)
  BY <1>1 DEF Open, Leave, request, Following, Critical, Writing,
         Rotating, TypeOK
<1>2. CASE Close(p)
  BY <1>2 DEF Close, Leave, request, Following, Critical, Writing,
         Rotating, TypeOK
<1>3. CASE Set_Maximum_Saved_Files(p)
  BY <1>3 DEF Set_Maximum_Saved_Files, request, Following, Critical, Writing,
         Rotating, TypeOK
<1>4. CASE Set_Maximum_File_Size(p)
  BY <1>4 DEF Set_Maximum_File_Size, request, Following, Critical, Writing,
         Rotating, TypeOK
<1>5. CASE Set_Unlimited_File_Size(p)
  BY <1>5 DEF Set_Unlimited_File_Size, request, Following, Critical, Writing,
         Rotating, TypeOK
<1>6. CASE Write(p)
  BY <1>6
<1>7. CASE Write_Refused(p)
  BY <1>7 DEF Write_Refused, Leave, request, Following, Critical, Writing,
         Rotating, TypeOK
<1>8. CASE Push_Fails(p)
  BY <1>8 DEF Push_Fails, Raise, request, Following, Critical, Writing,
         Rotating, TypeOK
<1>9. CASE Lock_Directory(p)
  BY <1>9 DEF Lock_Directory, Goto, request, Following, Critical, Writing,
         Rotating, TypeOK
<1>10. CASE Create_Fails(p)
  BY <1>10 DEF Create_Fails, Raise, request, Following, Critical, Writing,
         Rotating, TypeOK
<1>11. CASE Set_Lock(p)
  BY <1>11 DEF Set_Lock, Goto, request, Following, Critical, Writing,
         Rotating, TypeOK
<1>12. CASE Set_Lock_Fails(p)
  BY <1>12 DEF Set_Lock_Fails, Abandon_Lock, Raise, request, Following, Critical, Writing,
         Rotating, TypeOK
<1>13. CASE Open_Current(p)
  BY <1>13 DEF Open_Current, Goto, request, Following, Critical, Writing,
         Rotating, TypeOK
<1>14. CASE Open_Current_Fails(p)
  BY <1>14 DEF Open_Current_Fails, Raise, request, Following, Critical, Writing,
         Rotating, TypeOK
<1>15. CASE Fit(p)
  BY <1>15 DEF Fit, Goto, Raise, request, Following, Critical, Writing,
         Rotating, TypeOK
<1>16. CASE Exit_Loop(p)
  BY <1>16 DEF Exit_Loop, Goto, request, Following, Critical, Writing,
         Rotating, TypeOK
<1>17. CASE Write_Chunk(p)
  BY <1>17 DEF Write_Chunk, Goto, Raise, Following, Critical, Writing,
         Rotating, TypeOK
<1>18. CASE Write_Rest(p)
  BY <1>18 DEF Write_Rest, Goto, Raise, request, Following, Critical, Writing,
         Rotating, TypeOK
<1>19. CASE Write_Fails(p)
  BY <1>19 DEF Write_Fails, Raise, request, Following, Critical, Writing,
         Rotating, TypeOK
<1>20. CASE Rotate(p)
  BY <1>20 DEF Rotate, Goto, request, Following, Critical, Writing,
         Rotating, TypeOK
<1>21. CASE Remove_Log(p)
  BY <1>21 DEF Remove_Log, request, Following, Critical, Writing,
         Rotating, TypeOK
<1>22. CASE Remove_Log_Fails(p)
  BY <1>22 DEF Remove_Log_Fails, Raise, request, Following, Critical, Writing,
         Rotating, TypeOK
<1>23. CASE Rename_Current(p)
  BY <1>23 DEF Rename_Current, Goto, request, Following, Critical, Writing,
         Rotating, TypeOK
<1>24. CASE Rename_Current_Fails(p)
  BY <1>24 DEF Rename_Current_Fails, Raise, request, Following, Critical, Writing,
         Rotating, TypeOK
<1>25. CASE Unlock(p)
  BY <1>25 DEF Unlock, Return, Leave, Raise, Following, Critical, Writing,
         Rotating, TypeOK
<1>26. CASE Handler(p)
  BY <1>26 DEF Handler, Return, Leave, Following, Critical, Writing,
         Rotating, TypeOK
<1>27. CASE Kill(p)
  BY <1>27 DEF Kill, Following, Critical, Writing,
         Rotating, TypeOK
<1>28. CASE Restart(p)
  BY <1>28 DEF Restart, Goto, request, Following, Critical, Writing,
         Rotating, TypeOK
<1> QED
  BY <1>1, <1>2, <1>3, <1>4, <1>5, <1>6, <1>7, <1>8, <1>9, <1>10, <1>11, <1>12,
    <1>13, <1>14, <1>15, <1>16, <1>17, <1>18, <1>19, <1>20, <1>21, <1>22,
    <1>23, <1>24, <1>25, <1>26, <1>27, <1>28 DEF Call, Step


\* A line of the past stays one.
LEMMA PastGrows ==
  ASSUME TypeOK, NEW p \in Proc, Call(p) \/ Step(p) \/ Kill(p) \/ Restart(p)
  PROVE  Past_Line \subseteq Past_Line'
<1> SUFFICES ASSUME NEW line \in Past_Line PROVE line \in Past_Line'
  OBVIOUS
<1> DEFINE w == line.writer
<1>1. line \in Line /\ w \in Proc /\ line.call \in Nat /\ line.call <= calls[w]
  BY DEF Past_Line, Line
<1>2. pc[w] \in {"push", "lock"} => line.call < calls[w]
  BY DEF Past_Line
<1> HIDE DEF w
<1>3. calls[w] \in Nat
  BY <1>1 DEF TypeOK
<1>4. /\ line.call <= calls'[w]
      /\ pc'[w] \in {"push", "lock"} => line.call < calls'[w]
  <2>1. CASE w # p
    BY <1>1, <1>2, <2>1, OthersUnchanged DEF Own
  <2>2. CASE w = p /\ Write(p)
    <3>1. calls'[w] = calls[w] + 1
      BY <2>2 DEF Write, TypeOK
    <3> QED
      BY <1>1, <1>3, <3>1
  <2>3. CASE w = p /\ ~Write(p)
    BY <1>1, <1>2, <2>3, CallSteps
  <2> QED
    BY <2>1, <2>2, <2>3
<1> QED
  BY <1>1, <1>4 DEF Past_Line, w

\* The line that p writes.
LEMMA NewLinePast ==
  ASSUME TypeOK, NEW p \in Proc, NEW e \in Current_Offset[p]..data[p].length,
         NEW whole \in BOOLEAN, UNCHANGED calls, pc'[p] \notin {"push", "lock"}
  PROVE  New_Line(p, e, whole) \in Past_Line'
<1>1. New_Line(p, e, whole) \in Line
  BY Widths DEF New_Line, Line, TypeOK
<1>2. calls'[p] \in Nat /\ New_Line(p, e, whole).writer = p /\ New_Line(p, e, whole).call = calls[p]
  BY DEF New_Line, TypeOK
<1> QED
  BY <1>1, <1>2 DEF Past_Line

\* A step that writes appends a line that begins at Current_Offset.
Appends(p, e, whole) ==
  /\ e \in Current_Offset[p]..data[p].length
  /\ current'.lines = Append(current.lines, New_Line(p, e, whole))
  /\ current'.exists
  /\ UNCHANGED <<saved, rotations, calls>>
  /\ pc[p] \in {"loop", "rest"}
  /\ pc'[p] \notin {"push", "lock"}

LEMMA ChunkAppends ==
  ASSUME TypeOK, NEW p \in Proc, Write_Chunk(p)
  PROVE  \E e \in 0..data[p].length : Appends(p, e, TRUE) /\ Current_Offset'[p] = e
<1>1. PICK e \in 0..data[p].length :
        /\ Write_Message_Stops(p, Max_Length(p), e)
        /\ Append_Line(New_Line(p, e, TRUE), Line_Length(p, e))
        /\ Current_Offset' = [Current_Offset EXCEPT ![p] = e]
  BY DEF Write_Chunk
<1>2. e \in Current_Offset[p]..data[p].length
  BY <1>1 DEF Write_Message_Stops
<1>3. current'.lines = Append(current.lines, New_Line(p, e, TRUE)) /\ current'.exists
  BY <1>1 DEF Append_Line
<1>4. Current_Offset'[p] = e
  BY <1>1 DEF TypeOK
<1> QED
  BY <1>1, <1>2, <1>3, <1>4 DEF Appends, Write_Chunk, Must_Split, Goto, Raise, TypeOK

LEMMA RestAppends ==
  ASSUME TypeOK, NEW p \in Proc, Write_Rest(p), Something_To_Write(p)
  PROVE  Appends(p, data[p].length, TRUE)
<1>1. Append_Line(New_Line(p, data[p].length, TRUE), Line_Length(p, data[p].length))
  BY DEF Write_Rest
<1>2. data[p].length \in Current_Offset[p]..data[p].length
  BY MessageFacts DEF TypeOK, IsMessage
<1>3. /\ current'.lines = Append(current.lines, New_Line(p, data[p].length, TRUE))
      /\ current'.exists
  BY <1>1 DEF Append_Line
<1> QED
  BY <1>2, <1>3 DEF Appends, Write_Rest, Goto, Raise, TypeOK, request

LEMMA TearAppends ==
  ASSUME TypeOK, NEW p \in Proc, Tear_Line(p), UNCHANGED <<saved, rotations, calls>>,
         pc'[p] \notin {"push", "lock"}
  PROVE  \E e \in 0..data[p].length : Appends(p, e, FALSE)
<1>1. PICK e \in 0..data[p].length, k \in Torn :
        /\ \/ Must_Split(p) /\ Write_Message_Stops(p, Max_Length(p), e)
           \/ pc[p] = "rest" /\ Something_To_Write(p) /\ e = data[p].length
        /\ Append_Line(New_Line(p, e, FALSE), k)
  BY DEF Tear_Line
<1>2. e \in Current_Offset[p]..data[p].length
  BY <1>1, MessageFacts DEF Write_Message_Stops, TypeOK, IsMessage
<1>3. pc[p] \in {"loop", "rest"}
  BY <1>1 DEF Must_Split
<1>4. current'.lines = Append(current.lines, New_Line(p, e, FALSE)) /\ current'.exists
  BY <1>1 DEF Append_Line
<1> QED
  BY <1>2, <1>3, <1>4 DEF Appends


LEMMA AppendLines ==
  ASSUME TypeOK, Lines_OK, NEW p \in Proc, Call(p) \/ Step(p) \/ Kill(p) \/ Restart(p),
         NEW e, NEW whole \in BOOLEAN, Appends(p, e, whole)
  PROVE  Lines_OK'
<1>1. New_Line(p, e, whole) \in Past_Line'
  BY NewLinePast DEF Appends
<1>2. current.lines \in Seq(Past_Line')
  BY PastGrows, SeqMonotonic DEF Lines_OK
<1>3. current'.lines \in Seq(Past_Line') /\ current'.lines # << >>
  BY <1>1, <1>2, AppendProperties DEF Appends
<1>4. \A f \in saved' : f.lines \in Seq(Past_Line')
  BY PastGrows, SeqMonotonic DEF Lines_OK, Appends
<1> QED
  BY <1>3, <1>4 DEF Lines_OK, Appends

LEMMA LinesStep ==
  ASSUME TypeOK, Lines_OK, NEW p \in Proc, Call(p) \/ Step(p) \/ Kill(p) \/ Restart(p)
  PROVE  Lines_OK'
<1>1. current.lines \in Seq(Past_Line') /\ \A f \in saved : f.lines \in Seq(Past_Line')
  BY PastGrows, SeqMonotonic DEF Lines_OK
<1>2. << >> \in Seq(Past_Line')
  BY EmptySeq
<1>3. CASE UNCHANGED directory
  BY <1>1, <1>3 DEF Lines_OK, directory
<1>4. CASE Open_Current(p)
  BY <1>1, <1>2, <1>4 DEF Lines_OK, Open_Current, New_File
<1>5. CASE Write_Chunk(p)
  BY <1>5, ChunkAppends, AppendLines
<1>6. CASE Write_Rest(p)
  <2>1. CASE Something_To_Write(p)
    BY <1>6, <2>1, RestAppends, AppendLines
  <2>2. CASE ~Something_To_Write(p)
    BY <1>1, <1>6, <2>2 DEF Write_Rest, Lines_OK
  <2> QED
    BY <2>1, <2>2
<1>7. CASE Tear_Line(p) /\ (Write_Fails(p) \/ Kill(p))
  <2>1. UNCHANGED <<saved, rotations, calls>> /\ pc'[p] \notin {"push", "lock"}
    BY <1>7 DEF Write_Fails, Kill, Raise, request, TypeOK
  <2> QED
    BY <1>7, <2>1, TearAppends, AppendLines
<1>8. CASE Write_Fails(p) /\ UNCHANGED current
  BY <1>1, <1>8 DEF Write_Fails, Lines_OK
<1>9. CASE Remove_Log(p)
  BY <1>1, <1>9 DEF Remove_Log, Lines_OK
<1>10. CASE Rename_Current(p)
  BY <1>1, <1>2, <1>10 DEF Rename_Current, Lines_OK, No_File, TypeOK
<1> QED
  BY <1>3, <1>4, <1>5, <1>6, <1>7, <1>8, <1>9, <1>10, StepKinds
     DEF Quiet, Let_Go, Write, Set_Lock, Write_Fails


-----------------------------------------------------------------------------
(* The log.                                                                 *)

\* Lines_Of for any set of files.
Numbered(files, n) == {f \in files : f.seq = n}

Lines_From(file) == IF file = {} THEN << >> ELSE (CHOOSE f \in file : TRUE).lines

Lines_In(files, n) == Lines_From(Numbered(files, n))

Old_Lines(files, r) == [n \in 1..r |-> Lines_In(files, n)]

LEMMA LogIs ==
  /\ Log = FlattenSeq(Old_Lines(saved, rotations)) \o current.lines
  /\ Log' = FlattenSeq(Old_Lines(saved', rotations')) \o current'.lines
BY DEF Log, Lines_Of, Old_Lines, Lines_In, Lines_From, Numbered

LEMMA LinesInSet ==
  ASSUME NEW files, NEW f \in files, \A g \in files : g.seq = f.seq => g = f
  PROVE  Lines_In(files, f.seq) = f.lines
<1>1. Numbered(files, f.seq) = {f}
  BY DEF Numbered
<1>2. Lines_From({f}) = f.lines
  BY DEF Lines_From
<1> QED
  BY <1>1, <1>2 DEF Lines_In

LEMMA NoLinesInSet ==
  ASSUME NEW files, NEW n, \A g \in files : g.seq # n
  PROVE  Lines_In(files, n) = << >>
BY DEF Lines_In, Numbered, Lines_From

LEMMA SameLinesIn ==
  ASSUME NEW files, NEW others, NEW n,
         \A f : (f \in files /\ f.seq = n) <=> (f \in others /\ f.seq = n)
  PROVE  Lines_In(files, n) = Lines_In(others, n)
<1>1. Numbered(files, n) = Numbered(others, n)
  BY DEF Numbered
<1> QED
  BY <1>1 DEF Lines_In

LEMMA OldLinesType ==
  ASSUME NEW S, NEW files, NEW r \in Nat, \A f \in files : f.lines \in Seq(S)
  PROVE  /\ Old_Lines(files, r) \in Seq(Seq(S)) /\ Len(Old_Lines(files, r)) = r
         /\ FlattenSeq(Old_Lines(files, r)) \in Seq(S)
<1>1. ASSUME NEW n \in 1..r PROVE Lines_In(files, n) \in Seq(S)
  <2>1. CASE Numbered(files, n) = {}
    BY <2>1, EmptySeq DEF Lines_In, Lines_From
  <2>2. CASE Numbered(files, n) # {}
    <3>1. PICK f \in files : Lines_In(files, n) = f.lines
      BY <2>2 DEF Lines_In, Lines_From, Numbered
    <3> QED
      BY <3>1
  <2> QED
    BY <2>1, <2>2
<1>2. Old_Lines(files, r) \in [1..r -> Seq(S)]
  BY <1>1 DEF Old_Lines
<1>3. Old_Lines(files, r) \in Seq(Seq(S)) /\ Len(Old_Lines(files, r)) = r
  BY <1>2, SeqDef, LenProperties
<1> QED
  BY <1>3, FlattenType

LEMMA LogType ==
  ASSUME TypeOK, Lines_OK
  PROVE  Log \in Seq(Past_Line)
<1>1. FlattenSeq(Old_Lines(saved, rotations)) \in Seq(Past_Line)
  BY OldLinesType DEF TypeOK, Lines_OK
<1> QED
  BY <1>1, LogIs, ConcatProperties DEF Lines_OK

\* The log ends as "current" does.
LEMMA LogLast ==
  ASSUME NEW S, NEW s \in Seq(S), NEW t \in Seq(S), t # << >>
  PROVE  s \o t # << >> /\ (s \o t)[Len(s \o t)] = t[Len(t)]
<1>1. Len(s) \in Nat /\ Len(t) \in Nat /\ Len(t) # 0
  BY EmptySeq
<1>2. Len(s \o t) = Len(s) + Len(t) /\ Len(s) + Len(t) \in 1..(Len(s) + Len(t))
  BY <1>1, ConcatProperties
<1>3. ~(Len(s) + Len(t) <= Len(s)) /\ (Len(s) + Len(t)) - Len(s) = Len(t)
  BY <1>1
<1>4. (s \o t)[Len(s) + Len(t)] = t[Len(t)]
  BY <1>2, <1>3, ConcatProperties
<1> QED
  BY <1>1, <1>2, <1>4, EmptySeq

LEMMA LastOfLog ==
  ASSUME TypeOK, Lines_OK, current.lines # << >>
  PROVE  Log # << >> /\ Log[Len(Log)] = current.lines[Len(current.lines)]
<1>1. FlattenSeq(Old_Lines(saved, rotations)) \in Seq(Past_Line)
  BY OldLinesType DEF TypeOK, Lines_OK
<1> QED
  BY <1>1, LogIs, LogLast DEF Lines_OK

\* What is written to "current" is appended to the log.
LEMMA LogAppends ==
  ASSUME TypeOK, Lines_OK, NEW p \in Proc, Call(p) \/ Step(p) \/ Kill(p) \/ Restart(p),
         NEW e, NEW whole \in BOOLEAN, Appends(p, e, whole)
  PROVE  /\ Log' = Append(Log, New_Line(p, e, whole))
         /\ Log' # << >> /\ Log'[Len(Log')] = New_Line(p, e, whole)
<1> DEFINE old == FlattenSeq(Old_Lines(saved, rotations))
           line == New_Line(p, e, whole)
<1>1. line \in Past_Line' /\ old \in Seq(Past_Line')
  <2>1. \A f \in saved : f.lines \in Seq(Past_Line')
    BY PastGrows, SeqMonotonic DEF Lines_OK
  <2> QED
    BY <2>1, NewLinePast, OldLinesType DEF Appends, TypeOK
<1>2. current.lines \in Seq(Past_Line')
  BY PastGrows, SeqMonotonic DEF Lines_OK
<1>3. Log = old \o current.lines /\ Log' = old \o Append(current.lines, line)
  BY LogIs DEF Appends
<1> HIDE DEF old, line
<1>4. old \o Append(current.lines, line) = Append(old \o current.lines, line)
  BY <1>1, <1>2, AppendIsConcat, ConcatAssociative, ConcatProperties, SMTT(20)
<1>5. Log \in Seq(Past_Line') /\ Log' = Append(Log, line)
  BY <1>1, <1>2, <1>3, <1>4, ConcatProperties
<1>6. Log' # << >> /\ Log'[Len(Log')] = line
  BY <1>1, <1>5, AppendProperties
<1> QED
  BY <1>5, <1>6 DEF line

\* A rotation leaves the log as it is: "current" becomes the last saved file.
LEMMA LogRotated ==
  ASSUME TypeOK, Lines_OK, Order_OK, RotationInv, LatestInv, NEW p \in Proc,
         Rename_Current(p)
  PROVE  Log' = Log
<1> DEFINE new == [label |-> label[p], seq |-> rotations + 1, size |-> current.size,
                   mtime |-> current.mtime, lines |-> current.lines]
           old == Old_Lines(saved, rotations)
           next == Old_Lines(saved', rotations')
<1>1. saved' = saved \union {new} /\ rotations' = rotations + 1
  BY RenamedIsNext
<1>2. new.seq = rotations + 1 /\ new.lines = current.lines
  OBVIOUS
<1>3. current'.lines = << >>
  BY DEF Rename_Current, No_File
<1> HIDE DEF new
<1>4. rotations \in Nat /\ \A f \in saved : f.seq \in Nat /\ f.seq <= rotations
  BY DEF TypeOK, Saved_File, Order_OK
<1>5. old \in Seq(Seq(Past_Line)) /\ Len(old) = rotations /\ FlattenSeq(old) \in Seq(Past_Line)
  BY OldLinesType DEF TypeOK, Lines_OK
<1>6. Lines_In(saved', rotations + 1) = current.lines
  <2>1. new \in saved' /\ \A g \in saved' : g.seq = new.seq => g = new
    BY <1>1, <1>2, <1>4
  <2> QED
    BY <1>2, <2>1, LinesInSet
<1>7. ASSUME NEW n \in 1..rotations PROVE Lines_In(saved', n) = Lines_In(saved, n)
  <2>1. \A f : (f \in saved' /\ f.seq = n) <=> (f \in saved /\ f.seq = n)
    BY <1>1, <1>2, <1>4
  <2> QED
    BY <2>1, SameLinesIn
<1>8. next = Append(old, current.lines)
  <2>1. next = [n \in 1..(rotations + 1) |-> Lines_In(saved', n)]
    BY <1>1 DEF Old_Lines
  <2>2. next \in Seq(Seq(Past_Line)) /\ Len(next) = rotations + 1
    <3>1. \A f \in saved' : f.lines \in Seq(Past_Line)
      BY <1>1, <1>2 DEF Lines_OK
    <3> QED
      BY <1>1, <1>4, <3>1, OldLinesType
  <2>3. \A n \in 1..rotations : old[n] = Lines_In(saved, n)
    BY DEF Old_Lines
  <2> HIDE DEF next, old
  <2>4. /\ Append(old, current.lines) \in Seq(Seq(Past_Line))
        /\ Len(Append(old, current.lines)) = rotations + 1
        /\ Append(old, current.lines)[rotations + 1] = current.lines
        /\ \A n \in 1..rotations : Append(old, current.lines)[n] = old[n]
    BY <1>5, AppendProperties DEF Lines_OK
  <2>5. ASSUME NEW n \in 1..(rotations + 1) PROVE next[n] = Append(old, current.lines)[n]
    <3>1. CASE n = rotations + 1
      BY <1>6, <2>1, <2>4, <3>1
    <3>2. CASE n # rotations + 1
      <4>1. n \in 1..rotations
        BY <1>4, <3>2
      <4> QED
        BY <1>7, <2>1, <2>3, <2>4, <4>1
    <3> QED
      BY <3>1, <3>2
  <2> QED
    BY <2>2, <2>4, <2>5, SeqEqual
<1> HIDE DEF next, old
<1>9. FlattenSeq(next) = FlattenSeq(old) \o current.lines
  BY <1>5, <1>8, FlattenAppend DEF Lines_OK
<1>10. (FlattenSeq(old) \o current.lines) \o << >> = FlattenSeq(old) \o current.lines
  <2>1. FlattenSeq(old) \o current.lines \in Seq(Past_Line)
    BY <1>5, ConcatProperties DEF Lines_OK
  <2> QED
    BY <2>1, ConcatEmptySeq
<1> QED
  BY <1>3, <1>9, <1>10, LogIs DEF old, next

\* The first n elements of log are gone.
Is_Rest(log, n, s) ==
  /\ n \in 0..Len(log)
  /\ s = SubSeq(log, n + 1, Len(log))
  /\ n = 0 => s = log

LEMMA WithoutPrefix ==
  ASSUME NEW S, NEW r \in Seq(S), NEW s \in Seq(S), NEW log,
         Joins(r, s, log)
  PROVE  Is_Rest(log, Len(r), s)
<1>1. /\ log \in Seq(S) /\ Len(log) = Len(r) + Len(s) /\ Len(r) \in Nat /\ Len(s) \in Nat
      /\ \A i \in 1..(Len(r) + Len(s)) : log[i] = IF i <= Len(r) THEN r[i] ELSE s[i - Len(r)]
  BY ConcatProperties, LenProperties DEF Joins
<1> DEFINE u == SubSeq(log, Len(r) + 1, Len(log))
<1>2. \A i \in (Len(r) + 1)..Len(log) : log[i] \in S
  BY <1>1, ElementOfSeq
<1>3. /\ u \in Seq(S) /\ Len(u) = IF Len(r) + 1 <= Len(log) THEN Len(log) - (Len(r) + 1) + 1 ELSE 0
      /\ \A i \in 1..(Len(log) - (Len(r) + 1) + 1) : u[i] = log[(Len(r) + 1) + i - 1]
  BY <1>1, <1>2, SubSeqProperties
<1> HIDE DEF u
<1>4. Len(u) = Len(s)
  BY <1>1, <1>3
<1>5. ASSUME NEW i \in 1..Len(s) PROVE u[i] = s[i]
  <2>1. i \in 1..(Len(log) - (Len(r) + 1) + 1) /\ (Len(r) + 1) + i - 1 = Len(r) + i
    BY <1>1
  <2>2. /\ Len(r) + i \in 1..(Len(r) + Len(s)) /\ ~(Len(r) + i <= Len(r))
        /\ (Len(r) + i) - Len(r) = i
    BY <1>1
  <2> QED
    BY <1>1, <1>3, <2>1, <2>2
<1>6. u = s
  BY <1>3, <1>4, <1>5, SeqEqual
<1>7. Len(r) = 0 => log = s
  BY EmptySeq, ConcatEmptySeq DEF Joins
<1> QED
  BY <1>1, <1>6, <1>7 DEF u, Is_Rest

\* Removing the oldest file takes its lines from the front of the log.
LEMMA LogDiscards ==
  ASSUME TypeOK, One_Limit, Lines_OK, NEW p \in Proc, Removal_OK(p), Order_OK,
         Old_First(p), RotationInv, LatestInv, Remove_Log(p)
  PROVE  \E n : Is_Rest(Log, n, Log')
<1>1. PICK f \in saved :
        saved' = saved \ {f} /\ f.seq = rotations - Cardinality(saved) + 1
  BY OldestGoes
<1>2. UNCHANGED <<current, rotations>>
  BY DEF Remove_Log
<1> DEFINE k == f.seq
           old == Old_Lines(saved, rotations)
           left == Old_Lines(saved', rotations)
<1>3. rotations \in Nat /\ k \in 1..rotations
  BY DEF TypeOK, Saved_File, Order_OK, Lines_OK
<1>4. /\ old \in Seq(Seq(Past_Line)) /\ Len(old) = rotations
      /\ left \in Seq(Seq(Past_Line)) /\ Len(left) = rotations
      /\ FlattenSeq(left) \in Seq(Past_Line)
  <2>1. \A g \in saved : g.lines \in Seq(Past_Line)
    BY DEF Lines_OK
  <2>2. \A g \in saved' : g.lines \in Seq(Past_Line)
    BY <1>1, <2>1
  <2> QED
    BY <1>3, <2>1, <2>2, OldLinesType
<1>5. \A n \in 1..rotations : old[n] = Lines_In(saved, n) /\ left[n] = Lines_In(saved', n)
  BY DEF Old_Lines
<1>6. \A g \in saved : g.seq = k => g = f
  BY DEF Order_OK
<1>7. old[k] = f.lines
  BY <1>3, <1>5, <1>6, LinesInSet
<1>8. left[k] = << >>
  <2>1. \A g \in saved' : g.seq # k
    BY <1>1, <1>6
  <2> QED
    BY <1>3, <1>5, <2>1, NoLinesInSet
<1>9. ASSUME NEW n \in 1..rotations, n # k PROVE left[n] = old[n]
  <2>1. \A g : (g \in saved' /\ g.seq = n) <=> (g \in saved /\ g.seq = n)
    BY <1>1, <1>9
  <2> QED
    BY <1>5, <2>1, SameLinesIn
<1>10. ASSUME NEW n \in 1..(k - 1) PROVE old[n] = << >>
  <2>1. n \in 1..rotations /\ n < k
    BY <1>3
  <2>2. \A g \in saved : g.seq # n
    <3>1. \A g \in saved : g.seq \in (rotations - Cardinality(saved) + 1)..rotations
      BY DEF LatestInv
    <3>2. k = rotations - Cardinality(saved) + 1
      BY <1>1
    <3> QED
      BY <1>3, <2>1, <3>1, <3>2
  <2> QED
    BY <1>5, <2>1, <2>2, NoLinesInSet
<1> HIDE DEF k, old, left
<1>11. FlattenSeq(old) = f.lines \o FlattenSeq(left)
  <2>1. k \in 1..Len(old) /\ Len(left) = Len(old)
    BY <1>3, <1>4
  <2>2. \A n \in 1..Len(old) : n # k => left[n] = old[n]
    BY <1>4, <1>9
  <2>3. FlattenSeq(old) = old[k] \o FlattenSeq(left)
    BY <1>4, <1>8, <1>10, <2>1, <2>2, FlattenFirst
  <2> QED
    BY <1>7, <2>3
<1>12. Joins(f.lines, Log', Log)
  <2>1. Log = FlattenSeq(old) \o current.lines /\ Log' = FlattenSeq(left) \o current.lines
    BY <1>2, LogIs DEF old, left
  <2>2. /\ Joins(f.lines, FlattenSeq(left), FlattenSeq(old))
        /\ Joins(FlattenSeq(old), current.lines, Log)
        /\ Joins(FlattenSeq(left), current.lines, Log')
    BY <1>11, <2>1 DEF Joins
  <2>3. /\ f.lines \in Seq(Past_Line) /\ FlattenSeq(left) \in Seq(Past_Line)
        /\ current.lines \in Seq(Past_Line)
    BY <1>4 DEF Lines_OK
  <2> QED
    BY <2>2, <2>3, Regroup
<1>13. f.lines \in Seq(Past_Line)
  BY DEF Lines_OK
<1>14. Log' \in Seq(Past_Line)
  <2>1. Log' = FlattenSeq(left) \o current.lines
    BY <1>2, LogIs DEF left
  <2> QED
    BY <1>4, <2>1, ConcatProperties DEF Lines_OK
<1> QED
  BY <1>12, <1>13, <1>14, WithoutPrefix

-----------------------------------------------------------------------------
(* Where the message of the lock's owner ends.                              *)

LEMMA WrittenStays ==
  ASSUME TypeOK, Log' = Log, lock_owner' = lock_owner,
         lock_owner # NoProc => calls'[lock_owner] = calls[lock_owner]
  PROVE  Written' = Written
BY DEF Written

LEMMA WrittenByNobody ==
  ASSUME lock_owner' = NoProc
  PROVE  Written' = 0
BY DEF Written

LEMMA WrittenAppended ==
  ASSUME TypeOK, Lines_OK, NEW p \in Proc, Call(p) \/ Step(p) \/ Kill(p) \/ Restart(p),
         NEW e, NEW whole \in BOOLEAN, Appends(p, e, whole), lock_owner' = p
  PROVE  Written' = e
<1>1. Log' # << >> /\ Log'[Len(Log')] = New_Line(p, e, whole)
  BY LogAppends
<1>2. New_Line(p, e, whole).writer = p /\ New_Line(p, e, whole).to = e
      /\ New_Line(p, e, whole).call = calls[p]
  BY DEF New_Line
<1>3. calls' = calls /\ p # NoProc
  BY ProcAssumption DEF Appends
<1> QED
  BY <1>1, <1>2, <1>3 DEF Written

\* Who takes the lock has written nothing of its message.
LEMMA WrittenAtLock ==
  ASSUME TypeOK, Lines_OK, NEW p \in Proc, Set_Lock(p)
  PROVE  Written' = 0
<1>1. /\ UNCHANGED <<directory, calls>> /\ lock_owner' = p /\ pc[p] = "lock"
  BY DEF Set_Lock, request
<1>2. Log' = Log
  BY <1>1, LogIs DEF directory
<1>3. CASE Log = << >>
  BY <1>2, <1>3 DEF Written
<1>4. CASE Log # << >>
  <2> DEFINE line == Log[Len(Log)]
  <2>1. line \in Past_Line
    <3>1. Len(Log) \in 1..Len(Log)
      BY <1>4, LogType, EmptySeq
    <3> QED
      BY <3>1, LogType, ElementOfSeq
  <2>2. ~(line.writer = p /\ line.call = calls[p])
    BY <1>1, <2>1 DEF Past_Line, Line, TypeOK
  <2> HIDE DEF line
  <2>3. Log'[Len(Log')] = line /\ calls'[lock_owner'] = calls[p]
    BY <1>1, <1>2 DEF line
  <2> QED
    BY <1>1, <2>2, <2>3 DEF Written
<1> QED
  BY <1>3, <1>4

\* What does not give back the lock, keeps it.
LEMMA LetsGo ==
  ASSUME NEW p \in Proc, lock_owner = p, lock_owner' = NoProc,
         Call(p) \/ Step(p) \/ Kill(p) \/ Restart(p)
  PROVE  Unlock(p) \/ Handler(p) \/ Close(p) \/ Kill(p)
<1>1. lock_owner' # lock_owner
  BY ProcAssumption
<1> QED
  BY <1>1 DEF Call, Step, Open, Set_Maximum_Saved_Files, Set_Maximum_File_Size, Set_Unlimited_File_Size, Write, Write_Refused, Push_Fails, Lock_Directory, Create_Fails, Set_Lock, Set_Lock_Fails, Open_Current, Open_Current_Fails, Fit, Exit_Loop, Write_Chunk, Write_Rest, Write_Fails, Rotate, Remove_Log, Remove_Log_Fails, Rename_Current, Rename_Current_Fails, Restart

\* While a file is removed the log goes on ending with the lines of "current".
LEMMA WrittenOnRemoval ==
  ASSUME TypeOK, Lines_OK, NEW p \in Proc, Offset_OK(p), Remove_Log(p),
         Call(p) \/ Step(p) \/ Kill(p) \/ Restart(p)
  PROVE  Written' = Written
<1>1. UNCHANGED <<current, calls, lock_owner>> /\ current.lines # << >>
  BY DEF Remove_Log, request, Offset_OK
<1>2. Log # << >> /\ Log[Len(Log)] = current.lines[Len(current.lines)]
  BY <1>1, LastOfLog
<1>3. Log' # << >> /\ Log'[Len(Log')] = current.lines[Len(current.lines)]
  <2>1. rotations' \in Nat /\ current.lines \in Seq(Past_Line)
    BY DEF Remove_Log, TypeOK, Lines_OK
  <2>2. \A f \in saved' : f.lines \in Seq(Past_Line)
    BY DEF Remove_Log, Lines_OK
  <2>3. FlattenSeq(Old_Lines(saved', rotations')) \in Seq(Past_Line)
    BY <2>1, <2>2, OldLinesType
  <2>4. Log' = FlattenSeq(Old_Lines(saved', rotations')) \o current.lines
    BY <1>1, LogIs
  <2> QED
    BY <1>1, <2>1, <2>3, <2>4, LogLast
<1> QED
  BY <1>1, <1>2, <1>3 DEF Written

\* The end of a message is known by the steps of its writer,
LEMMA OffsetOwnStep ==
  ASSUME TypeOK, One_Limit, LockInv, SizeInv, RotationInv, OrderInv, LatestInv, LogInv,
         NEW p \in Proc, Call(p) \/ Step(p) \/ Kill(p) \/ Restart(p)
  PROVE  Offset_OK(p)'
<1>0. Lines_OK /\ Offset_OK(p) /\ Owner_OK(p) /\ Inside(p) /\ Size_OK(p)
  BY DEF LogInv, LockInv, SizeInv
<1>1. pc'[p] \in {"push", "lock"} => Current_Offset'[p] = 0
  <2>1. CASE Write(p)
    BY <2>1 DEF Write, TypeOK
  <2>2. CASE ~Write(p)
    BY <1>0, <2>2, CallSteps DEF Offset_OK
  <2> QED
    BY <2>1, <2>2
<1>2. ASSUME pc'[p] \in Following PROVE Current_Offset'[p] = Written'
  <2>1. CASE Set_Lock(p)
    <3>1. Current_Offset'[p] = 0
      BY <1>0, <2>1 DEF Set_Lock, request, Offset_OK
    <3> QED
      BY <1>0, <2>1, <3>1, WrittenAtLock
  <2>2. CASE Write_Chunk(p)
    <3>1. PICK e \in 0..data[p].length : Appends(p, e, TRUE) /\ Current_Offset'[p] = e
      BY <2>2, ChunkAppends
    <3>2. lock_owner' = p
      BY <1>0, <2>2 DEF Write_Chunk, Must_Split, Inside, Critical, Writing
    <3> QED
      BY <1>0, <3>1, <3>2, WrittenAppended
  <2>3. CASE ~Set_Lock(p) /\ ~Write_Chunk(p)
    <3>1. ~Write(p)
      BY <1>2 DEF Write, Following, Critical, Writing, Rotating, TypeOK
    <3>2. pc[p] \in Following /\ UNCHANGED <<calls, Current_Offset>>
      BY <1>2, <2>3, <3>1, CallSteps
    <3>3. lock_owner = p /\ Current_Offset[p] = Written
      BY <1>0, <3>2 DEF Following, Inside, Offset_OK
    <3>4. \/ Log' = Log /\ lock_owner' = lock_owner
          \/ Remove_Log(p)
      <4>1. CASE Quiet
        BY <4>1, LogIs DEF Quiet, directory
      <4>2. ~Let_Go(p) /\ ~(Kill(p) /\ Tear_Line(p)) /\ ~Write_Rest(p) /\ ~Write_Fails(p)
        <5>1. ~Kill(p)
          BY <1>2 DEF Kill, Following, Critical, Writing, Rotating, TypeOK
        <5>2. ~Write_Rest(p) /\ ~Write_Fails(p)
          BY <1>2 DEF Write_Rest, Write_Fails, Goto, Raise, Following, Critical, Writing,
                      Rotating, TypeOK
        <5>3. ~Let_Go(p)
          <6>1. ASSUME Let_Go(p) PROVE Unlock(p) \/ Handler(p) \/ Close(p) \/ Kill(p)
            BY <6>1, LetsGo DEF Let_Go
          <6>2. ~(Unlock(p) \/ Handler(p) \/ Close(p))
            BY <3>2 DEF Unlock, Handler, Close, Following, Critical, Writing, Rotating
          <6> QED
            BY <5>1, <6>1, <6>2
        <5> QED
          BY <5>1, <5>2, <5>3
      <4>3. CASE Open_Current(p)
        <5>1. current'.lines = current.lines /\ UNCHANGED <<saved, rotations, lock_owner>>
          BY <1>0, <4>3 DEF Open_Current, New_File, Lines_OK
        <5> QED
          BY <5>1, LogIs
      <4>4. CASE Rename_Current(p)
        <5>1. Log' = Log
          BY <1>0, <4>4, LogRotated DEF OrderInv
        <5> QED
          BY <4>4, <5>1 DEF Rename_Current
      <4> QED
        BY <2>3, <3>1, <4>1, <4>2, <4>3, <4>4, StepKinds
    <3>5. CASE Log' = Log /\ lock_owner' = lock_owner
      BY <3>2, <3>3, <3>5, WrittenStays
    <3>6. CASE Remove_Log(p)
      BY <1>0, <3>2, <3>3, <3>6, WrittenOnRemoval
    <3> QED
      BY <3>4, <3>5, <3>6
  <2> QED
    BY <2>1, <2>2, <2>3
<1>3. ASSUME pc'[p] \in {"rotate", "remove"} PROVE current'.lines # << >>
  <2>1. CASE Write_Chunk(p)
    <3>1. PICK e \in 0..data[p].length : Appends(p, e, TRUE)
      BY <2>1, ChunkAppends
    <3>2. current.lines \in Seq(Line) /\ New_Line(p, e, TRUE) \in Line
      BY <3>1, Widths DEF TypeOK, Current_File, New_Line, Line, Appends
    <3>3. Append(current.lines, New_Line(p, e, TRUE)) # << >>
      BY <3>2, AppendProperties, ZenonT(30)
    <3> QED
      BY <3>1, <3>3 DEF Appends
  <2>2. CASE Fit(p)
    <3>1. pc[p] = "fit" /\ Log_Size[p] # 0 /\ UNCHANGED current
      BY <1>3, <2>2 DEF Fit, Goto, Raise, directory, TypeOK
    <3>2. current.size = Log_Size[p] /\ current.size \in Nat
      BY <1>0, <3>1 DEF Size_OK, Writing, TypeOK, Current_File
    <3> QED
      BY <1>0, <3>1, <3>2 DEF Lines_OK
  <2>3. CASE Rotate(p) \/ Remove_Log(p)
    BY <1>0, <2>3 DEF Rotate, Remove_Log, directory, Offset_OK
  <2>4. ~Write(p)
    BY <1>3 DEF Write, TypeOK
  <2> QED
    BY <1>3, <2>1, <2>2, <2>3, <2>4, CallSteps
<1> QED
  BY <1>1, <1>2, <1>3 DEF Offset_OK

LEMMA LogStep ==
  ASSUME One_Limit, TypeOK, LockInv, SizeInv, RotationInv, OrderInv, LatestInv, LogInv,
         NEW p \in Proc, Call(p) \/ Step(p) \/ Kill(p) \/ Restart(p)
  PROVE  LogInv'
<1>1. Lines_OK'
  BY LinesStep DEF LogInv
<1>2. Owner_OK(p)' /\ Offset_OK(p)'
  BY OwnerOwnStep, OffsetOwnStep DEF LogInv
<1>3. ASSUME NEW q \in Proc, q # p PROVE Owner_OK(q)' /\ Offset_OK(q)'
  <2>1. Lock_FD'[q] = Lock_FD[q] /\ (lock_owner' = q <=> lock_owner = q)
    BY <1>3, OthersKeepResources
  <2>2. pc'[q] = pc[q] /\ Current_Offset'[q] = Current_Offset[q] /\ calls'[q] = calls[q]
    BY <1>3, OthersUnchanged DEF Own
  <2>3. Owner_OK(q)'
    BY <2>1, <2>2 DEF LogInv, Owner_OK
  <2>4. ASSUME pc[q] \in Critical
        PROVE  Written' = Written /\ current' = current
    <3>1. UNCHANGED directory
      BY <1>3, <2>4, OthersKeepFiles
    <3>2. lock_owner = q /\ lock_owner' = q
      BY <2>1, <2>4 DEF LockInv, Inside
    <3>3. Log' = Log
      BY <3>1, LogIs DEF directory
    <3> QED
      BY <2>2, <3>1, <3>2, <3>3, WrittenStays DEF directory
  <2>5. Offset_OK(q)'
    BY <2>2, <2>4 DEF LogInv, Offset_OK, Following, Critical, Rotating
  <2> QED
    BY <2>3, <2>5
<1> QED
  BY <1>1, <1>2, <1>3 DEF LogInv

LEMMA LogInvariant ==
  ASSUME Spread_Clock, One_Limit
  PROVE  Spec => [](TypeOK /\ LockInv /\ SizeInv /\ RotationInv /\ OrderInv /\ LatestInv
                      /\ LogInv)
<1>1. Init => LogInv
  <2> SUFFICES ASSUME Init PROVE LogInv
    OBVIOUS
  <2>1. Lines_OK
    BY EmptySeq DEF Init, Lines_OK, No_File
  <2>2. \A p \in Proc : Owner_OK(p) /\ Offset_OK(p)
    BY ProcAssumption
       DEF Init, Owner_OK, Offset_OK, Following, Critical, Writing, Rotating
  <2> QED
    BY <2>1, <2>2 DEF LogInv
<1>2. /\ TypeOK /\ LockInv /\ SizeInv /\ RotationInv /\ OrderInv /\ LatestInv /\ LogInv
      /\ [Next]_vars
      => LogInv'
  <2> SUFFICES ASSUME TypeOK, LockInv, SizeInv, RotationInv, OrderInv, LatestInv, LogInv,
                      [Next]_vars
               PROVE  LogInv'
    OBVIOUS
  <2>1. CASE Next
    <3>1. PICK p \in Proc : Call(p) \/ Step(p) \/ Kill(p) \/ Restart(p)
      BY <2>1 DEF Next
    <3> QED
      BY <3>1, LogStep
  <2>2. CASE UNCHANGED vars
    <3>1. /\ UNCHANGED <<current, saved, rotations, lock_owner, Lock_FD, pc, calls>>
          /\ UNCHANGED Current_Offset
      BY <2>2 DEF vars, directory, handles, request
    <3>2. Past_Line' = Past_Line
      BY <3>1 DEF Past_Line
    <3>3. Lines_OK'
      BY <3>1, <3>2 DEF LogInv, Lines_OK
    <3>4. Written' = Written
      BY <3>1, LogIs, WrittenStays
    <3> QED
      BY <3>1, <3>3, <3>4 DEF LogInv, Owner_OK, Offset_OK
  <2> QED
    BY <2>1, <2>2
<1> QED
  BY <1>1, <1>2, SizeInvariant, LatestInvariant, PTL DEF Spec

-----------------------------------------------------------------------------
(* The serial log.                                                          *)

\* A line that is written whole is one that the holder appends.
LEMMA AppendIsSerial ==
  ASSUME TypeOK, Lines_OK, NEW p \in Proc, Call(p) \/ Step(p) \/ Kill(p) \/ Restart(p),
         NEW e, Appends(p, e, TRUE), lock_owner = p, lock_owner' = p,
         Current_Offset[p] = Written
  PROVE  Serial!AppendLine(p)
<1> DEFINE line == New_Line(p, e, TRUE)
<1>1. Log' = Append(Log, line) /\ Log' # << >> /\ Log'[Len(Log')] = line
  BY LogAppends
<1>2. Written' = e
  BY WrittenAppended
<1>3. /\ line.writer = p /\ line.from = Written /\ line.to = e /\ line.whole
      /\ e >= Written
  BY DEF New_Line, Appends, TypeOK
<1> HIDE DEF line
<1>4. Serial!Appended(line)
  BY <1>1, <1>3 DEF Serial!Appended
<1> QED
  BY <1>1, <1>2, <1>3, <1>4 DEF Serial!AppendLine

LEMMA SerialStep ==
  ASSUME One_Limit, "write" \notin Faults,
         TypeOK, LockInv, SizeInv, RotationInv, OrderInv, LatestInv, LogInv,
         NEW p \in Proc, Call(p) \/ Step(p) \/ Kill(p) \/ Restart(p)
  PROVE  [Serial!Next]_Serial!vars
<1>0. Lines_OK /\ Offset_OK(p) /\ Owner_OK(p) /\ Inside(p)
  BY DEF LogInv, LockInv
<1>1. ASSUME Log' = Log, lock_owner' = lock_owner,
             lock_owner # NoProc => calls'[lock_owner] = calls[lock_owner]
      PROVE  UNCHANGED Serial!vars
  BY <1>1, WrittenStays DEF Serial!vars
<1>2. CASE Quiet
  BY <1>1, <1>2, LogIs DEF Quiet, directory
<1>3. CASE Let_Go(p)
  <2>1. Log' = Log /\ lock_owner = p /\ lock_owner' = NoProc
    BY <1>3, LogIs DEF Let_Go, directory
  <2>2. Serial!Release(p)
    BY <2>1, WrittenByNobody DEF Serial!Release
  <2> QED
    BY <2>2 DEF Serial!Next
<1>4. CASE Write(p)
  <2>1. UNCHANGED <<directory, lock_owner>> /\ Lock_FD[p] = "invalid"
    BY <1>4 DEF Write, Context_At_Rest, Have_Directory_Lock
  <2>2. lock_owner # p
    BY <1>0, <2>1 DEF Owner_OK
  <2>3. lock_owner # NoProc => calls'[lock_owner] = calls[lock_owner]
    BY <1>4, <2>2 DEF Write, TypeOK
  <2> QED
    BY <1>1, <2>1, <2>3, LogIs DEF directory
<1>5. CASE Set_Lock(p)
  <2>1. Log' = Log /\ lock_owner = NoProc /\ lock_owner' = p
    BY <1>5, LogIs DEF Set_Lock, directory
  <2>2. Serial!Acquire(p)
    BY <1>0, <1>5, <2>1, WrittenAtLock DEF Serial!Acquire
  <2> QED
    BY <2>2 DEF Serial!Next
<1>6. CASE Open_Current(p)
  <2>1. /\ current'.lines = current.lines
        /\ UNCHANGED <<saved, rotations, lock_owner, calls>>
    BY <1>0, <1>6 DEF Open_Current, New_File, Lines_OK, request
  <2> QED
    BY <1>1, <2>1, LogIs
<1>7. CASE Write_Chunk(p)
  <2>1. PICK e \in 0..data[p].length : Appends(p, e, TRUE)
    BY <1>7, ChunkAppends
  <2>2. lock_owner = p /\ lock_owner' = p /\ Current_Offset[p] = Written
    BY <1>0, <1>7
       DEF Write_Chunk, Must_Split, Inside, Offset_OK, Following, Critical, Writing
  <2>3. Serial!AppendLine(p)
    BY <1>0, <2>1, <2>2, AppendIsSerial
  <2> QED
    BY <2>3 DEF Serial!Next
<1>8. CASE Write_Rest(p)
  <2>1. /\ lock_owner = p /\ lock_owner' = p /\ Current_Offset[p] = Written
        /\ UNCHANGED <<saved, rotations, calls>>
    BY <1>0, <1>8
       DEF Write_Rest, Inside, Offset_OK, Following, Critical, Writing, request
  <2>2. CASE Something_To_Write(p)
    <3>1. Serial!AppendLine(p)
      BY <1>0, <1>8, <2>1, <2>2, RestAppends, AppendIsSerial
    <3> QED
      BY <3>1 DEF Serial!Next
  <2>3. CASE ~Something_To_Write(p)
    <3>1. current' = current
      BY <1>8, <2>3 DEF Write_Rest
    <3> QED
      BY <1>1, <2>1, <3>1, LogIs
  <2> QED
    BY <2>2, <2>3
<1>9. ~Write_Fails(p)
  BY DEF Write_Fails, Fails
<1>10. CASE Remove_Log(p)
  <2>1. PICK n : Is_Rest(Log, n, Log')
    BY <1>0, <1>10, LogDiscards DEF RotationInv, OrderInv
  <2>2. /\ lock_owner = p /\ UNCHANGED <<lock_owner, calls>>
    BY <1>0, <1>10 DEF Remove_Log, Inside, Critical, Rotating, request
  <2>3. CASE n = 0
    BY <1>1, <2>1, <2>2, <2>3 DEF Is_Rest
  <2>4. CASE n # 0
    <3>1. n \in 1..Len(Log) /\ Log' = SubSeq(Log, n + 1, Len(Log))
      BY <2>1, <2>4 DEF Is_Rest
    <3>2. Written' = Written
      BY <1>0, <1>10, WrittenOnRemoval
    <3>3. Serial!Discard(p)
      BY <2>2, <3>1, <3>2 DEF Serial!Discard
    <3> QED
      BY <3>3 DEF Serial!Next
  <2> QED
    BY <2>3, <2>4
<1>11. CASE Rename_Current(p)
  <2>1. Log' = Log /\ UNCHANGED <<lock_owner, calls>>
    BY <1>0, <1>11, LogRotated DEF Rename_Current, request, OrderInv
  <2> QED
    BY <1>1, <2>1
<1>12. CASE Kill(p) /\ Tear_Line(p)
  <2>1. UNCHANGED <<saved, rotations, calls>> /\ pc'[p] \notin {"push", "lock"}
    BY <1>12 DEF Kill, TypeOK
  <2>2. PICK e \in 0..data[p].length : Appends(p, e, FALSE)
    BY <1>12, <2>1, TearAppends
  <2>3. lock_owner = p /\ lock_owner' = NoProc /\ Current_Offset[p] = Written
    BY <1>0, <1>12, <2>2
       DEF Appends, Kill, Released, Inside, Offset_OK, Following, Critical, Writing
  <2> DEFINE line == New_Line(p, e, FALSE)
  <2>4. Log' = Append(Log, line) /\ Log' # << >> /\ Log'[Len(Log')] = line
    BY <1>0, <2>2, LogAppends
  <2>5. line.writer = p /\ line.from = Written /\ ~line.whole
    BY <2>3 DEF New_Line
  <2> HIDE DEF line
  <2>6. Serial!Appended(line)
    BY <2>3, <2>4, <2>5 DEF Serial!Appended
  <2>7. Serial!Crash(p)
    BY <2>3, <2>4, <2>5, <2>6, WrittenByNobody DEF Serial!Crash
  <2> QED
    BY <2>7 DEF Serial!Next
<1> QED
  BY <1>2, <1>3, <1>4, <1>5, <1>6, <1>7, <1>8, <1>9, <1>10, <1>11, <1>12, StepKinds

\* The directory is one serial log: whatever the processes do and wherever they
\* are killed, lines stay in order, only the oldest ever go, and each message is
\* written from its beginning on, by its own process, with nothing between its
\* pieces.
THEOREM SerialLogImplemented ==
  ASSUME Spread_Clock, One_Limit, "write" \notin Faults
  PROVE  Spec => ImplementsSerialLog
<1>1. Init => Serial!Init
  <2> SUFFICES ASSUME Init PROVE Serial!Init
    OBVIOUS
  <2>1. rotations = 0 /\ current.lines = << >> /\ lock_owner = NoProc
    BY DEF Init, No_File
  <2>2. Old_Lines(saved, rotations) = << >>
    BY <2>1 DEF Old_Lines
  <2>3. Log = << >>
    BY <2>1, <2>2, LogIs, FlattenEmpty, EmptySeq, ConcatEmptySeq
  <2> QED
    BY <2>1, <2>3 DEF Serial!Init, Written
<1>2. /\ TypeOK /\ LockInv /\ SizeInv /\ RotationInv /\ OrderInv /\ LatestInv /\ LogInv
      /\ [Next]_vars
      => [Serial!Next]_Serial!vars
  <2> SUFFICES ASSUME TypeOK, LockInv, SizeInv, RotationInv, OrderInv, LatestInv, LogInv,
                      [Next]_vars
               PROVE  [Serial!Next]_Serial!vars
    OBVIOUS
  <2>1. CASE Next
    <3>1. PICK p \in Proc : Call(p) \/ Step(p) \/ Kill(p) \/ Restart(p)
      BY <2>1 DEF Next
    <3> QED
      BY <3>1, SerialStep
  <2>2. CASE UNCHANGED vars
    <3>1. UNCHANGED <<current, saved, rotations, lock_owner, calls>>
      BY <2>2 DEF vars, directory, request
    <3> QED
      BY <3>1, LogIs, WrittenStays DEF Serial!vars
  <2> QED
    BY <2>1, <2>2
<1> QED
  BY <1>1, <1>2, LogInvariant, PTL DEF Spec, ImplementsSerialLog, Serial!Spec

-----------------------------------------------------------------------------
(* The space the directory needs.                                           *)

\* All processes use the default limits.
Default_Limits ==
  /\ Files_In_Use = {Files_Default} /\ Files_Default > 0
  /\ Sizes_In_Use = {Size_Default} /\ ~May_Unlimit

\* Every process has its limit, and no file is longer.
SpaceInv ==
  /\ \A p \in Proc : Size_Limited[p]
  /\ current.size <= Size_Default
  /\ \A f \in saved : f.size <= Size_Default

\* A process that may not give up its limit keeps it.
LEMMA LimitedStep ==
  ASSUME TypeOK, ~May_Unlimit, NEW q \in Proc, NEW p \in Proc, Size_Limited[q],
         Call(p) \/ Step(p) \/ Kill(p) \/ Restart(p)
  PROVE  Size_Limited'[q]
<1>1. CASE Set_Maximum_File_Size(p)
  BY <1>1 DEF Set_Maximum_File_Size, TypeOK
<1>2. CASE Restart(p)
  BY <1>2 DEF Restart, TypeOK
<1>3. CASE Set_Maximum_Saved_Files(p)
  BY <1>3 DEF Set_Maximum_Saved_Files
<1>4. CASE /\ Call(p) \/ Step(p) \/ Kill(p)
           /\ ~Set_Maximum_File_Size(p) /\ ~Set_Maximum_Saved_Files(p)
  <2>1. UNCHANGED config
    BY <1>4, Zenon
       DEF Call, Step, Open, Close, Set_Unlimited_File_Size, Write, Write_Refused,
           Push_Fails, Lock_Directory, Create_Fails, Set_Lock, Set_Lock_Fails,
           Open_Current, Open_Current_Fails, Fit, Exit_Loop, Write_Chunk, Write_Rest,
           Write_Fails, Rotate, Remove_Log, Remove_Log_Fails, Rename_Current,
           Rename_Current_Fails, Unlock, Handler, Kill
  <2> QED
    BY <2>1 DEF config
<1> QED
  BY <1>1, <1>2, <1>3, <1>4 DEF Call

LEMMA SpaceStep ==
  ASSUME Default_Limits, TypeOK, LockInv, SizeInv, SpaceInv, NEW p \in Proc,
         Call(p) \/ Step(p) \/ Kill(p) \/ Restart(p)
  PROVE  SpaceInv'
<1>1. \A q \in Proc : Size_Limited'[q]
  BY LimitedStep DEF SpaceInv, Default_Limits
<1>2. current'.size <= Size_Default
  <2>1. current.size \in Nat /\ current'.size \in Nat /\ Size_Default \in Nat
    BY TypeStep, SizesAssumption DEF TypeOK, Current_File, File_Size_t
  <2>2. ASSUME current'.size > current.size PROVE current'.size <= Size_Max[p]
    <3>1. lock_owner = p
      BY <2>1, <2>2, OnlyOwnerWrites DEF directory
    <3> QED
      BY <2>2, <3>1, LimitStep DEF SpaceInv
  <2>3. Size_Max[p] = Size_Default
    BY DEF TypeOK, Default_Limits
  <2> QED
    BY <2>1, <2>2, <2>3 DEF SpaceInv
<1>3. \A f \in saved' : f.size <= Size_Default
  <2>1. CASE UNCHANGED saved
    BY <2>1 DEF SpaceInv
  <2>2. CASE Rotate(p)
    BY <2>2 DEF SpaceInv, Rotate, directory
  <2>3. CASE Remove_Log(p)
    BY <2>3 DEF SpaceInv, Remove_Log
  <2>4. CASE Rename_Current(p)
    BY <2>4 DEF SpaceInv, Rename_Current
  <2> QED
    BY <2>1, <2>2, <2>3, <2>4, FileSteps DEF directory
<1> QED
  BY <1>1, <1>2, <1>3 DEF SpaceInv

LEMMA SpaceInvariant ==
  ASSUME Default_Limits
  PROVE  Spec => []SpaceInv
<1>1. Init => SpaceInv
  BY SizesAssumption DEF Init, SpaceInv, No_File, File_Size_t
<1>2. TypeOK /\ LockInv /\ SizeInv /\ SpaceInv /\ [Next]_vars => SpaceInv'
  <2> SUFFICES ASSUME TypeOK, LockInv, SizeInv, SpaceInv, [Next]_vars PROVE SpaceInv'
    OBVIOUS
  <2>1. CASE Next
    <3>1. PICK p \in Proc : Call(p) \/ Step(p) \/ Kill(p) \/ Restart(p)
      BY <2>1 DEF Next
    <3> QED
      BY <3>1, SpaceStep
  <2>2. CASE UNCHANGED vars
    BY <2>2 DEF vars, directory, config, SpaceInv
  <2> QED
    BY <2>1, <2>2
<1> QED
  BY <1>1, <1>2, SizeInvariant, PTL DEF Spec

LEMMA SpaceBounded ==
  ASSUME Default_Limits, TypeOK, RotationInv, SpaceInv
  PROVE  Total_Size <= Space_Requirement(Files_Default, Size_Default)
<1> DEFINE s == MapThenSumSet(LAMBDA x : x.size, saved)
           n == Cardinality(saved)
<1>1. /\ IsFiniteSet(saved)
      /\ Size_Default \in Nat /\ Files_Default \in Nat /\ current.size \in Nat
      /\ \A f \in saved : f.size \in 0..Size_Default
  BY SizesAssumption, FilesAssumption
     DEF TypeOK, RotationInv, SpaceInv, Current_File, Saved_File, File_Size_t
<1>2. s \in Nat /\ s <= n * Size_Default
  BY <1>1, SumBounded
<1>3. n \in Nat /\ n <= Files_Default
  BY <1>1, FS_CardinalityType DEF RotationInv, SavedFilesBounded, Default_Limits
<1>4. Total_Size = s + current.size
  BY DEF Total_Size
<1> HIDE DEF s, n
<1>5. n * Size_Default <= Files_Default * Size_Default
  BY <1>1, <1>3
<1>6. n * Size_Default \in Nat /\ Files_Default * Size_Default \in Nat
  BY <1>1, <1>3
<1> QED
  BY <1>1, <1>2, <1>4, <1>5, <1>6 DEF Space_Requirement, SpaceInv

\* If all processes keep to the default limits the files never need more room
\* than the function Space_Requirement of the package says, also in the middle
\* of a rotation and after a crash.
THEOREM Space == Spec => []SpaceRequirementHolds
<1>1. CASE Default_Limits
  <2>1. TypeOK /\ RotationInv /\ SpaceInv => SpaceRequirementHolds
    BY <1>1, SpaceBounded DEF SpaceRequirementHolds
  <2>2. Spec => []SpaceInv
    BY <1>1, SpaceInvariant
  <2> QED
    BY <2>1, <2>2, RotationInvariant, PTL
<1>2. CASE ~Default_Limits
  <2>1. SpaceRequirementHolds
    BY <1>2 DEF SpaceRequirementHolds, Default_Limits
  <2> QED
    BY <2>1, PTL
<1> QED
  BY <1>1, <1>2
=============================================================================

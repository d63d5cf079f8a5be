--------------------------- MODULE PlexlogProofs ----------------------------
(***************************************************************************)
(* Proofs about Plexlog: types, the lock discipline, the size limit, the   *)
(* progress of the loop that splits a message, and what a call of Write    *)
(* leaves behind when it returns.                                          *)
(***************************************************************************)
EXTENDS PlexlogProperties, TLAPS, FiniteSetTheorems

\* Every message a context can hold is well formed.
LEMMA MessageFacts ==
  ASSUME TypeOK, NEW p \in Proc
  PROVE  IsMessage(data[p])
<1>1. IsMessage(No_Message)
  BY DEF IsMessage, No_Message, Level_Lengths
<1>2. data[p] \in Messages \union {No_Message}
  BY DEF TypeOK
<1> QED
  BY <1>1, <1>2, MessagesAssumption

\* The filtered length of a piece of a message is a natural number.
LEMMA Widths ==
  ASSUME TypeOK, NEW p \in Proc, NEW e \in Current_Offset[p]..data[p].length
  PROVE  /\ e \in Nat
         /\ data[p].upto[e] \in Nat
         /\ data[p].upto[Current_Offset[p]] \in Nat
         /\ data[p].upto[e] >= data[p].upto[Current_Offset[p]]
<1>1. IsMessage(data[p])
  BY MessageFacts
<1>2. Current_Offset[p] \in Nat /\ Current_Offset[p] <= data[p].length
  BY DEF TypeOK
<1>3. data[p].length \in Nat
  BY <1>1 DEF IsMessage
<1>4. e \in 0..data[p].length /\ Current_Offset[p] \in 0..data[p].length /\ e \in Nat
  BY <1>2, <1>3
<1> QED
  BY <1>1, <1>2, <1>4 DEF IsMessage

\* A prefix is never longer than Message_Minimum_Length says, one for the LF
\* included, so what Log_Has_Space_For adds up bounds a line.
LEMMA LineLength ==
  ASSUME TypeOK, NEW p \in Proc, NEW e \in Current_Offset[p]..data[p].length
  PROVE  /\ Prefix_Length(p) \in Nat
         /\ Prefix_Length(p) <= Message_Minimum_Length
         /\ Line_Length(p, e) \in Nat
<1>1. IsMessage(data[p])
  BY MessageFacts
<1>2. data[p].level \in {0, 4, 5, 6}
  BY <1>1 DEF IsMessage, Level_Lengths
<1>3. PID_Digits[p] \in 1..10
  BY ProcAssumption
<1>4. Prefix_Length(p) \in Nat /\ Prefix_Length(p) <= 45
  BY <1>2, <1>3 DEF Prefix_Length, Label_Size
<1>5. Line_Length(p, e) \in Nat
  BY <1>4, Widths DEF Line_Length
<1> QED
  BY <1>4, <1>5 DEF Message_Minimum_Length, Label_Size

\* The modification time that a write leaves on a file is a time.
LEMMA NowIsInt ==
  ASSUME TypeOK
  PROVE  Now \in Int
<1>1. clock \in Int /\ Grain \in Nat /\ Grain > 0
  BY EnvironmentAssumption DEF TypeOK
<1> QED
  BY <1>1 DEF Now

\* Appending a line keeps "current" a file.
LEMMA AppendType ==
  ASSUME TypeOK, NEW p \in Proc, NEW e \in Current_Offset[p]..data[p].length,
         NEW whole \in BOOLEAN, NEW n \in Nat,
         Append_Line(New_Line(p, e, whole), n)
  PROVE  /\ current' \in Current_File
         /\ current'.size = current.size + n
         /\ current'.lines = Append(current.lines, New_Line(p, e, whole))
<1>1. New_Line(p, e, whole) \in Line
  BY Widths DEF New_Line, Line, TypeOK
<1>2. Now \in Int
  BY NowIsInt
<1>3. current \in Current_File
  BY DEF TypeOK
<1>4. Append(current.lines, New_Line(p, e, whole)) \in Seq(Line)
  BY <1>1, <1>3 DEF Current_File
<1> QED
  BY <1>2, <1>3, <1>4 DEF Append_Line, Current_File

\* A torn line keeps "current" a file.
LEMMA TearType ==
  ASSUME TypeOK, NEW p \in Proc, Tear_Line(p)
  PROVE  current' \in Current_File
<1>1. PICK e \in 0..data[p].length, k \in Torn :
        /\ \/ Must_Split(p) /\ Write_Message_Stops(p, Max_Length(p), e)
           \/ pc[p] = "rest" /\ Something_To_Write(p) /\ e = data[p].length
        /\ k < Line_Length(p, e)
        /\ Append_Line(New_Line(p, e, FALSE), k)
  BY DEF Tear_Line
<1>2. e \in Current_Offset[p]..data[p].length
  BY <1>1, MessageFacts DEF Write_Message_Stops, TypeOK, IsMessage
<1>3. k \in Nat
  BY EnvironmentAssumption
<1> QED
  BY <1>1, <1>2, <1>3, AppendType

-----------------------------------------------------------------------------

\* The lock invariant: the helpers' assertions, and what leads up to them.
LockInv ==
  \A p \in Proc :
    /\ Inside(p)
    /\ pc[p] \in {"push", "lock"} => ~Log_File[p]
    /\ pc[p] = "lock" => Lock_FD[p] = "open" /\ Dir_Stack[p] = 1

\* No step of any process breaks the lock discipline: the one that takes the
\* lock finds it free, and nobody gives back the lock of another.
LEMMA LockStep ==
  ASSUME TypeOK, LockInv, NEW p \in Proc,
         Call(p) \/ Step(p) \/ Kill(p) \/ Restart(p)
  PROVE  LockInv'
<1>1. CASE Open(p)
  BY <1>1, ProcAssumption
  DEF
    Open, Leave, Context_At_Rest, directory, env, config, request, plan,
    LockInv, Inside, Critical, Writing, Rotating, TypeOK
<1>2. CASE Close(p)
  BY <1>2, ProcAssumption
  DEF
    Close, Leave, Released, directory, env, config, request, plan, LockInv,
    Inside, Critical, Writing, Rotating, TypeOK
<1>3. CASE Set_Maximum_Saved_Files(p)
  BY <1>3, ProcAssumption
  DEF
    Set_Maximum_Saved_Files, directory, env, handles, request, plan,
    LockInv, Inside, Critical, Writing, Rotating, TypeOK
<1>4. CASE Set_Maximum_File_Size(p)
  BY <1>4, ProcAssumption
  DEF
    Set_Maximum_File_Size, directory, env, handles, request, plan, LockInv,
    Inside, Critical, Writing, Rotating, TypeOK
<1>5. CASE Set_Unlimited_File_Size(p)
  BY <1>5, ProcAssumption
  DEF
    Set_Unlimited_File_Size, directory, env, handles, request, plan,
    LockInv, Inside, Critical, Writing, Rotating, TypeOK
<1>6. CASE Write(p)
  BY <1>6, ProcAssumption
  DEF
    Write, Context_At_Rest, Have_Directory_Lock, directory, env, config,
    handles, plan, LockInv, Inside, Critical, Writing, Rotating, TypeOK
<1>7. CASE Write_Refused(p)
  BY <1>7, ProcAssumption
  DEF
    Write_Refused, Leave, directory, env, config, handles, request, plan,
    LockInv, Inside, Critical, Writing, Rotating, TypeOK
<1>8. CASE Push_Fails(p)
  BY <1>8, ProcAssumption
  DEF
    Push_Fails, Raise, directory, env, config, handles, request, plan,
    LockInv, Inside, Critical, Writing, Rotating, TypeOK
<1>9. CASE Lock_Directory(p)
  BY <1>9, ProcAssumption
  DEF
    Lock_Directory, Goto, directory, env, config, request, plan, LockInv,
    Inside, Critical, Writing, Rotating, TypeOK
<1>10. CASE Create_Fails(p)
  BY <1>10, ProcAssumption
  DEF
    Create_Fails, Raise, directory, env, config, request, plan, LockInv,
    Inside, Critical, Writing, Rotating, TypeOK
<1>11. CASE Set_Lock(p)
  BY <1>11, ProcAssumption
  DEF
    Set_Lock, Goto, directory, env, config, handles, request, plan, LockInv,
    Inside, Critical, Writing, Rotating, TypeOK
<1>12. CASE Set_Lock_Fails(p)
  BY <1>12, ProcAssumption
  DEF
    Set_Lock_Fails, Abandon_Lock, Pop, Raise, directory, env, config,
    request, plan, LockInv, Inside, Critical, Writing, Rotating, TypeOK
<1>13. CASE Open_Current(p)
  BY <1>13, ProcAssumption
  DEF
    Open_Current, Goto, env, config, request, plan, LockInv, Inside,
    Critical, Writing, Rotating, TypeOK
<1>14. CASE Open_Current_Fails(p)
  BY <1>14, ProcAssumption
  DEF
    Open_Current_Fails, Raise, directory, env, config, handles, request,
    plan, LockInv, Inside, Critical, Writing, Rotating, TypeOK
<1>15. CASE Fit(p)
  BY <1>15, ProcAssumption
  DEF
    Fit, Goto, Raise, directory, env, config, request, plan, LockInv,
    Inside, Critical, Writing, Rotating, TypeOK
<1>16. CASE Exit_Loop(p)
  BY <1>16, ProcAssumption
  DEF
    Exit_Loop, Goto, directory, env, config, handles, request, plan,
    LockInv, Inside, Critical, Writing, Rotating, TypeOK
<1>17. CASE Write_Chunk(p)
  BY <1>17, ProcAssumption
  DEF
    Write_Chunk, Must_Split, Goto, Raise, env, config, plan, LockInv, Inside,
    Critical, Writing, Rotating, TypeOK
<1>18. CASE Write_Rest(p)
  BY <1>18, ProcAssumption
  DEF
    Write_Rest, Goto, Raise, env, config, request, plan, LockInv, Inside,
    Critical, Writing, Rotating, TypeOK
<1>19. CASE Write_Fails(p)
  BY <1>19, ProcAssumption
  DEF
    Write_Fails, Raise, env, config, handles, request, plan, LockInv,
    Inside, Critical, Writing, Rotating, TypeOK
<1>20. CASE Rotate(p)
  BY <1>20, ProcAssumption
  DEF
    Rotate, Goto, directory, config, handles, request, LockInv, Inside,
    Critical, Writing, Rotating, TypeOK
<1>21. CASE Remove_Log(p)
  BY <1>21, ProcAssumption
  DEF
    Remove_Log, env, config, handles, request, LockInv, Inside, Critical,
    Writing, Rotating, TypeOK
<1>22. CASE Remove_Log_Fails(p)
  BY <1>22, ProcAssumption
  DEF
    Remove_Log_Fails, Raise, End_Rotate, directory, env, config, handles,
    request, LockInv, Inside, Critical, Writing, Rotating, TypeOK
<1>23. CASE Rename_Current(p)
  BY <1>23, ProcAssumption
  DEF
    Rename_Current, Goto, End_Rotate, env, config, handles, request,
    LockInv, Inside, Critical, Writing, Rotating, TypeOK
<1>24. CASE Rename_Current_Fails(p)
  BY <1>24, ProcAssumption
  DEF
    Rename_Current_Fails, Raise, End_Rotate, directory, env, config,
    handles, request, LockInv, Inside, Critical, Writing, Rotating, TypeOK
<1>25. CASE Unlock(p)
  BY <1>25, ProcAssumption
  DEF
    Unlock, Unlock_Directory, Pop, Raise, Return, Leave, Released,
    directory, env, config, plan, LockInv, Inside, Critical, Writing,
    Rotating, TypeOK
<1>26. CASE Handler(p)
  BY <1>26, ProcAssumption
  DEF
    Handler, Handler_Asserts, Unlock_Directory, Pop, Return, Leave,
    Released, Have_Directory_Lock, directory, env, config, plan, LockInv,
    Inside, Critical, Writing, Rotating, TypeOK
<1>27. CASE Kill(p)
  BY <1>27, ProcAssumption
  DEF
    Kill, End_Rotate, Released, config, LockInv, Inside, Critical, Writing,
    Rotating, TypeOK
<1>28. CASE Restart(p)
  BY <1>28, ProcAssumption
  DEF
    Restart, Goto, directory, env, handles, request, plan, LockInv, Inside,
    Critical, Writing, Rotating, TypeOK
<1> QED
  BY <1>1, <1>2, <1>3, <1>4, <1>5, <1>6, <1>7, <1>8, <1>9, <1>10, <1>11, <1>12, <1>13, <1>14, <1>15, <1>16, <1>17, <1>18, <1>19, <1>20, <1>21, <1>22, <1>23, <1>24, <1>25, <1>26, <1>27, <1>28 DEF Call, Step

\* The control part of TypeOK, which Return changes as a whole.
ControlType ==
  /\ pc \in [Proc -> Labels]
  /\ exc \in [Proc -> Exceptions]
  /\ data \in [Proc -> Messages \union {No_Message}]
  /\ Current_Offset \in [Proc -> Nat]
  /\ \A p \in Proc : Current_Offset[p] <= data[p].length

\* Leaving Write, normally or by an exception, keeps the types of its locals.
LEMMA ReturnType ==
  ASSUME TypeOK, NEW p \in Proc, NEW e \in Exceptions, Return(p, e)
  PROVE  ControlType'
<1>1. \A q \in Proc : Current_Offset'[q] <= data'[q].length
  BY DEF Return, No_Message, TypeOK
<1> QED
  BY <1>1 DEF Return, Leave, TypeOK, ControlType, Labels

\* Raising into Write's handler keeps the types of its locals.
LEMMA RaiseType ==
  ASSUME TypeOK, NEW p \in Proc, NEW e \in Exceptions, Raise(p, e),
         UNCHANGED <<data, Current_Offset>>
  PROVE  ControlType'
BY DEF Raise, TypeOK, ControlType, Labels

\* Every call, step and failure of a process keeps the types; Dir_Stack stays
\* between 0 and 1 because Push_FD is tried only by who is outside.
LEMMA TypeStep ==
  ASSUME TypeOK, LockInv, NEW p \in Proc,
         Call(p) \/ Step(p) \/ Kill(p) \/ Restart(p)
  PROVE  TypeOK'
<1>1. CASE Open(p)
  BY <1>1
  DEF
    Open, Leave, Context_At_Rest, directory, env, config, request, plan,
    TypeOK, Labels, Critical, Writing, Rotating, Descriptor, Exceptions
<1>2. CASE Close(p)
  BY <1>2
  DEF
    Close, Leave, Released, directory, env, config, request, plan, TypeOK,
    Labels, Critical, Writing, Rotating, Descriptor, Exceptions
<1>3. CASE Set_Maximum_Saved_Files(p)
  BY <1>3
  DEF
    Set_Maximum_Saved_Files, directory, env, handles, request, plan, TypeOK,
    Files_In_Use
<1>4. CASE Set_Maximum_File_Size(p)
  BY <1>4
  DEF
    Set_Maximum_File_Size, directory, env, handles, request, plan, TypeOK,
    Sizes_In_Use
<1>5. CASE Set_Unlimited_File_Size(p)
  BY <1>5
  DEF
    Set_Unlimited_File_Size, directory, env, handles, request, plan, TypeOK,
    Labels, Critical, Writing, Rotating, Descriptor, Exceptions
<1>6. CASE Write(p)
  <2>1. data' \in [Proc -> Messages \union {No_Message}]
    BY <1>6 DEF Write, TypeOK
  <2>2. \A q \in Proc : Current_Offset'[q] <= data'[q].length
    BY <1>6, MessagesAssumption DEF Write, TypeOK, IsMessage
  <2> QED
    BY <1>6, <2>1, <2>2
    DEF
      Write, directory, env, config, handles, plan, TypeOK, Labels, Critical,
      Writing, Rotating, Descriptor, Exceptions
<1>7. CASE Write_Refused(p)
  BY <1>7
  DEF
    Write_Refused, Leave, directory, env, config, handles, request, plan,
    TypeOK, Labels, Critical, Writing, Rotating, Descriptor, Exceptions
<1>8. CASE Push_Fails(p)
  BY <1>8
  DEF
    Push_Fails, Raise, directory, env, config, handles, request, plan,
    TypeOK, Labels, Critical, Writing, Rotating, Descriptor, Exceptions
<1>9. CASE Lock_Directory(p)
  BY <1>9
  DEF
    Lock_Directory, Goto, directory, env, config, request, plan, TypeOK,
    Labels, Critical, Writing, Rotating, Descriptor, Exceptions
<1>10. CASE Create_Fails(p)
  BY <1>10, SMTT(20)
  DEF
    Create_Fails, Raise, directory, env, config, request, plan, TypeOK,
    Labels, Critical, Writing, Rotating, Descriptor, Exceptions
<1>11. CASE Set_Lock(p)
  BY <1>11
  DEF
    Set_Lock, Goto, directory, env, config, handles, request, plan, TypeOK,
    Labels, Critical, Writing, Rotating, Descriptor, Exceptions
<1>12. CASE Set_Lock_Fails(p)
  BY <1>12, SMTT(20)
  DEF
    Set_Lock_Fails, Abandon_Lock, Pop, Raise, directory, env, config,
    request, plan, TypeOK, Labels, Critical, Writing, Rotating, Descriptor,
    Exceptions, LockInv
<1>13. CASE Open_Current(p)
  <2>1. current' \in Current_File
    BY <1>13, NowIsInt, SMTT(20) DEF Open_Current, New_File, Current_File, TypeOK
  <2>2. current'.size \in Nat
    BY <2>1 DEF Current_File
  <2> QED
    BY <1>13, <2>1, <2>2
    DEF
      Open_Current, Goto, env, config, request, plan, TypeOK, Labels, Critical,
      Writing, Rotating, Descriptor, Exceptions
<1>14. CASE Open_Current_Fails(p)
  BY <1>14
  DEF
    Open_Current_Fails, Raise, directory, env, config, handles, request,
    plan, TypeOK, Labels, Critical, Writing, Rotating, Descriptor,
    Exceptions
<1>15. CASE Fit(p)
  BY <1>15
  DEF
    Fit, Goto, Raise, directory, env, config, request, plan, TypeOK, Labels,
    Critical, Writing, Rotating, Descriptor, Exceptions
<1>16. CASE Exit_Loop(p)
  BY <1>16
  DEF
    Exit_Loop, Goto, directory, env, config, handles, request, plan, TypeOK,
    Labels, Critical, Writing, Rotating, Descriptor, Exceptions
<1>17. CASE Write_Chunk(p)
  <2>1. PICK e \in 0..data[p].length :
          /\ Write_Message_Stops(p, Max_Length(p), e)
          /\ Append_Line(New_Line(p, e, TRUE), Line_Length(p, e))
          /\ Current_Offset' = [Current_Offset EXCEPT ![p] = e]
    BY <1>17 DEF Write_Chunk
  <2>2. e \in Current_Offset[p]..data[p].length
    BY <2>1 DEF Write_Message_Stops
  <2>3. e \in Nat /\ e <= data[p].length
    BY <2>2, Widths, MessageFacts DEF IsMessage
  <2>4. current' \in Current_File
    BY <2>1, <2>2, LineLength, AppendType
  <2> QED
    BY <1>17, <2>1, <2>3, <2>4
    DEF
      Write_Chunk, Goto, Raise, env, config, plan, TypeOK, Labels, Critical,
      Writing, Rotating, Exceptions
<1>18. CASE Write_Rest(p)
  <2>1. data[p].length \in Current_Offset[p]..data[p].length
    BY MessageFacts DEF TypeOK, IsMessage
  <2>2. current' \in Current_File
    <3>1. CASE Something_To_Write(p)
      BY <1>18, <2>1, <3>1, LineLength, AppendType DEF Write_Rest
    <3>2. CASE ~Something_To_Write(p)
      BY <1>18, <3>2 DEF Write_Rest, TypeOK
    <3> QED
      BY <3>1, <3>2
  <2> QED
    BY <1>18, <2>2
    DEF
      Write_Rest, Goto, Raise, env, config, request, plan, TypeOK, Labels,
      Critical, Writing, Rotating, Exceptions
<1>19. CASE Write_Fails(p)
  <2>1. current' \in Current_File
    BY <1>19, TearType DEF Write_Fails, TypeOK
  <2> QED
    BY <1>19, <2>1
    DEF
      Write_Fails, Raise, env, config, handles, request, plan, TypeOK, Labels,
      Exceptions
<1>20. CASE Rotate(p)
  BY <1>20, SMTT(20)
  DEF
    Rotate, Goto, directory, config, handles, request, TypeOK, Labels,
    Critical, Writing, Rotating, Descriptor, Exceptions
<1>21. CASE Remove_Log(p)
  BY <1>21
  DEF
    Remove_Log, env, config, handles, request, TypeOK, Labels, Critical,
    Writing, Rotating, Descriptor, Exceptions
<1>22. CASE Remove_Log_Fails(p)
  BY <1>22
  DEF
    Remove_Log_Fails, Raise, End_Rotate, directory, env, config, handles,
    request, TypeOK, Labels, Critical, Writing, Rotating, Descriptor,
    Exceptions
<1>23. CASE Rename_Current(p)
  <2>1. current' \in Current_File
    BY <1>23 DEF Rename_Current, No_File, Current_File
  <2>2. saved' \in SUBSET Saved_File
    BY <1>23 DEF Rename_Current, TypeOK, Saved_File, Current_File
  <2> QED
    BY <1>23, <2>1, <2>2
    DEF
      Rename_Current, Goto, End_Rotate, env, config, handles, request, TypeOK,
      Labels, Critical, Rotating
<1>24. CASE Rename_Current_Fails(p)
  BY <1>24
  DEF
    Rename_Current_Fails, Raise, End_Rotate, directory, env, config,
    handles, request, TypeOK, Labels, Critical, Writing, Rotating,
    Descriptor, Exceptions
<1>25. CASE Unlock(p)
  <2>1. ControlType'
    BY <1>25, ReturnType, RaiseType DEF Unlock, Exceptions
  <2>2. Dir_Stack' \in [Proc -> {0, 1}]
    BY <1>25
    DEF Unlock, Unlock_Directory, Pop, TypeOK, LockInv, Inside, Critical
  <2>3. Lock_FD' \in [Proc -> Descriptor] /\ lock_owner' \in Proc \union {NoProc}
    BY <1>25 DEF Unlock, Unlock_Directory, Released, TypeOK, Descriptor
  <2> QED
    BY <1>25, <2>1, <2>2, <2>3
    DEF Unlock, directory, env, config, plan, TypeOK, ControlType
<1>26. CASE Handler(p)
  <2>1. ControlType'
    <3>1. exc[p] \in Exceptions
      BY DEF TypeOK
    <3>2. PICK e \in Exceptions : Return(p, e)
      BY <1>26, <3>1 DEF Handler, Exceptions
    <3> QED
      BY <3>2, ReturnType
  <2>2. Dir_Stack' \in [Proc -> {0, 1}]
    BY <1>26 DEF Handler, Handler_Asserts, Unlock_Directory, Pop, TypeOK
  <2>3. Lock_FD' \in [Proc -> Descriptor] /\ lock_owner' \in Proc \union {NoProc}
    BY <1>26 DEF Handler, Unlock_Directory, Released, TypeOK, Descriptor
  <2> QED
    BY <1>26, <2>1, <2>2, <2>3
    DEF Handler, directory, env, config, plan, TypeOK, ControlType
<1>27. CASE Kill(p)
  <2>1. current' \in Current_File
    BY <1>27, TearType DEF Kill, TypeOK
  <2>2. \A q \in Proc : Current_Offset'[q] <= data'[q].length
    BY <1>27 DEF Kill, No_Message, TypeOK
  <2>3. Lock_FD' \in [Proc -> Descriptor] /\ lock_owner' \in Proc \union {NoProc}
        /\ Log_Dir_FD' \in [Proc -> Descriptor]
    BY <1>27 DEF Kill, Released, TypeOK, Descriptor
  <2>4. pc' \in [Proc -> Labels] /\ exc' \in [Proc -> Exceptions]
    BY <1>27 DEF Kill, TypeOK, Labels, Exceptions
  <2> QED
    BY <1>27, <2>1, <2>2, <2>3, <2>4 DEF Kill, End_Rotate, config, TypeOK
<1>28. CASE Restart(p)
  BY <1>28
  DEF
    Restart, Goto, directory, env, handles, request, plan, TypeOK, Labels,
    Sizes_In_Use, Files_In_Use
<1> QED
  BY <1>1, <1>2, <1>3, <1>4, <1>5, <1>6, <1>7, <1>8, <1>9, <1>10, <1>11, <1>12, <1>13, <1>14, <1>15, <1>16, <1>17, <1>18, <1>19, <1>20, <1>21, <1>22, <1>23, <1>24, <1>25, <1>26, <1>27, <1>28 DEF Call, Step

-----------------------------------------------------------------------------

\* No call leaves the program's types, and no helper is ever entered with its
\* assertion false.
LEMMA TypeAndLock == Spec => [](TypeOK /\ LockInv)
<1>1. Init => TypeOK /\ LockInv
  <2> SUFFICES ASSUME Init PROVE TypeOK /\ LockInv
    OBVIOUS
  <2>1. Sizes_In_Use \subseteq Nat /\ Files_In_Use \subseteq Nat
    BY SizesAssumption, FilesAssumption DEF Sizes_In_Use, Files_In_Use, File_Size_t
  <2>2. current \in Current_File
    BY DEF Init, No_File, Current_File
  <2>3. TypeOK
    BY <2>2
    DEF Init, TypeOK, Sizes_In_Use, Files_In_Use, Descriptor, Labels, Exceptions,
        No_Message
  <2>4. LockInv
    BY DEF Init, LockInv, Inside, Critical, Writing, Rotating
  <2> QED
    BY <2>3, <2>4
<1>2. TypeOK /\ LockInv /\ [Next]_vars => (TypeOK /\ LockInv)'
  <2> SUFFICES ASSUME TypeOK, LockInv, [Next]_vars PROVE (TypeOK /\ LockInv)'
    OBVIOUS
  <2>1. CASE Next
    <3>1. PICK p \in Proc : Call(p) \/ Step(p) \/ Kill(p) \/ Restart(p)
      BY <2>1 DEF Next
    <3> QED
      BY <3>1, TypeStep, LockStep
  <2>2. CASE UNCHANGED vars
    <3>1. TypeOK'
      BY <2>2
      DEF vars, directory, env, config, handles, request, plan, TypeOK
    <3>2. LockInv'
      BY <2>2
      DEF vars, directory, env, config, handles, request, plan, LockInv, Inside
    <3> QED
      BY <3>1, <3>2
  <2> QED
    BY <2>1, <2>2
<1> QED
  BY <1>1, <1>2, PTL DEF Spec

\* Type correctness.
THEOREM TypeCorrect == Spec => []TypeOK
BY TypeAndLock, PTL

\* Whoever works on the files holds the lock and is in the log directory, for
\* any number of processes and any failures and crashes.
THEOREM LockHeld == Spec => []LockHeldInside
<1>1. LockInv => LockHeldInside
  BY DEF LockInv, LockHeldInside
<1> QED
  BY <1>1, TypeAndLock, PTL

-----------------------------------------------------------------------------
(* Who may change what.                                                     *)

\* What belongs to process q alone.
Own(q) == <<pc[q], Size_Limited[q], Size_Max[q], Files_Max[q], Log_File[q],
            Log_Size[q], calls[q], data[q], Current_Offset[q], label[q], doomed[q]>>

\* A step of one process leaves the contexts and calls of the others alone.
LEMMA OthersUnchanged ==
  ASSUME TypeOK, NEW p \in Proc, NEW q \in Proc, q # p,
         Call(p) \/ Step(p) \/ Kill(p) \/ Restart(p)
  PROVE  UNCHANGED Own(q)
<1>1. CASE Open(p)
  BY <1>1
  DEF
    Open, Leave, Context_At_Rest, directory, env, config, request, plan,
    TypeOK, Own
<1>2. CASE Close(p)
  BY <1>2
  DEF
    Close, Leave, Released, directory, env, config, request, plan, TypeOK,
    Own
<1>3. CASE Set_Maximum_Saved_Files(p)
  BY <1>3
  DEF
    Set_Maximum_Saved_Files, directory, env, handles, request, plan, TypeOK,
    Own
<1>4. CASE Set_Maximum_File_Size(p)
  BY <1>4
  DEF
    Set_Maximum_File_Size, directory, env, handles, request, plan, TypeOK,
    Own
<1>5. CASE Set_Unlimited_File_Size(p)
  BY <1>5
  DEF
    Set_Unlimited_File_Size, directory, env, handles, request, plan, TypeOK,
    Own
<1>6. CASE Write(p)
  BY <1>6
  DEF
    Write, Context_At_Rest, Have_Directory_Lock, directory, env, config,
    handles, plan, TypeOK, Own
<1>7. CASE Write_Refused(p)
  BY <1>7
  DEF
    Write_Refused, Leave, directory, env, config, handles, request, plan,
    TypeOK, Own
<1>8. CASE Push_Fails(p)
  BY <1>8
  DEF
    Push_Fails, Raise, directory, env, config, handles, request, plan,
    TypeOK, Own
<1>9. CASE Lock_Directory(p)
  BY <1>9
  DEF
    Lock_Directory, Goto, directory, env, config, request, plan, TypeOK, Own
<1>10. CASE Create_Fails(p)
  BY <1>10
  DEF
    Create_Fails, Raise, directory, env, config, request, plan, TypeOK, Own
<1>11. CASE Set_Lock(p)
  BY <1>11
  DEF
    Set_Lock, Goto, directory, env, config, handles, request, plan, TypeOK,
    Own
<1>12. CASE Set_Lock_Fails(p)
  BY <1>12
  DEF
    Set_Lock_Fails, Abandon_Lock, Pop, Raise, directory, env, config,
    request, plan, TypeOK, Own
<1>13. CASE Open_Current(p)
  BY <1>13
  DEF
    Open_Current, Goto, env, config, request, plan, TypeOK, Own
<1>14. CASE Open_Current_Fails(p)
  BY <1>14
  DEF
    Open_Current_Fails, Raise, directory, env, config, handles, request,
    plan, TypeOK, Own
<1>15. CASE Fit(p)
  BY <1>15
  DEF
    Fit, Goto, Raise, directory, env, config, request, plan, TypeOK, Own
<1>16. CASE Exit_Loop(p)
  BY <1>16
  DEF
    Exit_Loop, Goto, directory, env, config, handles, request, plan, TypeOK,
    Own
<1>17. CASE Write_Chunk(p)
  BY <1>17
  DEF
    Write_Chunk, Goto, Raise, env, config, plan, TypeOK, Own
<1>18. CASE Write_Rest(p)
  BY <1>18
  DEF
    Write_Rest, Goto, Raise, env, config, request, plan, TypeOK, Own
<1>19. CASE Write_Fails(p)
  BY <1>19
  DEF
    Write_Fails, Raise, env, config, handles, request, plan, TypeOK, Own
<1>20. CASE Rotate(p)
  BY <1>20
  DEF
    Rotate, Goto, directory, config, handles, request, TypeOK, Own
<1>21. CASE Remove_Log(p)
  BY <1>21
  DEF
    Remove_Log, env, config, handles, request, TypeOK, Own
<1>22. CASE Remove_Log_Fails(p)
  BY <1>22
  DEF
    Remove_Log_Fails, Raise, End_Rotate, directory, env, config, handles,
    request, TypeOK, Own
<1>23. CASE Rename_Current(p)
  BY <1>23
  DEF
    Rename_Current, Goto, End_Rotate, env, config, handles, request, TypeOK,
    Own
<1>24. CASE Rename_Current_Fails(p)
  BY <1>24
  DEF
    Rename_Current_Fails, Raise, End_Rotate, directory, env, config,
    handles, request, TypeOK, Own
<1>25. CASE Unlock(p)
  BY <1>25
  DEF
    Unlock, Unlock_Directory, Pop, Raise, Return, Leave, Released,
    directory, env, config, plan, TypeOK, Own
<1>26. CASE Handler(p)
  BY <1>26
  DEF
    Handler, Handler_Asserts, Unlock_Directory, Pop, Return, Leave,
    Released, Have_Directory_Lock, directory, env, config, plan, TypeOK, Own
<1>27. CASE Kill(p)
  BY <1>27
  DEF
    Kill, End_Rotate, Released, config, TypeOK, Own
<1>28. CASE Restart(p)
  BY <1>28
  DEF
    Restart, Goto, directory, env, handles, request, plan, TypeOK, Own
<1> QED
  BY <1>1, <1>2, <1>3, <1>4, <1>5, <1>6, <1>7, <1>8, <1>9, <1>10, <1>11, <1>12,
    <1>13, <1>14, <1>15, <1>16, <1>17, <1>18, <1>19, <1>20, <1>21, <1>22,
    <1>23, <1>24, <1>25, <1>26, <1>27, <1>28 DEF Call, Step

\* A step that changes the files is made by the holder of the lock.
LEMMA OnlyOwnerWrites ==
  ASSUME TypeOK, LockInv, NEW p \in Proc, lock_owner # p,
         Call(p) \/ Step(p) \/ Kill(p) \/ Restart(p)
  PROVE  UNCHANGED directory
<1>1. CASE Open(p)
  BY <1>1
  DEF
    Open, Leave, Context_At_Rest, directory, env, config, request, plan,
    LockInv, Inside, Critical, Writing, Rotating, directory
<1>2. CASE Close(p)
  BY <1>2
  DEF
    Close, Leave, Released, directory, env, config, request, plan, LockInv,
    Inside, Critical, Writing, Rotating, directory
<1>3. CASE Set_Maximum_Saved_Files(p)
  BY <1>3
  DEF
    Set_Maximum_Saved_Files, directory, env, handles, request, plan,
    LockInv, Inside, Critical, Writing, Rotating, directory
<1>4. CASE Set_Maximum_File_Size(p)
  BY <1>4
  DEF
    Set_Maximum_File_Size, directory, env, handles, request, plan, LockInv,
    Inside, Critical, Writing, Rotating, directory
<1>5. CASE Set_Unlimited_File_Size(p)
  BY <1>5
  DEF
    Set_Unlimited_File_Size, directory, env, handles, request, plan,
    LockInv, Inside, Critical, Writing, Rotating, directory
<1>6. CASE Write(p)
  BY <1>6
  DEF
    Write, Context_At_Rest, Have_Directory_Lock, directory, env, config,
    handles, plan, LockInv, Inside, Critical, Writing, Rotating, directory
<1>7. CASE Write_Refused(p)
  BY <1>7
  DEF
    Write_Refused, Leave, directory, env, config, handles, request, plan,
    LockInv, Inside, Critical, Writing, Rotating, directory
<1>8. CASE Push_Fails(p)
  BY <1>8
  DEF
    Push_Fails, Raise, directory, env, config, handles, request, plan,
    LockInv, Inside, Critical, Writing, Rotating, directory
<1>9. CASE Lock_Directory(p)
  BY <1>9
  DEF
    Lock_Directory, Goto, directory, env, config, request, plan, LockInv,
    Inside, Critical, Writing, Rotating, directory
<1>10. CASE Create_Fails(p)
  BY <1>10
  DEF
    Create_Fails, Raise, directory, env, config, request, plan, LockInv,
    Inside, Critical, Writing, Rotating, directory
<1>11. CASE Set_Lock(p)
  BY <1>11
  DEF
    Set_Lock, Goto, directory, env, config, handles, request, plan, LockInv,
    Inside, Critical, Writing, Rotating, directory
<1>12. CASE Set_Lock_Fails(p)
  BY <1>12
  DEF
    Set_Lock_Fails, Abandon_Lock, Pop, Raise, directory, env, config,
    request, plan, LockInv, Inside, Critical, Writing, Rotating, directory
<1>13. CASE Open_Current(p)
  BY <1>13
  DEF
    Open_Current, Goto, env, config, request, plan, LockInv, Inside,
    Critical, Writing, Rotating, directory
<1>14. CASE Open_Current_Fails(p)
  BY <1>14
  DEF
    Open_Current_Fails, Raise, directory, env, config, handles, request,
    plan, LockInv, Inside, Critical, Writing, Rotating, directory
<1>15. CASE Fit(p)
  BY <1>15
  DEF
    Fit, Goto, Raise, directory, env, config, request, plan, LockInv,
    Inside, Critical, Writing, Rotating, directory
<1>16. CASE Exit_Loop(p)
  BY <1>16
  DEF
    Exit_Loop, Goto, directory, env, config, handles, request, plan,
    LockInv, Inside, Critical, Writing, Rotating, directory
<1>17. CASE Write_Chunk(p)
  BY <1>17
  DEF
    Write_Chunk, Goto, Raise, env, config, plan, Must_Split, LockInv,
    Inside, Critical, Writing, Rotating, directory
<1>18. CASE Write_Rest(p)
  BY <1>18
  DEF
    Write_Rest, Goto, Raise, env, config, request, plan, LockInv, Inside,
    Critical, Writing, Rotating, directory
<1>19. CASE Write_Fails(p)
  BY <1>19
  DEF
    Write_Fails, Raise, env, config, handles, request, plan, Must_Split,
    Tear_Line, LockInv, Inside, Critical, Writing, Rotating, directory
<1>20. CASE Rotate(p)
  BY <1>20
  DEF
    Rotate, Goto, directory, config, handles, request, LockInv, Inside,
    Critical, Writing, Rotating, directory
<1>21. CASE Remove_Log(p)
  BY <1>21
  DEF
    Remove_Log, env, config, handles, request, LockInv, Inside, Critical,
    Writing, Rotating, directory
<1>22. CASE Remove_Log_Fails(p)
  BY <1>22
  DEF
    Remove_Log_Fails, Raise, End_Rotate, directory, env, config, handles,
    request, LockInv, Inside, Critical, Writing, Rotating, directory
<1>23. CASE Rename_Current(p)
  BY <1>23
  DEF
    Rename_Current, Goto, End_Rotate, env, config, handles, request,
    LockInv, Inside, Critical, Writing, Rotating, directory
<1>24. CASE Rename_Current_Fails(p)
  BY <1>24
  DEF
    Rename_Current_Fails, Raise, End_Rotate, directory, env, config,
    handles, request, LockInv, Inside, Critical, Writing, Rotating,
    directory
<1>25. CASE Unlock(p)
  BY <1>25
  DEF
    Unlock, Unlock_Directory, Pop, Raise, Return, Leave, Released,
    directory, env, config, plan, LockInv, Inside, Critical, Writing,
    Rotating, directory
<1>26. CASE Handler(p)
  BY <1>26
  DEF
    Handler, Handler_Asserts, Unlock_Directory, Pop, Return, Leave,
    Released, Have_Directory_Lock, directory, env, config, plan, LockInv,
    Inside, Critical, Writing, Rotating, directory
<1>27. CASE Kill(p)
  BY <1>27
  DEF
    Kill, End_Rotate, Released, config, Tear_Line, Must_Split, LockInv,
    Inside, Critical, Writing, Rotating, directory
<1>28. CASE Restart(p)
  BY <1>28
  DEF
    Restart, Goto, directory, env, handles, request, plan, LockInv, Inside,
    Critical, Writing, Rotating, directory
<1> QED
  BY <1>1, <1>2, <1>3, <1>4, <1>5, <1>6, <1>7, <1>8, <1>9, <1>10, <1>11, <1>12,
    <1>13, <1>14, <1>15, <1>16, <1>17, <1>18, <1>19, <1>20, <1>21, <1>22,
    <1>23, <1>24, <1>25, <1>26, <1>27, <1>28 DEF Call, Step

-----------------------------------------------------------------------------
(* The size of "current".                                                   *)

\* While a process writes, the Log_Size it took when it opened "current" is
\* the size of the file; it enters the loop only with an empty file, and
\* leaves it only with room for the rest.
Size_OK(p) ==
  /\ pc[p] = "reopen" => ~current.exists
  /\ pc[p] \in Writing => Log_Size[p] = current.size
  /\ pc[p] = "loop" => Log_Size[p] = 0
  /\ pc[p] = "rest" /\ Size_Limited[p] =>
       Log_Has_Space_For(p, Filtered_Length(p))

SizeInv == \A p \in Proc : Size_OK(p)

\* A process keeps what it knows of "current" (Log_Size is its size, and the
\* rest of its message fits) by its own steps.
LEMMA SizeOwnStep ==
  ASSUME TypeOK, NEW p \in Proc, Size_OK(p),
         Call(p) \/ Step(p) \/ Kill(p) \/ Restart(p)
  PROVE  Size_OK(p)'
<1>1. CASE Open(p)
  BY <1>1
  DEF
    Open, Leave, Context_At_Rest, directory, env, config, request, plan,
    Size_OK, Writing, TypeOK
<1>2. CASE Close(p)
  BY <1>2
  DEF
    Close, Leave, Released, directory, env, config, request, plan, Size_OK,
    Writing, TypeOK
<1>3. CASE Set_Maximum_Saved_Files(p)
  BY <1>3
  DEF
    Set_Maximum_Saved_Files, directory, env, handles, request, plan,
    Size_OK, Writing, TypeOK
<1>4. CASE Set_Maximum_File_Size(p)
  BY <1>4
  DEF
    Set_Maximum_File_Size, directory, env, handles, request, plan, Size_OK,
    Writing, TypeOK
<1>5. CASE Set_Unlimited_File_Size(p)
  BY <1>5
  DEF
    Set_Unlimited_File_Size, directory, env, handles, request, plan,
    Size_OK, Writing, TypeOK
<1>6. CASE Write(p)
  BY <1>6
  DEF
    Write, Context_At_Rest, Have_Directory_Lock, directory, env, config,
    handles, plan, Size_OK, Writing, TypeOK
<1>7. CASE Write_Refused(p)
  BY <1>7
  DEF
    Write_Refused, Leave, directory, env, config, handles, request, plan,
    Size_OK, Writing, TypeOK
<1>8. CASE Push_Fails(p)
  BY <1>8
  DEF
    Push_Fails, Raise, directory, env, config, handles, request, plan,
    Size_OK, Writing, TypeOK
<1>9. CASE Lock_Directory(p)
  BY <1>9
  DEF
    Lock_Directory, Goto, directory, env, config, request, plan, Size_OK,
    Writing, TypeOK
<1>10. CASE Create_Fails(p)
  BY <1>10
  DEF
    Create_Fails, Raise, directory, env, config, request, plan, Size_OK,
    Writing, TypeOK
<1>11. CASE Set_Lock(p)
  BY <1>11
  DEF
    Set_Lock, Goto, directory, env, config, handles, request, plan, Size_OK,
    Writing, TypeOK
<1>12. CASE Set_Lock_Fails(p)
  BY <1>12
  DEF
    Set_Lock_Fails, Abandon_Lock, Pop, Raise, directory, env, config,
    request, plan, Size_OK, Writing, TypeOK
<1>13. CASE Open_Current(p)
  BY <1>13
  DEF
    Open_Current, Goto, env, config, request, plan, Size_OK, Writing,
    New_File, TypeOK
<1>14. CASE Open_Current_Fails(p)
  BY <1>14
  DEF
    Open_Current_Fails, Raise, directory, env, config, handles, request,
    plan, Size_OK, Writing, TypeOK
<1>15. CASE Fit(p)
  BY <1>15
  DEF
    Fit, Goto, Raise, directory, env, config, request, plan, Size_OK,
    Writing, Filtered_Length, Log_Has_Space_For, TypeOK
<1>16. CASE Exit_Loop(p)
  BY <1>16
  DEF
    Exit_Loop, Goto, directory, env, config, handles, request, plan,
    Size_OK, Writing, Filtered_Length, Log_Has_Space_For, TypeOK
<1>17. CASE Write_Chunk(p)
  BY <1>17
  DEF
    Write_Chunk, Goto, Raise, env, config, plan, Size_OK, Writing, TypeOK
<1>18. CASE Write_Rest(p)
  BY <1>18
  DEF
    Write_Rest, Goto, Raise, env, config, request, plan, Size_OK, Writing,
    TypeOK
<1>19. CASE Write_Fails(p)
  BY <1>19
  DEF
    Write_Fails, Raise, env, config, handles, request, plan, Size_OK,
    Writing, TypeOK
<1>20. CASE Rotate(p)
  BY <1>20
  DEF
    Rotate, Goto, directory, config, handles, request, Size_OK, Writing,
    TypeOK
<1>21. CASE Remove_Log(p)
  BY <1>21
  DEF
    Remove_Log, env, config, handles, request, Size_OK, Writing, TypeOK
<1>22. CASE Remove_Log_Fails(p)
  BY <1>22
  DEF
    Remove_Log_Fails, Raise, End_Rotate, directory, env, config, handles,
    request, Size_OK, Writing, TypeOK
<1>23. CASE Rename_Current(p)
  BY <1>23
  DEF
    Rename_Current, No_File, Goto, End_Rotate, env, config, handles, request,
    Size_OK, Writing, TypeOK
<1>24. CASE Rename_Current_Fails(p)
  BY <1>24
  DEF
    Rename_Current_Fails, Raise, End_Rotate, directory, env, config,
    handles, request, Size_OK, Writing, TypeOK
<1>25. CASE Unlock(p)
  BY <1>25
  DEF
    Unlock, Unlock_Directory, Pop, Raise, Return, Leave, Released,
    directory, env, config, plan, Size_OK, Writing, TypeOK
<1>26. CASE Handler(p)
  BY <1>26
  DEF
    Handler, Handler_Asserts, Unlock_Directory, Pop, Return, Leave,
    Released, Have_Directory_Lock, directory, env, config, plan, Size_OK,
    Writing, TypeOK
<1>27. CASE Kill(p)
  BY <1>27
  DEF
    Kill, End_Rotate, Released, config, Size_OK, Writing, TypeOK
<1>28. CASE Restart(p)
  BY <1>28
  DEF
    Restart, Goto, directory, env, handles, request, plan, Size_OK, Writing,
    TypeOK
<1> QED
  BY <1>1, <1>2, <1>3, <1>4, <1>5, <1>6, <1>7, <1>8, <1>9, <1>10, <1>11, <1>12,
    <1>13, <1>14, <1>15, <1>16, <1>17, <1>18, <1>19, <1>20, <1>21, <1>22,
    <1>23, <1>24, <1>25, <1>26, <1>27, <1>28 DEF Call, Step

\* It keeps it under the steps of the others too, which cannot write.
LEMMA SizeStep ==
  ASSUME TypeOK, LockInv, SizeInv, NEW p \in Proc,
         Call(p) \/ Step(p) \/ Kill(p) \/ Restart(p)
  PROVE  SizeInv'
<1> SUFFICES ASSUME NEW q \in Proc PROVE Size_OK(q)'
  BY DEF SizeInv
<1>1. CASE q = p
  BY <1>1, SizeOwnStep DEF SizeInv
<1>2. CASE q # p
  <2>1. UNCHANGED Own(q)
    BY <1>2, OthersUnchanged
  <2>2. pc[q] \in Critical => UNCHANGED current
    BY <1>2, OnlyOwnerWrites DEF LockInv, Inside, directory
  <2> QED
    BY <2>1, <2>2
    DEF SizeInv, Size_OK, Own, Critical, Writing, Rotating, Log_Has_Space_For,
        Filtered_Length
<1> QED
  BY <1>1, <1>2

\* A line that a process with a size limit is about to write fits.
LEMMA LineFits ==
  ASSUME TypeOK, NEW p \in Proc, Size_OK(p), Size_Limited[p],
         NEW e \in Current_Offset[p]..data[p].length,
         \/ Must_Split(p) /\ Write_Message_Stops(p, Max_Length(p), e)
         \/ pc[p] = "rest" /\ e = data[p].length
  PROVE  current.size + Line_Length(p, e) <= Size_Max[p]
<1>1. Size_Max[p] \in Nat /\ current.size \in Nat /\ Log_Size[p] \in Nat
  BY SizesAssumption DEF TypeOK, Sizes_In_Use, File_Size_t, Current_File
<1>2. Message_Minimum_Length = 45
  BY DEF Message_Minimum_Length, Label_Size
<1>3. CASE Must_Split(p) /\ Write_Message_Stops(p, Max_Length(p), e)
  <2>1. current.size = 0
    BY <1>3 DEF Must_Split, Size_OK, Writing
  <2>2. data[p].upto[e] - data[p].upto[Current_Offset[p]] < Size_Max[p] - 45
    BY <1>2, <1>3 DEF Write_Message_Stops, Max_Length
  <2> QED
    BY <1>1, <1>2, <2>1, <2>2, Widths, LineLength DEF Line_Length
<1>4. CASE pc[p] = "rest" /\ e = data[p].length
  <2>1. Log_Size[p] + Filtered_Length(p) + 45 < Size_Max[p]
    BY <1>2, <1>4 DEF Size_OK, Log_Has_Space_For
  <2>2. Log_Size[p] = current.size
    BY <1>4 DEF Size_OK, Writing
  <2>3. Filtered_Length(p) = data[p].upto[e] - data[p].upto[Current_Offset[p]]
    BY <1>4 DEF Filtered_Length
  <2> QED
    BY <1>1, <1>2, <2>1, <2>2, <2>3, Widths, LineLength DEF Line_Length
<1> QED
  BY <1>3, <1>4

\* "current" grows only by a line, or a part of one.
LEMMA CurrentGrows ==
  ASSUME TypeOK, NEW p \in Proc, current'.size > current.size,
         Call(p) \/ Step(p) \/ Kill(p) \/ Restart(p)
  PROVE  Write_Chunk(p) \/ Write_Rest(p) \/ Tear_Line(p)
<1>0. current.size \in Nat
  BY DEF TypeOK, Current_File
<1> USE <1>0
<1>1. CASE Open(p)
  BY <1>1 DEF Open, directory
<1>2. CASE Close(p)
  BY <1>2 DEF Close, directory
<1>3. CASE Set_Maximum_Saved_Files(p)
  BY <1>3 DEF Set_Maximum_Saved_Files, directory
<1>4. CASE Set_Maximum_File_Size(p)
  BY <1>4 DEF Set_Maximum_File_Size, directory
<1>5. CASE Set_Unlimited_File_Size(p)
  BY <1>5 DEF Set_Unlimited_File_Size, directory
<1>6. CASE Write(p)
  BY <1>6 DEF Write, directory
<1>7. CASE Write_Refused(p)
  BY <1>7 DEF Write_Refused, directory
<1>8. CASE Push_Fails(p)
  BY <1>8 DEF Push_Fails, directory
<1>9. CASE Lock_Directory(p)
  BY <1>9 DEF Lock_Directory, directory
<1>10. CASE Create_Fails(p)
  BY <1>10 DEF Create_Fails, directory
<1>11. CASE Set_Lock(p)
  BY <1>11 DEF Set_Lock, directory
<1>12. CASE Set_Lock_Fails(p)
  BY <1>12 DEF Set_Lock_Fails, directory
<1>13. CASE Open_Current(p)
  BY <1>13 DEF Open_Current, New_File, No_File, TypeOK, Current_File
<1>14. CASE Open_Current_Fails(p)
  BY <1>14 DEF Open_Current_Fails, directory
<1>15. CASE Fit(p)
  BY <1>15 DEF Fit, directory
<1>16. CASE Exit_Loop(p)
  BY <1>16 DEF Exit_Loop, directory
<1>17. CASE Write_Chunk(p)
  BY <1>17
<1>18. CASE Write_Rest(p)
  BY <1>18 DEF Write_Rest
<1>19. CASE Write_Fails(p)
  BY <1>19 DEF Write_Fails
<1>20. CASE Rotate(p)
  BY <1>20 DEF Rotate, directory
<1>21. CASE Remove_Log(p)
  BY <1>21 DEF Remove_Log
<1>22. CASE Remove_Log_Fails(p)
  BY <1>22 DEF Remove_Log_Fails, directory
<1>23. CASE Rename_Current(p)
  BY <1>23 DEF Rename_Current, New_File, No_File, TypeOK, Current_File
<1>24. CASE Rename_Current_Fails(p)
  BY <1>24 DEF Rename_Current_Fails, directory
<1>25. CASE Unlock(p)
  BY <1>25 DEF Unlock, directory
<1>26. CASE Handler(p)
  BY <1>26 DEF Handler, directory
<1>27. CASE Kill(p)
  BY <1>27 DEF Kill
<1>28. CASE Restart(p)
  BY <1>28 DEF Restart, directory
<1> QED
  BY <1>1, <1>2, <1>3, <1>4, <1>5, <1>6, <1>7, <1>8, <1>9, <1>10, <1>11, <1>12,
    <1>13, <1>14, <1>15, <1>16, <1>17, <1>18, <1>19, <1>20, <1>21, <1>22,
    <1>23, <1>24, <1>25, <1>26, <1>27, <1>28 DEF Call, Step

\* A step that makes "current" grow while p holds the lock is p's own, and
\* leaves it within p's limit.
LEMMA LimitStep ==
  ASSUME TypeOK, LockInv, SizeInv, NEW p \in Proc, NEW q \in Proc,
         lock_owner = p, Size_Limited[p], current'.size > current.size,
         Call(q) \/ Step(q) \/ Kill(q) \/ Restart(q)
  PROVE  current'.size <= Size_Max[p]
<1>1. q = p
  <2>1. current.size \in Nat
    BY DEF TypeOK, Current_File
  <2> QED
    BY <2>1, OnlyOwnerWrites DEF directory
<1>2. Size_OK(p)
  BY DEF SizeInv
<1>3. data[p].length \in Current_Offset[p]..data[p].length
  BY MessageFacts, SMTT(20) DEF TypeOK, IsMessage
<1>4. Size_Max[p] \in Nat /\ current.size \in Nat
  BY SizesAssumption DEF TypeOK, Sizes_In_Use, File_Size_t, Current_File
<1>5. CASE Write_Chunk(p)
  <2>1. PICK e \in 0..data[p].length :
          /\ Write_Message_Stops(p, Max_Length(p), e)
          /\ Append_Line(New_Line(p, e, TRUE), Line_Length(p, e))
    BY <1>5 DEF Write_Chunk
  <2>2. e \in Current_Offset[p]..data[p].length
    BY <2>1 DEF Write_Message_Stops
  <2>3. Must_Split(p)
    BY <1>5 DEF Write_Chunk
  <2> QED
    BY <1>2, <2>1, <2>2, <2>3, LineFits, LineLength, AppendType
<1>6. CASE Write_Rest(p)
  <2>1. /\ pc[p] = "rest"
        /\ Append_Line(New_Line(p, data[p].length, TRUE),
                       Line_Length(p, data[p].length))
    <3>1. ASSUME ~Something_To_Write(p) PROVE FALSE
      <4>1. UNCHANGED current
        BY <1>6, <3>1 DEF Write_Rest
      <4> QED
        BY <1>4, <4>1
    <3> QED
      BY <1>6, <3>1 DEF Write_Rest
  <2>2. current.size + Line_Length(p, data[p].length) <= Size_Max[p]
    BY <1>2, <1>3, <2>1, LineFits
  <2>3. current'.size = current.size + Line_Length(p, data[p].length)
    BY <1>3, <2>1, LineLength, AppendType
  <2> QED
    BY <2>2, <2>3
<1>7. CASE Tear_Line(p)
  <2>1. PICK e \in 0..data[p].length, k \in Torn :
          /\ \/ Must_Split(p) /\ Write_Message_Stops(p, Max_Length(p), e)
             \/ pc[p] = "rest" /\ e = data[p].length
          /\ k < Line_Length(p, e)
          /\ Append_Line(New_Line(p, e, FALSE), k)
    BY <1>7 DEF Tear_Line
  <2>2. e \in Current_Offset[p]..data[p].length
    BY <1>3, <2>1 DEF Write_Message_Stops
  <2>3. k \in Nat
    BY EnvironmentAssumption
  <2>4. current.size + Line_Length(p, e) <= Size_Max[p]
    BY <1>2, <2>1, <2>2, LineFits
  <2>5. Line_Length(p, e) \in Nat
    BY <2>2, LineLength
  <2>6. current'.size = current.size + k
    BY <2>1, <2>2, <2>3, AppendType
  <2> QED
    BY <1>4, <2>1, <2>3, <2>4, <2>5, <2>6
<1> QED
  BY <1>1, <1>5, <1>6, <1>7, CurrentGrows

\* A character takes at most four bytes, and a full line of a file of Size_Min
\* bytes has room for them.
LEMMA ChunkStep ==
  ASSUME TypeOK, NEW p \in Proc, Size_OK(p), Write_Chunk(p)
  PROVE  /\ Current_Offset'[p] > Current_Offset[p]
         /\ current'.lines # << >>
         /\ LET line == current'.lines[Len(current'.lines)]
            IN  line.from = Current_Offset[p] /\ line.to = Current_Offset'[p]
<1>1. PICK e \in 0..data[p].length :
        /\ Write_Message_Stops(p, Max_Length(p), e)
        /\ Append_Line(New_Line(p, e, TRUE), Line_Length(p, e))
        /\ Current_Offset' = [Current_Offset EXCEPT ![p] = e]
  BY DEF Write_Chunk
<1>2. e \in Current_Offset[p]..data[p].length
  BY <1>1 DEF Write_Message_Stops
<1>3. Current_Offset'[p] = e
  BY <1>1 DEF TypeOK
<1>4. e > Current_Offset[p]
  <2> DEFINE n == data[p].length
             o == Current_Offset[p]
             w(i) == data[p].upto[i] - data[p].upto[o]
  <2>1. /\ n \in Nat /\ o \in Nat /\ o <= n
        /\ data[p].upto \in [0..n -> Nat]
        /\ \A i \in 1..n : data[p].upto[i] - data[p].upto[i - 1] \in {1, 2, 4}
    BY MessageFacts DEF TypeOK, IsMessage
  <2>2. Size_Max[p] \in Nat /\ Size_Max[p] >= 50 /\ Message_Minimum_Length = 45
    <3>1. Size_Max[p] \in File_Size_t
      BY SizesAssumption DEF TypeOK, Sizes_In_Use
    <3> QED
      BY <3>1 DEF File_Size_t, Size_Min, Message_Minimum_Length, Label_Size
  <2>3. w(n) >= 5
    <3>1. Log_Size[p] = 0 /\ ~Log_Has_Space_For(p, Filtered_Length(p))
      BY DEF Write_Chunk, Must_Split, Size_OK
    <3>2. w(n) \in Int
      BY <2>1, Widths, SMTT(20)
    <3> QED
      BY <2>2, <3>1, <3>2 DEF Log_Has_Space_For, Filtered_Length
  <2>4. o # n
    BY <2>1, <2>3
  <2>5. w(o + 1) \in {1, 2, 4}
    <3>1. o + 1 \in 1..n /\ (o + 1) - 1 = o
      BY <2>1, <2>4
    <3>2. data[p].upto[o + 1] - data[p].upto[o] \in {1, 2, 4}
      BY <2>1, <3>1
    <3> QED
      BY <3>2
  <2>6. ASSUME e = o PROVE FALSE
    <3>1. w(o + 1) >= Size_Max[p] - 45
      BY <1>1, <2>1, <2>2, <2>4, <2>6 DEF Write_Message_Stops, Max_Length
    <3> QED
      BY <2>2, <2>5, <3>1
  <2> QED
    BY <1>2, <2>1, <2>6
<1>5. current'.lines = Append(current.lines, New_Line(p, e, TRUE))
  BY <1>1, <1>2, LineLength, AppendType
<1>6. current.lines \in Seq(Line) /\ New_Line(p, e, TRUE) \in Line
  BY <1>2, Widths DEF TypeOK, Current_File, New_Line, Line
<1> QED
  BY <1>3, <1>4, <1>5, <1>6 DEF New_Line

\* Log_Size is the size of "current" wherever Write_With_Rotate relies on it.
LEMMA SizeInvariant == Spec => [](TypeOK /\ LockInv /\ SizeInv)
<1>1. Init => SizeInv
  BY DEF Init, SizeInv, Size_OK, Writing
<1>2. TypeOK /\ LockInv /\ SizeInv /\ [Next]_vars => SizeInv'
  <2> SUFFICES ASSUME TypeOK, LockInv, SizeInv, [Next]_vars PROVE SizeInv'
    OBVIOUS
  <2>1. CASE Next
    <3>1. PICK p \in Proc : Call(p) \/ Step(p) \/ Kill(p) \/ Restart(p)
      BY <2>1 DEF Next
    <3> QED
      BY <3>1, SizeStep
  <2>2. CASE UNCHANGED vars
    BY <2>2
    DEF vars, directory, config, handles, request, SizeInv, Size_OK, Writing,
        Log_Has_Space_For, Filtered_Length
  <2> QED
    BY <2>1, <2>2
<1> QED
  BY <1>1, <1>2, TypeAndLock, PTL DEF Spec

\* No process with a size limit makes "current" longer than its limit: the
\* constant 45 and the strict comparison are exact for a ten-digit process
\* number and the level "notice".
THEOREM SizeLimit == Spec => SizeLimitKept
<1>1. TypeOK /\ LockInv /\ SizeInv /\ [Next]_vars =>
        [\A p \in Proc :
           lock_owner = p /\ Size_Limited[p] /\ current'.size > current.size
             => current'.size <= Size_Max[p]]_vars
  <2> SUFFICES ASSUME TypeOK, LockInv, SizeInv, Next, NEW p \in Proc,
                      lock_owner = p, Size_Limited[p], current'.size > current.size
               PROVE  current'.size <= Size_Max[p]
    OBVIOUS
  <2>1. PICK q \in Proc : Call(q) \/ Step(q) \/ Kill(q) \/ Restart(q)
    BY DEF Next
  <2> QED
    BY <2>1, LimitStep
<1> QED
  BY <1>1, SizeInvariant, PTL DEF Spec, SizeLimitKept

\* Only a turn of the loop leads from the loop to a rotation.
LEMMA LoopTurn ==
  ASSUME TypeOK, NEW p \in Proc, pc[p] = "loop", pc'[p] = "rotate",
         Call(p) \/ Step(p) \/ Kill(p) \/ Restart(p)
  PROVE  Write_Chunk(p)
<1>1. ~Call(p)
  BY DEF Call, Open, Close, Set_Maximum_Saved_Files, Set_Maximum_File_Size,
         Set_Unlimited_File_Size, Write, Write_Refused
<1>2. ~Kill(p) /\ ~Restart(p)
  BY DEF Kill, Restart, TypeOK
<1>3. ~(Push_Fails(p) \/ Lock_Directory(p) \/ Create_Fails(p) \/ Set_Lock(p)
          \/ Set_Lock_Fails(p) \/ Open_Current(p) \/ Open_Current_Fails(p)
          \/ Fit(p) \/ Write_Rest(p))
  BY DEF Push_Fails, Lock_Directory, Create_Fails, Set_Lock, Set_Lock_Fails,
         Open_Current, Open_Current_Fails, Fit, Write_Rest
<1>4. ~(Exit_Loop(p) \/ Write_Fails(p))
  BY DEF Exit_Loop, Write_Fails, Goto, Raise, TypeOK
<1>5. ~(Rotate(p) \/ Remove_Log(p) \/ Remove_Log_Fails(p) \/ Rename_Current(p)
          \/ Rename_Current_Fails(p) \/ Unlock(p) \/ Handler(p))
  BY DEF Rotate, Remove_Log, Remove_Log_Fails, Rename_Current,
         Rename_Current_Fails, Unlock, Handler
<1> QED
  BY <1>1, <1>2, <1>3, <1>4, <1>5 DEF Step

\* Every turn of Write_Loop takes at least one character and leaves none out,
\* for every message and every size of type File_Size_t: Size_Min is enough.
THEOREM LoopProgress == Spec => ChunkProgress
<1>1. TypeOK /\ LockInv /\ SizeInv /\ [Next]_vars =>
        [\A p \in Proc : pc[p] = "loop" /\ Log_File[p] /\ pc'[p] = "rotate"
           => /\ Current_Offset'[p] > Current_Offset[p]
              /\ current'.lines # << >>
              /\ LET line == current'.lines[Len(current'.lines)]
                 IN  line.from = Current_Offset[p]
                       /\ line.to = Current_Offset'[p]]_vars
  <2> SUFFICES ASSUME TypeOK, LockInv, SizeInv, Next, NEW p \in Proc,
                      pc[p] = "loop", pc'[p] = "rotate"
               PROVE  /\ Current_Offset'[p] > Current_Offset[p]
                      /\ current'.lines # << >>
                      /\ LET line == current'.lines[Len(current'.lines)]
                         IN  line.from = Current_Offset[p]
                               /\ line.to = Current_Offset'[p]
    OBVIOUS
  <2>1. PICK q \in Proc : Call(q) \/ Step(q) \/ Kill(q) \/ Restart(q)
    BY DEF Next
  <2>2. q = p
    BY <2>1, OthersUnchanged DEF Own
  <2> QED
    BY <2>1, <2>2, LoopTurn, ChunkStep DEF SizeInv
<1> QED
  BY <1>1, SizeInvariant, PTL DEF Spec, ChunkProgress

-----------------------------------------------------------------------------
(* What a call of Write gives back, if the failures are those it can        *)
(* recover from.                                                            *)

\* The system calls whose failure Write does not survive succeed, and every
\* file size is a Natural.
Recoverable ==
  /\ Faults \intersect {"setlk", "write", "fchdir", "closedir", "unlk", "closelk"} = {}
  /\ \A n \in Sizes_In_Use : n <= Natural_Last

\* The resources of p go together: it has all of them or none.
At_Rest(p) ==
  lock_owner # p /\ Lock_FD[p] = "invalid" /\ ~Log_File[p] /\ Dir_Stack[p] = 0

Holds_Directory(p) ==
  lock_owner = p /\ Lock_FD[p] = "open" /\ ~Log_File[p] /\ Dir_Stack[p] = 1

Rest_OK(p) ==
  /\ pc[p] \in {"idle", "dead", "push"} => At_Rest(p)
  /\ pc[p] = "lock" => lock_owner # p
  /\ pc[p] = "handler" => At_Rest(p) \/ Holds_Directory(p)

RestInv == \A p \in Proc : Rest_OK(p)

\* A step of one process gives or takes nothing of another's.
LEMMA OthersKeepResources ==
  ASSUME TypeOK, NEW p \in Proc, NEW q \in Proc, q # p,
         Call(p) \/ Step(p) \/ Kill(p) \/ Restart(p)
  PROVE  UNCHANGED <<Lock_FD[q], Dir_Stack[q], lock_owner = q>>
<1>1. CASE Open(p)
  BY <1>1
  DEF
    Open, Leave, Context_At_Rest, directory, env, config, request, plan,
    Have_Directory_Lock, TypeOK
<1>2. CASE Close(p)
  BY <1>2, ProcAssumption
  DEF
    Close, Leave, Released, directory, env, config, request, plan, TypeOK
<1>3. CASE Set_Maximum_Saved_Files(p)
  BY <1>3
  DEF
    Set_Maximum_Saved_Files, directory, env, handles, request, plan, TypeOK
<1>4. CASE Set_Maximum_File_Size(p)
  BY <1>4
  DEF
    Set_Maximum_File_Size, directory, env, handles, request, plan, TypeOK
<1>5. CASE Set_Unlimited_File_Size(p)
  BY <1>5
  DEF
    Set_Unlimited_File_Size, directory, env, handles, request, plan, TypeOK
<1>6. CASE Write(p)
  BY <1>6
  DEF
    Write, Context_At_Rest, Have_Directory_Lock, directory, env, config,
    handles, plan, TypeOK
<1>7. CASE Write_Refused(p)
  BY <1>7
  DEF
    Write_Refused, Leave, directory, env, config, handles, request, plan,
    TypeOK
<1>8. CASE Push_Fails(p)
  BY <1>8
  DEF
    Push_Fails, Raise, directory, env, config, handles, request, plan,
    TypeOK, Fails
<1>9. CASE Lock_Directory(p)
  BY <1>9
  DEF
    Lock_Directory, Goto, directory, env, config, request, plan, TypeOK
<1>10. CASE Create_Fails(p)
  BY <1>10
  DEF
    Create_Fails, Raise, directory, env, config, request, plan, TypeOK,
    Fails
<1>11. CASE Set_Lock(p)
  BY <1>11, ProcAssumption
  DEF
    Set_Lock, Goto, directory, env, config, handles, request, plan, TypeOK
<1>12. CASE Set_Lock_Fails(p)
  BY <1>12
  DEF
    Set_Lock_Fails, Abandon_Lock, Pop, Raise, directory, env, config,
    request, plan, TypeOK, Fails
<1>13. CASE Open_Current(p)
  BY <1>13
  DEF
    Open_Current, Goto, env, config, request, plan, TypeOK
<1>14. CASE Open_Current_Fails(p)
  BY <1>14
  DEF
    Open_Current_Fails, Raise, directory, env, config, handles, request,
    plan, TypeOK, Fails
<1>15. CASE Fit(p)
  BY <1>15
  DEF
    Fit, Goto, Raise, directory, env, config, request, plan, TypeOK, Fails
<1>16. CASE Exit_Loop(p)
  BY <1>16
  DEF
    Exit_Loop, Goto, directory, env, config, handles, request, plan, TypeOK
<1>17. CASE Write_Chunk(p)
  BY <1>17
  DEF
    Write_Chunk, Goto, Raise, env, config, plan, Must_Split, TypeOK, Fails
<1>18. CASE Write_Rest(p)
  BY <1>18
  DEF
    Write_Rest, Goto, Raise, env, config, request, plan, TypeOK, Fails
<1>19. CASE Write_Fails(p)
  BY <1>19
  DEF
    Write_Fails, Raise, env, config, handles, request, plan, Must_Split,
    TypeOK, Fails
<1>20. CASE Rotate(p)
  BY <1>20
  DEF
    Rotate, Goto, directory, config, handles, request, TypeOK
<1>21. CASE Remove_Log(p)
  BY <1>21
  DEF
    Remove_Log, env, config, handles, request, TypeOK
<1>22. CASE Remove_Log_Fails(p)
  BY <1>22
  DEF
    Remove_Log_Fails, Raise, End_Rotate, directory, env, config, handles,
    request, TypeOK, Fails
<1>23. CASE Rename_Current(p)
  BY <1>23
  DEF
    Rename_Current, Goto, End_Rotate, env, config, handles, request, TypeOK
<1>24. CASE Rename_Current_Fails(p)
  BY <1>24
  DEF
    Rename_Current_Fails, Raise, End_Rotate, directory, env, config,
    handles, request, TypeOK, Fails
<1>25. CASE Unlock(p)
  BY <1>25, ProcAssumption
  DEF
    Unlock, Unlock_Directory, Pop, Raise, Return, Leave, Released,
    directory, env, config, plan, TypeOK, Fails
<1>26. CASE Handler(p)
  BY <1>26, ProcAssumption
  DEF
    Handler, Handler_Asserts, Unlock_Directory, Pop, Return, Leave,
    Released, Have_Directory_Lock, directory, env, config, plan, TypeOK,
    Fails
<1>27. CASE Kill(p)
  BY <1>27, ProcAssumption
  DEF
    Kill, End_Rotate, Released, config, TypeOK
<1>28. CASE Restart(p)
  BY <1>28
  DEF
    Restart, Goto, directory, env, handles, request, plan, TypeOK
<1> QED
  BY <1>1, <1>2, <1>3, <1>4, <1>5, <1>6, <1>7, <1>8, <1>9, <1>10, <1>11, <1>12,
    <1>13, <1>14, <1>15, <1>16, <1>17, <1>18, <1>19, <1>20, <1>21, <1>22,
    <1>23, <1>24, <1>25, <1>26, <1>27, <1>28 DEF Call, Step

\* A process that fails where Write can recover has all of its resources when
\* the handler starts, or none, and none when the call is over.
LEMMA RestOwnStep ==
  ASSUME Recoverable, TypeOK, LockInv, NEW p \in Proc, Rest_OK(p),
         Call(p) \/ Step(p) \/ Kill(p) \/ Restart(p)
  PROVE  Rest_OK(p)'
<1>1. CASE Open(p)
  BY <1>1
  DEF
    Open, Leave, Context_At_Rest, directory, env, config, request, plan,
    Have_Directory_Lock, Recoverable, LockInv, Inside, Critical, Writing,
    Rotating, Rest_OK, At_Rest, Holds_Directory, TypeOK
<1>2. CASE Close(p)
  BY <1>2, ProcAssumption
  DEF
    Close, Leave, Released, directory, env, config, request, plan,
    Recoverable, LockInv, Inside, Critical, Writing, Rotating, Rest_OK,
    At_Rest, Holds_Directory, TypeOK
<1>3. CASE Set_Maximum_Saved_Files(p)
  BY <1>3
  DEF
    Set_Maximum_Saved_Files, directory, env, handles, request, plan,
    Recoverable, LockInv, Inside, Critical, Writing, Rotating, Rest_OK,
    At_Rest, Holds_Directory, TypeOK
<1>4. CASE Set_Maximum_File_Size(p)
  BY <1>4
  DEF
    Set_Maximum_File_Size, directory, env, handles, request, plan,
    Recoverable, LockInv, Inside, Critical, Writing, Rotating, Rest_OK,
    At_Rest, Holds_Directory, TypeOK
<1>5. CASE Set_Unlimited_File_Size(p)
  BY <1>5
  DEF
    Set_Unlimited_File_Size, directory, env, handles, request, plan,
    Recoverable, LockInv, Inside, Critical, Writing, Rotating, Rest_OK,
    At_Rest, Holds_Directory, TypeOK
<1>6. CASE Write(p)
  BY <1>6
  DEF
    Write, Context_At_Rest, Have_Directory_Lock, directory, env, config,
    handles, plan, Recoverable, LockInv, Inside, Critical, Writing,
    Rotating, Rest_OK, At_Rest, Holds_Directory, TypeOK
<1>7. CASE Write_Refused(p)
  BY <1>7
  DEF
    Write_Refused, Leave, directory, env, config, handles, request, plan,
    Recoverable, LockInv, Inside, Critical, Writing, Rotating, Rest_OK,
    At_Rest, Holds_Directory, TypeOK
<1>8. CASE Push_Fails(p)
  BY <1>8
  DEF
    Push_Fails, Raise, directory, env, config, handles, request, plan,
    Recoverable, LockInv, Inside, Critical, Writing, Rotating, Rest_OK,
    At_Rest, Holds_Directory, TypeOK, Fails
<1>9. CASE Lock_Directory(p)
  BY <1>9
  DEF
    Lock_Directory, Goto, directory, env, config, request, plan,
    Recoverable, LockInv, Inside, Critical, Writing, Rotating, Rest_OK,
    At_Rest, Holds_Directory, TypeOK
<1>10. CASE Create_Fails(p)
  BY <1>10
  DEF
    Create_Fails, Raise, directory, env, config, request, plan, Recoverable,
    LockInv, Inside, Critical, Writing, Rotating, Rest_OK, At_Rest,
    Holds_Directory, TypeOK, Fails
<1>11. CASE Set_Lock(p)
  BY <1>11
  DEF
    Set_Lock, Goto, directory, env, config, handles, request, plan,
    Recoverable, LockInv, Inside, Critical, Writing, Rotating, Rest_OK,
    At_Rest, Holds_Directory, TypeOK
<1>12. CASE Set_Lock_Fails(p)
  BY <1>12
  DEF
    Set_Lock_Fails, Abandon_Lock, Pop, Raise, directory, env, config,
    request, plan, Recoverable, LockInv, Inside, Critical, Writing,
    Rotating, Rest_OK, At_Rest, Holds_Directory, TypeOK, Fails
<1>13. CASE Open_Current(p)
  BY <1>13
  DEF
    Open_Current, Goto, env, config, request, plan, Recoverable, LockInv,
    Inside, Critical, Writing, Rotating, Rest_OK, At_Rest, Holds_Directory,
    TypeOK
<1>14. CASE Open_Current_Fails(p)
  BY <1>14
  DEF
    Open_Current_Fails, Raise, directory, env, config, handles, request,
    plan, Recoverable, LockInv, Inside, Critical, Writing, Rotating,
    Rest_OK, At_Rest, Holds_Directory, TypeOK, Fails
<1>15. CASE Fit(p)
  <2>1. ~(Size_Max[p] > Natural_Last)
    <3>1. Size_Max[p] \in Sizes_In_Use /\ Size_Max[p] \in Nat
      BY SizesAssumption DEF TypeOK, Sizes_In_Use, File_Size_t
    <3>2. Size_Max[p] <= Natural_Last
      BY <3>1 DEF Recoverable
    <3>3. Natural_Last \in Nat
      BY EnvironmentAssumption
    <3> QED
      BY <3>1, <3>2, <3>3
  <2> QED
    BY <1>15, <2>1
    DEF
      Fit, Goto, Raise, directory, env, config, request, plan, LockInv, Inside,
      Critical, Writing, Rotating, Rest_OK, At_Rest, Holds_Directory, TypeOK
<1>16. CASE Exit_Loop(p)
  BY <1>16
  DEF
    Exit_Loop, Goto, directory, env, config, handles, request, plan,
    Recoverable, LockInv, Inside, Critical, Writing, Rotating, Rest_OK,
    At_Rest, Holds_Directory, TypeOK
<1>17. CASE Write_Chunk(p)
  BY <1>17
  DEF
    Write_Chunk, Goto, Raise, env, config, plan, Must_Split, Recoverable,
    LockInv, Inside, Critical, Writing, Rotating, Rest_OK, At_Rest,
    Holds_Directory, TypeOK, Fails
<1>18. CASE Write_Rest(p)
  BY <1>18
  DEF
    Write_Rest, Goto, Raise, env, config, request, plan, Recoverable,
    LockInv, Inside, Critical, Writing, Rotating, Rest_OK, At_Rest,
    Holds_Directory, TypeOK, Fails
<1>19. CASE Write_Fails(p)
  BY <1>19
  DEF
    Write_Fails, Raise, env, config, handles, request, plan, Must_Split,
    Recoverable, LockInv, Inside, Critical, Writing, Rotating, Rest_OK,
    At_Rest, Holds_Directory, TypeOK, Fails
<1>20. CASE Rotate(p)
  BY <1>20
  DEF
    Rotate, Goto, directory, config, handles, request, Recoverable, LockInv,
    Inside, Critical, Writing, Rotating, Rest_OK, At_Rest, Holds_Directory,
    TypeOK
<1>21. CASE Remove_Log(p)
  BY <1>21
  DEF
    Remove_Log, env, config, handles, request, Recoverable, LockInv, Inside,
    Critical, Writing, Rotating, Rest_OK, At_Rest, Holds_Directory, TypeOK
<1>22. CASE Remove_Log_Fails(p)
  BY <1>22
  DEF
    Remove_Log_Fails, Raise, End_Rotate, directory, env, config, handles,
    request, Recoverable, LockInv, Inside, Critical, Writing, Rotating,
    Rest_OK, At_Rest, Holds_Directory, TypeOK, Fails
<1>23. CASE Rename_Current(p)
  BY <1>23
  DEF
    Rename_Current, Goto, End_Rotate, env, config, handles, request,
    Recoverable, LockInv, Inside, Critical, Writing, Rotating, Rest_OK,
    At_Rest, Holds_Directory, TypeOK
<1>24. CASE Rename_Current_Fails(p)
  BY <1>24
  DEF
    Rename_Current_Fails, Raise, End_Rotate, directory, env, config,
    handles, request, Recoverable, LockInv, Inside, Critical, Writing,
    Rotating, Rest_OK, At_Rest, Holds_Directory, TypeOK, Fails
<1>25. CASE Unlock(p)
  BY <1>25, ProcAssumption, SMTT(20)
  DEF
    Unlock, Unlock_Directory, Pop, Raise, Return, Leave, Released,
    directory, env, config, plan, Recoverable, LockInv, Inside, Critical,
    Writing, Rotating, Rest_OK, At_Rest, Holds_Directory, TypeOK, Fails
<1>26. CASE Handler(p)
  BY <1>26, ProcAssumption
  DEF
    Handler, Handler_Asserts, Unlock_Directory, Pop, Return, Leave,
    Released, Have_Directory_Lock, directory, env, config, plan,
    Recoverable, LockInv, Inside, Critical, Writing, Rotating, Rest_OK,
    At_Rest, Holds_Directory, TypeOK, Fails
<1>27. CASE Kill(p)
  BY <1>27, ProcAssumption
  DEF
    Kill, End_Rotate, Released, config, Recoverable, LockInv, Inside,
    Critical, Writing, Rotating, Rest_OK, At_Rest, Holds_Directory, TypeOK
<1>28. CASE Restart(p)
  BY <1>28
  DEF
    Restart, Goto, directory, env, handles, request, plan, Recoverable,
    LockInv, Inside, Critical, Writing, Rotating, Rest_OK, At_Rest,
    Holds_Directory, TypeOK
<1> QED
  BY <1>1, <1>2, <1>3, <1>4, <1>5, <1>6, <1>7, <1>8, <1>9, <1>10, <1>11, <1>12,
    <1>13, <1>14, <1>15, <1>16, <1>17, <1>18, <1>19, <1>20, <1>21, <1>22,
    <1>23, <1>24, <1>25, <1>26, <1>27, <1>28 DEF Call, Step

\* The same for every process, whoever takes the step.
LEMMA RestStep ==
  ASSUME Recoverable, TypeOK, LockInv, RestInv, NEW p \in Proc,
         Call(p) \/ Step(p) \/ Kill(p) \/ Restart(p)
  PROVE  RestInv'
<1> SUFFICES ASSUME NEW q \in Proc PROVE Rest_OK(q)'
  BY DEF RestInv
<1>1. CASE q = p
  BY <1>1, RestOwnStep DEF RestInv
<1>2. CASE q # p
  <2>1. UNCHANGED Own(q)
    BY <1>2, OthersUnchanged
  <2>2. UNCHANGED <<Lock_FD[q], Dir_Stack[q], lock_owner = q>>
    BY <1>2, OthersKeepResources
  <2> QED
    BY <2>1, <2>2 DEF RestInv, Rest_OK, At_Rest, Holds_Directory, Own
<1> QED
  BY <1>1, <1>2

\* After every call of Write, however it ended, the lock, the descriptor, the
\* log file and the caller's working directory have been given back, if the
\* failures were recoverable ones; killed processes hold nothing either.
THEOREM Recovery ==
  ASSUME Recoverable
  PROVE  Spec => []AtRestBetweenCalls
<1>1. Init => RestInv
  BY ProcAssumption DEF Init, RestInv, Rest_OK, At_Rest
<1>2. TypeOK /\ LockInv /\ RestInv /\ [Next]_vars => RestInv'
  <2> SUFFICES ASSUME TypeOK, LockInv, RestInv, [Next]_vars PROVE RestInv'
    OBVIOUS
  <2>1. CASE Next
    <3>1. PICK p \in Proc : Call(p) \/ Step(p) \/ Kill(p) \/ Restart(p)
      BY <2>1 DEF Next
    <3> QED
      BY <3>1, RestStep
  <2>2. CASE UNCHANGED vars
    BY <2>2 DEF vars, handles, RestInv, Rest_OK, At_Rest, Holds_Directory
  <2> QED
    BY <2>1, <2>2
<1>3. RestInv => AtRestBetweenCalls
  BY DEF RestInv, Rest_OK, At_Rest, AtRestBetweenCalls
<1> QED
  BY <1>1, <1>2, <1>3, TypeAndLock, PTL DEF Spec

-----------------------------------------------------------------------------
(* A call of Write that is about to return has written all its message.     *)

\* "current" ends with a whole line that takes the message of p to its end.
Complete(p) ==
  /\ current.lines # << >>
  /\ LET line == current.lines[Len(current.lines)]
     IN  /\ line.writer = p /\ line.call = calls[p] /\ line.whole
         /\ line.to = data[p].length

\* Nothing is written before the loop, and under a size limit the loop leaves
\* something for the end, unless the message is empty.
Delivery_OK(p) ==
  /\ pc[p] \in {"push", "lock", "open", "fit"} => Current_Offset[p] = 0
  /\ /\ pc[p] \in {"loop", "rest"} \union Rotating
     /\ Size_Limited[p]
     /\ data[p].length > 0
     => Current_Offset[p] < data[p].length
  /\ pc[p] = "unlock" /\ data[p].length > 0 => Complete(p)

DeliveryInv == \A p \in Proc : Delivery_OK(p)

\* A turn of the loop that took all that is left would not have been needed: it
\* would have fitted into an empty file.
LEMMA ChunkLeavesRest ==
  ASSUME TypeOK, NEW p \in Proc, Size_OK(p), Delivery_OK(p), Write_Chunk(p)
  PROVE  Delivery_OK(p)'
<1>1. PICK e \in 0..data[p].length :
        /\ Write_Message_Stops(p, Max_Length(p), e)
        /\ Current_Offset' = [Current_Offset EXCEPT ![p] = e]
  BY DEF Write_Chunk
<1>2. /\ Log_Size[p] = 0
      /\ ~(Log_Size[p] + Filtered_Length(p) + Message_Minimum_Length < Size_Max[p])
  BY DEF Write_Chunk, Must_Split, Size_OK, Log_Has_Space_For
<1>3. /\ Size_Max[p] \in Int /\ Message_Minimum_Length \in Int
      /\ data[p].length \in Current_Offset[p]..data[p].length
  BY SizesAssumption, MessageFacts
     DEF TypeOK, Sizes_In_Use, File_Size_t, Message_Minimum_Length, Label_Size, IsMessage
<1>4. Filtered_Length(p) \in Int
  BY <1>3, Widths DEF Filtered_Length
<1>5. e # data[p].length
  BY <1>1, <1>2, <1>3, <1>4 DEF Write_Message_Stops, Max_Length, Filtered_Length
<1>6. e < data[p].length
  <2>1. data[p].length \in Nat
    BY MessageFacts DEF IsMessage
  <2> QED
    BY <1>1, <1>5, <2>1
<1>7. Current_Offset'[p] = e /\ UNCHANGED <<data, Size_Limited>> /\ pc'[p] \in {"rotate", "handler"}
  BY <1>1 DEF Write_Chunk, Goto, Raise, config, TypeOK
<1> QED
  BY <1>6, <1>7 DEF Delivery_OK

\* The last line is written unless there is nothing to write.
LEMMA RestCompletes ==
  ASSUME TypeOK, NEW p \in Proc, Delivery_OK(p), Write_Rest(p)
  PROVE  Delivery_OK(p)'
<1>1. UNCHANGED request /\ pc[p] = "rest" /\ pc'[p] \in {"unlock", "handler"}
  BY DEF Write_Rest, Goto, Raise, TypeOK
<1>2. ASSUME data[p].length > 0 PROVE Complete(p)'
  <2>1. Something_To_Write(p)
    BY <1>1, <1>2 DEF Delivery_OK, Something_To_Write
  <2>2. data[p].length \in Current_Offset[p]..data[p].length
    BY MessageFacts DEF TypeOK, IsMessage
  <2> DEFINE line == New_Line(p, data[p].length, TRUE)
  <2>3. current'.lines = Append(current.lines, line)
    BY <2>1, <2>2, LineLength, AppendType DEF Write_Rest
  <2>4. current.lines \in Seq(Line) /\ line \in Line
    BY <2>2, Widths DEF TypeOK, Current_File, New_Line, Line
  <2> HIDE DEF line
  <2>5. current'.lines # << >> /\ current'.lines[Len(current'.lines)] = line
    BY <2>3, <2>4
  <2> QED
    BY <1>1, <2>5 DEF Complete, New_Line, request, line
<1> QED
  BY <1>1, <1>2 DEF Delivery_OK, request, Rotating

\* A process comes closer to the end of its message by its own steps,
LEMMA DeliveryOwnStep ==
  ASSUME TypeOK, NEW p \in Proc, Size_OK(p), Delivery_OK(p),
         Call(p) \/ Step(p) \/ Kill(p) \/ Restart(p)
  PROVE  Delivery_OK(p)'
<1>1. CASE Open(p)
  BY <1>1
     DEF Open, Leave, Context_At_Rest, directory, env, config, request, plan,
         Delivery_OK, Rotating, Complete, TypeOK
<1>2. CASE Close(p)
  BY <1>2
     DEF Close, Leave, Released, directory, env, config, request, plan, Delivery_OK,
         Rotating, Complete, TypeOK
<1>3. CASE Set_Maximum_Saved_Files(p)
  BY <1>3
     DEF Set_Maximum_Saved_Files, directory, env, handles, request, plan,
         Delivery_OK, Rotating, Complete, TypeOK
<1>4. CASE Set_Maximum_File_Size(p)
  BY <1>4
     DEF Set_Maximum_File_Size, directory, env, handles, request, plan, Delivery_OK,
         Rotating, Complete, TypeOK
<1>5. CASE Set_Unlimited_File_Size(p)
  BY <1>5
     DEF Set_Unlimited_File_Size, directory, env, handles, request, plan,
         Delivery_OK, Rotating, Complete, TypeOK
<1>6. CASE Write(p)
  BY <1>6
     DEF Write, Context_At_Rest, Have_Directory_Lock, directory, env, config,
         handles, plan, Delivery_OK, Rotating, Complete, TypeOK
<1>7. CASE Write_Refused(p)
  BY <1>7
     DEF Write_Refused, Leave, directory, env, config, handles, request, plan,
         Delivery_OK, Rotating, Complete, TypeOK
<1>8. CASE Push_Fails(p)
  BY <1>8
     DEF Push_Fails, Raise, directory, env, config, handles, request, plan,
         Delivery_OK, Rotating, Complete, TypeOK
<1>9. CASE Lock_Directory(p)
  BY <1>9
     DEF Lock_Directory, Goto, directory, env, config, request, plan, Delivery_OK,
         Rotating, Complete, TypeOK
<1>10. CASE Create_Fails(p)
  BY <1>10
     DEF Create_Fails, Raise, directory, env, config, request, plan, Delivery_OK,
         Rotating, Complete, TypeOK
<1>11. CASE Set_Lock(p)
  BY <1>11
     DEF Set_Lock, Goto, directory, env, config, handles, request, plan,
         Delivery_OK, Rotating, Complete, TypeOK
<1>12. CASE Set_Lock_Fails(p)
  BY <1>12
     DEF Set_Lock_Fails, Abandon_Lock, Pop, Raise, directory, env, config, request,
         plan, Delivery_OK, Rotating, Complete, TypeOK
<1>13. CASE Open_Current(p)
  BY <1>13
     DEF Open_Current, Goto, env, config, request, plan, Delivery_OK, Rotating,
         Complete, TypeOK
<1>14. CASE Open_Current_Fails(p)
  BY <1>14
     DEF Open_Current_Fails, Raise, directory, env, config, handles, request, plan,
         Delivery_OK, Rotating, Complete, TypeOK
<1>15. CASE Fit(p)
  BY <1>15
     DEF Fit, Goto, Raise, directory, env, config, request, plan, Delivery_OK,
         Rotating, Complete, TypeOK
<1>16. CASE Exit_Loop(p)
  BY <1>16
     DEF Exit_Loop, Goto, directory, env, config, handles, request, plan,
         Delivery_OK, Rotating, Complete, TypeOK
<1>17. CASE Write_Chunk(p)
  BY <1>17, ChunkLeavesRest
<1>18. CASE Write_Rest(p)
  BY <1>18, RestCompletes
<1>19. CASE Write_Fails(p)
  BY <1>19
     DEF Write_Fails, Raise, env, config, handles, request, plan, Delivery_OK,
         Rotating, Complete, TypeOK
<1>20. CASE Rotate(p)
  BY <1>20
     DEF Rotate, Goto, directory, config, handles, request, Delivery_OK, Rotating,
         Complete, TypeOK
<1>21. CASE Remove_Log(p)
  BY <1>21
     DEF Remove_Log, env, config, handles, request, Delivery_OK, Rotating, Complete,
         TypeOK
<1>22. CASE Remove_Log_Fails(p)
  BY <1>22
     DEF Remove_Log_Fails, Raise, End_Rotate, directory, env, config, handles,
         request, Delivery_OK, Rotating, Complete, TypeOK
<1>23. CASE Rename_Current(p)
  BY <1>23
     DEF Rename_Current, Goto, End_Rotate, env, config, handles, request,
         Delivery_OK, Rotating, Complete, TypeOK
<1>24. CASE Rename_Current_Fails(p)
  BY <1>24
     DEF Rename_Current_Fails, Raise, End_Rotate, directory, env, config, handles,
         request, Delivery_OK, Rotating, Complete, TypeOK
<1>25. CASE Unlock(p)
  BY <1>25
     DEF Unlock, Unlock_Directory, Pop, Raise, Return, Leave, Released, directory,
         env, config, plan, Delivery_OK, Rotating, Complete, TypeOK
<1>26. CASE Handler(p)
  BY <1>26
     DEF Handler, Handler_Asserts, Unlock_Directory, Pop, Return, Leave, Released,
         Have_Directory_Lock, directory, env, config, plan, Delivery_OK, Rotating,
         Complete, TypeOK
<1>27. CASE Kill(p)
  BY <1>27
     DEF Kill, End_Rotate, Released, config, Delivery_OK, Rotating, Complete, TypeOK
<1>28. CASE Restart(p)
  BY <1>28
     DEF Restart, Goto, directory, env, handles, request, plan, Delivery_OK,
         Rotating, Complete, TypeOK
<1> QED
  BY <1>1, <1>2, <1>3, <1>4, <1>5, <1>6, <1>7, <1>8, <1>9, <1>10, <1>11, <1>12,
    <1>13, <1>14, <1>15, <1>16, <1>17, <1>18, <1>19, <1>20, <1>21, <1>22,
    <1>23, <1>24, <1>25, <1>26, <1>27, <1>28 DEF Call, Step

\* and keeps its place under the steps of the others, which cannot write.
LEMMA DeliveryStep ==
  ASSUME TypeOK, LockInv, SizeInv, DeliveryInv, NEW p \in Proc,
         Call(p) \/ Step(p) \/ Kill(p) \/ Restart(p)
  PROVE  DeliveryInv'
<1> SUFFICES ASSUME NEW q \in Proc PROVE Delivery_OK(q)'
  BY DEF DeliveryInv
<1>1. CASE q = p
  BY <1>1, DeliveryOwnStep DEF SizeInv, DeliveryInv
<1>2. CASE q # p
  <2>1. UNCHANGED Own(q)
    BY <1>2, OthersUnchanged
  <2>2. pc[q] = "unlock" => UNCHANGED current
    BY <1>2, OnlyOwnerWrites DEF LockInv, Inside, Critical, directory
  <2> QED
    BY <2>1, <2>2 DEF DeliveryInv, Delivery_OK, Complete, Own
<1> QED
  BY <1>1, <1>2

LEMMA DeliveryInvariant == Spec => []DeliveryInv
<1>1. Init => DeliveryInv
  BY DEF Init, DeliveryInv, Delivery_OK, Rotating
<1>2. TypeOK /\ LockInv /\ SizeInv /\ DeliveryInv /\ [Next]_vars => DeliveryInv'
  <2> SUFFICES ASSUME TypeOK, LockInv, SizeInv, DeliveryInv, [Next]_vars
               PROVE  DeliveryInv'
    OBVIOUS
  <2>1. CASE Next
    <3>1. PICK p \in Proc : Call(p) \/ Step(p) \/ Kill(p) \/ Restart(p)
      BY <2>1 DEF Next
    <3> QED
      BY <3>1, DeliveryStep
  <2>2. CASE UNCHANGED vars
    BY <2>2 DEF vars, directory, config, request, DeliveryInv, Delivery_OK, Complete
  <2> QED
    BY <2>1, <2>2
<1> QED
  BY <1>1, <1>2, SizeInvariant, PTL DEF Spec

\* When Write is about to return normally, its message is in the log to the last
\* character, for every message, every size limit, and whatever rotations,
\* failures of others and changes of limits came in between.
THEOREM Delivery == Spec => []Delivered
<1>1. DeliveryInv => Delivered
  BY DEF DeliveryInv, Delivery_OK, Complete, Delivered
<1> QED
  BY <1>1, DeliveryInvariant, PTL
=============================================================================
